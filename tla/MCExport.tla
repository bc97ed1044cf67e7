------------------------------ MODULE MCExport ------------------------------
EXTENDS ExportRun

MCSources == [secs : {0, 60, 400}, audio : {"none", "opus", "aac"}]
MCTrims == {<< >>, <<[start |-> 20, end |-> 40]>>, <<[start |-> 50, end |-> 450]>>,
            <<[start |-> 40, end |-> 20]>>}
MCCliTrims == {<< >>, <<[start |-> 50, end |-> 450]>>}
MCCuts == {<< >>, <<[start |-> 0, end |-> 20], [start |-> 30, end |-> 60]>>,
           <<[start |-> 20, end |-> 40], [start |-> 30, end |-> 60]>>}
MCEditor == {UiProfile(p, FALSE, speed) : p \in Presets, speed \in {1, 2, 4, 8}}
            \cup {UiProfile(p, TRUE, speed) : p \in Presets, speed \in {1, 4}}
MCFormats == [container : {{}, {"mkv"}, {"mp4"}}, rate : {{}, {TargetSize(25)}, {Bitrate(8000)}},
              hardware : {{}}, normalize : {{}}]
MCSwitches == [container : {{}}, rate : {{}}, hardware : {{}, {FALSE}}, normalize : {{}, {TRUE}}]
MCFlags == MCFormats \cup MCSwitches
MCCli == {CliProfile(p, flags) : p \in Presets, flags \in MCFlags}
Job(profiles, windows, cut) ==
    [profile : profiles, src : MCSources, windows : windows, cut : {cut}]
MCJobs == Job(MCEditor, MCTrims, FALSE) \cup Job(MCEditor, MCCuts, TRUE) \cup Job(MCCli, MCCliTrims, FALSE)
=============================================================================
