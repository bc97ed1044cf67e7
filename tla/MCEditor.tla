------------------------------ MODULE MCEditor ------------------------------
(* A clip of six ticks with one chapter.                                    *)
EXTENDS Editor

MCChapters == {3}
MCSteps == {1}
==============================================================================
