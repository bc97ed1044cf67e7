----------------------------- MODULE MCSettings -----------------------------
(* One page and one `ord config set`; the user's file gives every field.    *)
EXTENDS Settings

CONSTANT unset

MCBase == [codec |-> 2, hdr |-> 1, length |-> 1, audio |-> 1, overlay |-> 1, folder |-> 1]
Change(f, v) == [field |-> f, value |-> v]
MCEdits == {Change("codec", 1), Change("hdr", 2), Change("audio", 2), Change("length", 2),
            Change("overlay", 2), Change("folder", unset)}
MCCliEdits == {Change("codec", 1), Change("length", 2), Change("folder", unset)}
=============================================================================
