-------------------------------- MODULE Pipe --------------------------------
(***************************************************************************)
(* What either direction of a proxied connection promises: the bytes the   *)
(* writer hands over come out at the reader in the same order, none lost,  *)
(* none twice, and the reader sees end-of-file only after the last of them.*)
(* The bytes of one connection are the cells of the sequence `sent`.       *)
(***************************************************************************)
EXTENDS Sequences, SequencesExt

VARIABLES
    sent,    \* what the writer has handed over
    recv,    \* what the reader has been given
    eof      \* the reader has been told that nothing more will come

pipeVars == <<sent, recv, eof>>

Init == sent = <<>> /\ recv = <<>> /\ eof = FALSE

Write == /\ ~eof
         /\ sent' # sent
         /\ IsPrefix(sent, sent')
         /\ UNCHANGED <<recv, eof>>

Read == /\ ~eof
        /\ recv' # recv
        /\ IsPrefix(recv, recv')
        /\ IsPrefix(recv', sent)
        /\ UNCHANGED <<sent, eof>>

Close == /\ recv = sent
         /\ eof' = TRUE
         /\ UNCHANGED <<sent, recv>>

Next == Write \/ Read \/ Close

Spec == Init /\ [][Next]_pipeVars
=============================================================================
