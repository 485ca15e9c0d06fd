----------------------------- MODULE EventFeed -----------------------------
(***************************************************************************)
(* What the service promises a reader of a run's event feed: the feed only *)
(* grows while the run is open, the reader gets it from the first event on *)
(* without a gap and without a repetition, and is told that the run is     *)
(* over only when it has had all of it.  The promise ends, with kept       *)
(* FALSE, when an operator cancels the run or removes its files: a         *)
(* cancelled run may still write a last event, and removed events cannot   *)
(* be read.                                                                *)
(***************************************************************************)
EXTENDS Naturals, Sequences, SequencesExt

VARIABLES log,       \* the events written so far, by sequence number
          delivered, \* what the reader has had
          open,      \* the run may still write
          over,      \* the reader was told that the run is over
          kept       \* nobody cancelled the run or removed its files

vars == <<log, delivered, open, over, kept>>

Init ==
    /\ log = <<>> /\ delivered = <<>>
    /\ open = TRUE /\ over = FALSE /\ kept = TRUE

(* The run writes an event; numbers grow, and may jump where a crash ate one. *)
Write ==
    /\ kept /\ open
    /\ Len(log') = Len(log) + 1 /\ IsPrefix(log, log')
    /\ log = <<>> \/ Last(log') > Last(log)
    /\ UNCHANGED <<delivered, open, over, kept>>

(* The run completes or fails. *)
Seal ==
    /\ kept /\ open /\ open' = FALSE
    /\ UNCHANGED <<log, delivered, over, kept>>

(* The reader gets what comes next, perhaps together with the news that the run is over. *)
Read ==
    /\ kept /\ ~over
    /\ IsPrefix(delivered, delivered') /\ IsPrefix(delivered', log)
    /\ over' => ~open /\ delivered' = log
    /\ UNCHANGED <<log, open, kept>>

Void ==
    /\ kept' = FALSE

Next == Write \/ Seal \/ Read \/ Void

Spec == Init /\ [][Next]_vars
=============================================================================
