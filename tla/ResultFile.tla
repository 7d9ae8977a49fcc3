----------------------------- MODULE ResultFile -----------------------------
(***************************************************************************)
(* What a suite run promises about its result file, whatever interrupts    *)
(* it: the file is always a whole document, either the one that was there  *)
(* before the run or exactly the graphs recorded when it was published,    *)
(* and what the process says when it ends is true of the file.             *)
(***************************************************************************)
EXTENDS Integers

CONSTANTS Total,   \* graphs of the suite
          Output   \* was a result file asked for?

VARIABLES recorded,  \* graphs recorded so far
          file,      \* the output path: whose document, of how many graphs
          ended,     \* "no", "died" or "returned"
          exit       \* of a process that returned: its code and its claim

vars == <<recorded, file, ended, exit>>

Init == /\ recorded = 0 /\ ended = "no"
        /\ file = [by |-> "before", n |-> 0, complete |-> FALSE]
        /\ exit = [code |-> 0, saved |-> FALSE]

Record == /\ ended = "no" /\ recorded < Total
          /\ recorded' = recorded + 1
          /\ UNCHANGED <<file, ended, exit>>

Publish == /\ ended = "no" /\ Output
           /\ \E complete \in BOOLEAN :
                /\ complete => recorded = Total
                /\ file' = [by |-> "suite", n |-> recorded, complete |-> complete]
           /\ UNCHANGED <<recorded, ended, exit>>

(* A process that ends in order claims `saved` or not.  A saved file holds *)
(* every recorded graph, and is marked complete unless the run was cut     *)
(* short (130, 143); code 0 is only for a whole suite, saved if asked for. *)
Return(code, saved) ==
  LET cut == code \in {130, 143} IN
  /\ saved => /\ Output
              /\ file = [by |-> "suite", n |-> recorded, complete |-> ~cut]
  /\ ~cut => recorded = Total
  /\ code = 0 => (saved <=> Output)
  /\ ended' = "returned" /\ exit' = [code |-> code, saved |-> saved]

End == /\ ended = "no"
       /\ \/ ended' = "died" /\ UNCHANGED exit
          \/ \E code \in {0, 1, 3, 130, 143}, saved \in BOOLEAN : Return(code, saved)
       /\ UNCHANGED <<recorded, file>>

Next == Record \/ Publish \/ End

Spec == Init /\ [][Next]_vars
=============================================================================
