---------------------------- MODULE MCAutomation ----------------------------
(***************************************************************************)
(* Automation in instances TLC can exhaust: a behaviour has the use of     *)
(* overlapping passes, an edit and a restart, or of a call by hand beside  *)
(* one pass, with a restart or with a second slot, but not of all of them. *)
(***************************************************************************)
EXTENDS Automation

NeverCalls(calls) == [d \in Dispatchers |-> IF d \in calls THEN [NoJob EXCEPT !.step = "done"]
                                            ELSE NoJob]

Scheduled   == jobs = NeverCalls(ManualCalls) /\ edits = 0 /\ autoRestarts = 0
ByHand      == jobs = NeverCalls({"pass2"}) /\ edits = MaxEdits /\ autoRestarts = MaxRuntimes
Interrupted == jobs = NeverCalls({"pass2"}) /\ edits = MaxEdits /\ autoRestarts = 0

MCAutoInit ==
    /\ clock \in {0, 1}
    /\ runs = << >> /\ threads = << >> /\ bindings = {} /\ updates = << >>
    /\ boot = [phase |-> "up", todo |-> << >>]
    /\ schedule = [enabled |-> TRUE, next |-> clock + 1]
    /\ skipped = 1..clock
    /\ \/ Scheduled /\ clock = 0
       \/ ByHand /\ clock = 0
       \/ Interrupted /\ clock = 1

MCAutoSpec == MCAutoInit /\ [][AutoNext]_autoVars /\ AutoFairness
=============================================================================
