---------------------------- MODULE EvaluationCall ----------------------------
(***************************************************************************)
(* What the evaluation of one candidate promises the Run that asks for it: *)
(* at most one job puts work on a device for it, a receipt is given only   *)
(* once that job has worked, and an answer that is not a fault ends the    *)
(* matter: nothing works for the request afterwards.  EvaluationJob is     *)
(* shown to implement this over a node that accepts, loses, delays and     *)
(* interrupts jobs.                                                        *)
(***************************************************************************)
CONSTANTS Requests, Jobs

VARIABLES
    worked,   \* [Requests -> the jobs that have worked for the request]
    answer    \* [Requests -> what the Run was told]

Settled == {"receipt", "no_receipt"}
Answers == Settled \cup {"fault", "abandoned"}

CallInit ==
    /\ worked = [r \in Requests |-> {}]
    /\ answer = [r \in Requests |-> "none"]

Perform(r) ==
    /\ worked[r] = {} /\ answer[r] \notin Settled
    /\ \E j \in Jobs : worked' = [worked EXCEPT ![r] = {j}]
    /\ UNCHANGED answer

Reply(r) ==
    /\ answer[r] = "none"
    /\ \E a \in Answers :
        /\ a = "receipt" => worked[r] # {}
        /\ answer' = [answer EXCEPT ![r] = a]
    /\ UNCHANGED worked

CallNext == \E r \in Requests : Perform(r) \/ Reply(r)

CallSpec == CallInit /\ [][CallNext]_<<worked, answer>>
===============================================================================
