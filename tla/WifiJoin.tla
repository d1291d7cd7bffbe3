------------------------------ MODULE WifiJoin ------------------------------
(***************************************************************************)
(* WiFiClass: the calls that wait for the module: begin() and beginAP() in *)
(* all their variants, and scanNetworks().  Each sends one command and     *)
(* then asks, with a delay before every question, until it likes the       *)
(* answer or has waited long enough.  The module is external: its status   *)
(* follows the radio, and a reply of its may be lost.  Time is counted in  *)
(* questions: WL_DELAY_START_CONNECTION for begin(), two seconds for a     *)
(* scan.                                                                   *)
(***************************************************************************)
EXTENDS Naturals

CONSTANTS Timeout,   \* _timeout / WL_DELAY_START_CONNECTION, rounded up
          Attempts   \* of scanNetworks()

ASSUME JoinAssumption == Timeout \in Nat /\ Attempts \in Nat \ {0}

VARIABLES wifi,     \* the module: what GET_CONN_STATUS says
          call,     \* the call that waits
          answer    \* history: the last answer, the call and how long it took

joinVars == <<wifi, call, answer>>

Undecided == {"idle", "no ssid", "scan completed"}
Statuses == Undecided \cup {"connected", "connect failed", "connection lost", "disconnected",
                            "ap listening", "ap connected", "ap failed", "no shield"}
Joins == {"begin", "beginAP"}
NoCall == [op |-> "none", waited |-> 0, status |-> "idle"]

JoinInit == wifi = "idle" /\ call = NoCall /\ answer = [NoCall EXCEPT !.status = "disconnected"]

Return(op, waited, status) ==
    /\ call' = NoCall /\ answer' = [op |-> op, waited |-> waited, status |-> status]

-----------------------------------------------------------------------------
(* The command: SET_NET, SET_KEY, SET_PASSPHRASE or SET_ENT for begin(),   *)
(* SET_AP_NET or SET_AP_PASSPHRASE for beginAP().  The module starts anew. *)
Refusal(op) == IF op = "begin" THEN "connect failed" ELSE "ap failed"
Join(op) ==
    /\ call = NoCall
    /\ \/ Return(op, 0, Refusal(op)) /\ UNCHANGED wifi
       \/ /\ wifi' = "idle"
          /\ IF Timeout = 0 THEN Return(op, 0, "idle")
             ELSE call' = [op |-> op, waited |-> 0, status |-> "idle"] /\ UNCHANGED answer

(* (a bug to be caught: WL_NO_SSID_AVAIL ends the wait)                    *)
DecidedHasty(status) == status \notin {"idle", "scan completed"}
Decided(status) == status \notin Undecided
(* (a bug to be caught: it asks for ever)                                  *)
TimeLeftAlways(waited) == TRUE
TimeLeft(waited) == waited < Timeout

(* delay(), then the question; its reply may be lost.  The time waited     *)
(* wraps, as millis() does.                                                *)
AskStatus ==
    /\ call.op \in Joins
    /\ \E status \in {wifi, "no shield"} :
         IF Decided(status) \/ ~ TimeLeft(call.waited + 1)
         THEN Return(call.op, call.waited + 1, status)
         ELSE /\ call' = [call EXCEPT !.waited = (@ + 1) % (Timeout + 1), !.status = status]
              /\ UNCHANGED answer
    /\ UNCHANGED wifi

Scan ==
    /\ call = NoCall
    /\ \/ Return("scan", 0, "failure")
       \/ call' = [op |-> "scan", waited |-> 0, status |-> "idle"] /\ UNCHANGED answer
    /\ UNCHANGED wifi

MoreAttempts == call.waited + 1 < Attempts
AskNetworks ==
    /\ call.op = "scan"
    /\ \E found \in {"none", "some"} :
         IF found = "none" /\ MoreAttempts
         THEN call' = [call EXCEPT !.waited = @ + 1] /\ UNCHANGED answer
         ELSE Return("scan", call.waited + 1, found)
    /\ UNCHANGED wifi

-----------------------------------------------------------------------------
(* The module and the radio                                                *)
Changes ==
    /\ \/ /\ wifi \in {"idle", "no ssid"}
          /\ wifi' \in {"no ssid", "connected", "connect failed", "disconnected", "ap listening"}
       \/ wifi = "connected" /\ wifi' \in {"connection lost", "disconnected"}
       \/ wifi = "ap listening" /\ wifi' = "ap connected"
       \/ wifi = "ap connected" /\ wifi' = "ap listening"
    /\ UNCHANGED <<call, answer>>

JoinNext == \/ \E op \in Joins : Join(op)
            \/ Scan \/ AskStatus \/ AskNetworks \/ Changes
JoinSpec == JoinInit /\ [][JoinNext]_joinVars
FairJoinSpec == JoinSpec /\ WF_joinVars(AskStatus) /\ WF_joinVars(AskNetworks)

-----------------------------------------------------------------------------
(* A status that decides nothing is an answer only when the time is over;  *)
(* an empty list of networks only when all attempts were made.             *)
UndecidedMeansLate ==
    /\ answer.op \in Joins /\ answer.status \in Undecided => answer.waited = Timeout
    /\ answer.op = "scan" /\ answer.status = "none" => answer.waited = Attempts

(* begin(), beginAP() and scanNetworks() return, whatever the radio does.  *)
JoinsReturn == (call # NoCall) ~> (call = NoCall)
=============================================================================
