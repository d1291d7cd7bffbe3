------------------------------- MODULE NinaSpi ------------------------------
(***************************************************************************)
(* SpiDrv: one transaction of the board with the WiFi module.  The board   *)
(* waits for the module's ready pin, selects it, writes a command, lets go *)
(* and waits again, selects it a second time and reads the answer.  The    *)
(* firmware of the module is not in the repository; it is modelled from    *)
(* what the driver expects of it.                                          *)
(***************************************************************************)
EXTENDS NinaCommands

CONSTANTS Driven,      \* the commands the sketch uses
          MaxIssued,   \* bound: the numbers 1 .. MaxIssued go round
          MaxFaults    \* bound: bad answers, and deaths of the module

ASSUME SpiAssumption == /\ Driven \subseteq PaddedCommands \cup UnpaddedCommands
                        /\ MaxIssued \in Nat /\ MaxIssued > 1
                        /\ MaxFaults \in Nat

VARIABLES
    initialized,  \* SpiDrv::initialized
    at,           \* where the board stands in the transaction
    job,          \* the command under way
    item,         \* next parameter to write
    size,         \* bytes written in this transfer, modulo 4
    ended,        \* how often END_CMD was written
    issued,       \* number of the transaction
    ready,        \* the pin SLAVEREADY is low
    module,       \* what the module does
    heard,        \* the command the module has taken: its code and number
    reply,        \* what it shifts out
    result,       \* of the last call: accepted or not, and whose data
    faults

hostVars == <<initialized, at, job, item, size, ended, issued, result>>
moduleVars == <<ready, module, heard, reply, faults>>
spiVars == <<hostVars, moduleVars>>

Places == {"idle", "waitReady", "select", "header", "send", "sent",
           "waitReply", "selectReply", "start", "code", "count"}
ModuleStates == {"off", "booting", "idle", "receiving", "working",
                 "answered", "replying", "rearming", "mute"}
NoReply == [kind |-> "none", code |-> "none", count |-> 0, id |-> 0]
NoJob == Bare("none", NoAnswer)
NoneHeard == [code |-> "none", id |-> 0]

InitS == /\ initialized = FALSE /\ at = "idle" /\ job = NoJob /\ item = 1
         /\ size = 0 /\ ended = 0 /\ issued = 0
         /\ result = [ok |-> TRUE, id |-> 0, told |-> "unset"]
         /\ ready = FALSE /\ module = "off" /\ heard = NoneHeard
         /\ reply = NoReply /\ faults = 0

-----------------------------------------------------------------------------
(* The board                                                               *)

(* The numbers go round: what counts is which transaction is the current.  *)
NextNumber == (issued % MaxIssued) + 1

(* WAIT_FOR_SLAVE_SELECT: begin() resets a module not yet in use.          *)
Issue(c) ==
    /\ at = "idle"
    /\ at' = "waitReady" /\ job' = c /\ item' = 1 /\ size' = 0 /\ ended' = 0
    /\ issued' = NextNumber /\ initialized' = TRUE
    /\ IF initialized THEN UNCHANGED moduleVars
       ELSE /\ module' = IF module = "mute" THEN "mute" ELSE "booting"
            /\ UNCHANGED <<ready, heard, reply, faults>>
    /\ UNCHANGED result

(* WiFi.end(): the module is held in reset.                                *)
End ==
    /\ at = "idle" /\ initialized
    /\ initialized' = FALSE
    /\ IF module = "mute" THEN UNCHANGED <<ready, module>>
       ELSE ready' = FALSE /\ module' = "off"
    /\ heard' = NoneHeard /\ reply' = NoReply
    /\ UNCHANGED <<at, job, item, size, ended, issued, result, faults>>

(* waitForSlaveReady, which has no limit of time, and the slave select.    *)
(* (a bug to be caught: the answer is read without waiting for it)         *)
MayReadHasty == TRUE
MayRead == ready
SlaveSelect ==
    /\ \/ at = "waitReady" /\ ready /\ at' = "select"
       \/ at = "waitReply" /\ MayRead /\ at' = "selectReply"
    /\ UNCHANGED <<initialized, job, item, size, ended, issued, result, moduleVars>>

(* spiSlaveSelect waits until the module signals it is busy; after 5 ms it *)
(* goes on without that, which happens only where no module answers.       *)
(* (a bug to be caught: the board does not wait for the busy signal)       *)
BusyIgnored == TRUE
Busy == ready => module = "mute"
SelectEnds ==
    /\ Busy
    /\ \/ at = "select" /\ at' = "header"
       \/ at = "selectReply" /\ at' = "start"
    /\ UNCHANGED <<initialized, job, item, size, ended, issued, result, moduleVars>>

(* sendCmd: START_CMD, the code, the number of parameters, and END_CMD if  *)
(* there are none.                                                         *)
(* (bugs to be caught: a command without parameters has no end; every      *)
(* command has one here)                                                   *)
ClosingNever == 0
ClosingAlways == 1
Closing == IF job.count = 0 THEN 1 ELSE 0
SendCmd ==
    /\ at = "header"
    /\ at' = "send" /\ size' = (3 + Closing) % 4 /\ ended' = Closing
    /\ UNCHANGED <<initialized, job, item, issued, result, moduleVars>>

(* sendParam, sendBuffer, sendParamNoLen.                                  *)
Written(p) == p.head + p.body + (IF p.last THEN 1 ELSE 0)
SendParam ==
    /\ at = "send" /\ item <= Len(job.sends)
    /\ LET p == job.sends[item] IN
       /\ size' = (size + Written(p)) % 4
       /\ ended' = IF p.last THEN ended + 1 ELSE ended
    /\ item' = item + 1
    /\ UNCHANGED <<initialized, at, job, issued, result, moduleVars>>

(* The calls of readChar() that fill up the transfer.                      *)
Pad ==
    /\ at = "send" /\ item > Len(job.sends)
    /\ at' = "sent" /\ size' = (size + job.pad) % 4
    /\ UNCHANGED <<initialized, job, item, ended, issued, result, moduleVars>>

(* What the caller gets: the data of an answer, or its own default.        *)
Return(ok, id) ==
    /\ at' = "idle" /\ job' = NoJob
    /\ item' = 1 /\ size' = 0 /\ ended' = 0
    /\ result' = [ok |-> ok, id |-> id, told |-> job.answer.default]

(* spiSlaveDeselect ends the transfer; the module takes the command, or is *)
(* free for the next one.                                                  *)
LetGo ==
    /\ at = "sent"
    /\ IF job.answer.form = "none" THEN Return(TRUE, 0)
       ELSE at' = "waitReply" /\ UNCHANGED <<job, item, size, ended, result>>
    /\ IF module = "receiving"
       THEN /\ module' = IF job.code = "APPLY_OTA" THEN "booting" ELSE "working"
            /\ heard' = [code |-> job.code, id |-> issued]
       ELSE UNCHANGED <<module, heard>>
    /\ UNCHANGED <<initialized, issued, ready, reply, faults>>

(* Every way out of the wait functions ends in spiSlaveDeselect.           *)
Finish(ok, id) ==
    /\ Return(ok, id)
    /\ module' = IF module = "replying" THEN "rearming" ELSE module
    /\ reply' = IF module = "replying" THEN NoReply ELSE reply
    /\ heard' = IF module = "replying" THEN NoneHeard ELSE heard
    /\ UNCHANGED <<initialized, issued, ready, faults>>

(* waitSpiChar(START_CMD): gives up after TIMEOUT_CHAR characters.  ERR_CMD *)
(* returns -1, which IF_CHECK_START_CMD takes for success.                 *)
StartSeen == module = "replying" /\ reply.kind \in {"answer", "error"}
(* (a bug to be caught: the characters are not counted)                    *)
GivesUpNever == FALSE
GivesUp == ~ StartSeen
WaitStart ==
    /\ at = "start"
    /\ \/ /\ StartSeen /\ at' = "code"
          /\ UNCHANGED <<initialized, job, item, size, ended, issued, result, moduleVars>>
       \/ GivesUp /\ Finish(FALSE, 0)

(* CHECK_DATA(cmd | REPLY_FLAG)                                            *)
IsReply == reply.kind = "answer" /\ reply.code = job.code
CheckCode ==
    /\ at = "code"
    /\ \/ /\ IsReply /\ at' = "count"
          /\ UNCHANGED <<initialized, job, item, size, ended, issued, result, moduleVars>>
       \/ ~ IsReply /\ Finish(FALSE, 0)

(* The number of parameters, as each wait function looks at it, the        *)
(* parameters and END_CMD, which is read but not insisted on.              *)
Accepts(answer, count) ==
    \/ answer.form = "cmd"    /\ count = answer.count
    \/ answer.form = "data"
    \/ answer.form = "params" /\ count = answer.count
    \/ answer.form = "list"   /\ count # 0
ReadParams ==
    /\ at = "count"
    /\ Finish(Accepts(job.answer, reply.count),
              IF Accepts(job.answer, reply.count) /\ reply.count # 0 THEN reply.id ELSE 0)

Board == \/ \E c \in Driven : Issue(c)
         \/ End \/ SlaveSelect \/ SelectEnds \/ SendCmd \/ SendParam \/ Pad \/ LetGo
         \/ WaitStart \/ CheckCode \/ ReadParams

-----------------------------------------------------------------------------
(* The module                                                              *)

(* The module is selected: it raises the pin and shifts.                   *)
Signal ==
    /\ ready /\ at \in {"select", "selectReply"} /\ module \in {"idle", "answered"}
    /\ ready' = FALSE
    /\ module' = IF module = "idle" THEN "receiving" ELSE "replying"
    /\ UNCHANGED <<hostVars, heard, reply, faults>>

(* It has started, or is done with the last transfer.                      *)
Rearm ==
    /\ module \in {"booting", "rearming"}
    /\ module' = "idle" /\ ready' = TRUE
    /\ UNCHANGED <<hostVars, heard, reply, faults>>

(* It has carried out the command.                                         *)
Expected == IF heard.code = "GET_IPADDR" THEN 3 ELSE IF heard.code = "GET_REMOTE_DATA" THEN 2 ELSE 1
Answer ==
    /\ module = "working"
    /\ module' = "answered" /\ ready' = TRUE
    /\ reply' = [kind |-> "answer", code |-> heard.code, count |-> Expected, id |-> heard.id]
    /\ UNCHANGED <<hostVars, heard, faults>>

(* It reports an error, says nothing, or sends fewer parameters.           *)
BadAnswer ==
    /\ module = "working" /\ faults < MaxFaults
    /\ module' = "answered" /\ ready' = TRUE /\ faults' = faults + 1
    /\ \E kind \in {"error", "none", "answer"} :
         reply' = [kind |-> kind, code |-> heard.code, count |-> 0, id |-> heard.id]
    /\ UNCHANGED <<hostVars, heard>>

(* It stops for good with its pin ready, or is not there at all.           *)
Dies ==
    /\ module # "mute" /\ faults < MaxFaults
    /\ module' = "mute" /\ ready' = TRUE /\ faults' = faults + 1
    /\ reply' = NoReply /\ heard' = NoneHeard
    /\ UNCHANGED hostVars

ModuleStep == Signal \/ Rearm \/ Answer \/ BadAnswer

NextS == Board \/ ModuleStep \/ Dies
SpecS == InitS /\ [][NextS]_spiVars
FairSpecS == SpecS /\ WF_spiVars(Board) /\ WF_spiVars(ModuleStep)

-----------------------------------------------------------------------------
Flags == initialized \in BOOLEAN /\ ready \in BOOLEAN /\ result.ok \in BOOLEAN
HostTypes ==
    /\ at \in Places /\ job \in Driven \cup {NoJob} /\ item \in 1 .. 8
    /\ size \in 0 .. 3 /\ ended \in 0 .. 1
    /\ issued \in 0 .. MaxIssued /\ result.id \in 0 .. MaxIssued
ModuleTypes ==
    /\ module \in ModuleStates
    /\ heard.id \in 0 .. MaxIssued /\ reply.id \in 0 .. MaxIssued
    /\ faults \in 0 .. MaxFaults
TypeOKS == Flags /\ HostTypes /\ ModuleTypes

(* Both sides agree on what a transfer is: the board writes a command only *)
(* to a module that is taking one, and reads an answer only from one that  *)
(* is giving it.  Two handshakes on one pin stand behind this.             *)
TransfersMatch ==
    module # "mute" =>
        /\ at \in {"header", "send", "sent"} => module = "receiving"
        /\ at \in {"start", "code", "count"} => module = "replying"

(* What the two sides know of each other between the steps of a transfer:  *)
(* the states the module can be in at each place of the board, and what    *)
(* its pin says of them.                                                   *)
MayBe == [place \in Places |->
    CASE place = "idle" -> {"off", "booting", "idle", "rearming"}
      [] place = "waitReady" -> {"booting", "idle", "rearming"}
      [] place = "select" -> {"idle", "receiving"}
      [] place \in {"header", "send", "sent"} -> {"receiving"}
      [] place = "waitReply" -> {"working", "answered"}
      [] place = "selectReply" -> {"answered", "replying"}
      [] place \in {"start", "code", "count"} -> {"replying"}]
Handshake ==
    /\ at # "idle" => initialized
    /\ initialized => module # "off"
    /\ ~ initialized => module \in {"off", "mute"}
    /\ module # "mute" => module \in MayBe[at]
    /\ ready <=> module \in {"idle", "answered", "mute"}

(* The module works on the command of this transaction and answers it.     *)
Answering ==
    /\ module \in {"working", "answered", "replying"}
           => heard = [code |-> job.code, id |-> issued]
    /\ module \in {"answered", "replying"} => reply.id = issued
    /\ module = "mute" => reply = NoReply

(* Where the board stands in its command: what it has written is the head  *)
(* of the command and the parameters before item.                          *)
PartBefore(c, i, k) == IF k < i /\ k <= Len(c.sends) THEN Written(c.sends[k]) ELSE 0
WrittenBefore(c, i) ==
    3 + (IF c.count = 0 THEN 1 ELSE 0)
      + PartBefore(c, i, 1) + PartBefore(c, i, 2) + PartBefore(c, i, 3)
      + PartBefore(c, i, 4) + PartBefore(c, i, 5) + PartBefore(c, i, 6)
Progress ==
    /\ at # "idle" => job \in Driven /\ issued # 0
    /\ at \in {"waitReady", "select", "header"} => item = 1
    /\ at = "sent" => item = Len(job.sends) + 1
    /\ at \in {"send", "sent"} =>
         /\ item <= Len(job.sends) + 1
         /\ ended = IF item > Len(job.sends) THEN 1 ELSE 0
         /\ size = (WrittenBefore(job, item) + (IF at = "sent" THEN job.pad ELSE 0)) % 4

(* Data a call returns are those of its own command, never what is left of *)
(* an earlier transaction that was refused or given up half way.           *)
OwnReply == at = "idle" /\ result.id # 0 => result.id = issued

(* What reaches the module is a whole command: as many parameters as were  *)
(* announced and one END_CMD, behind the last of them.                     *)
WholeCommand ==
    at = "sent" => /\ ended = 1
                   /\ Len(job.sends) = job.count
                   /\ \A i \in 1 .. Len(job.sends) : job.sends[i].last <=> i = job.count

(* "pad to multiple of 4", the comment over every padding, is what every   *)
(* command does but those of UnpaddedCommands.                             *)
PadToMultipleOf4 == at = "sent" /\ job \notin UnpaddedCommands => size = 0

(* The handshake: types, and both sides at the same transfer, of the same  *)
(* command, as far as the board has got with it.                           *)
SpiInv == TypeOKS /\ TransfersMatch /\ Handshake /\ Answering /\ Progress

(* The command that reaches the module is whole and fills its transfer.    *)
CommandIsWhole == WholeCommand /\ PadToMultipleOf4

(* Whatever the module answers, or if it dies with its pin low, a call     *)
(* comes back.                                                             *)
CallsComeBack == (at # "idle") ~> (at = "idle")
=============================================================================
