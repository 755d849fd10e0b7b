------------------------------- MODULE Bridge -------------------------------
(***************************************************************************)
(* The Swift helper process (cubridge), its client in the driver, and the  *)
(* clipboard paste that uses it.                                           *)
(*                                                                         *)
(* One mutex guards the slot with the helper process; a request holds it   *)
(* while it writes one line and reads one line.  Every request has the     *)
(* same id, so an answer is taken for the answer to the request just       *)
(* written.  A driver error of any kind kills the process and sends the    *)
(* request once more to a new one; what becomes of the second attempt is   *)
(* returned as it is.  The process answers in order, and it may answer     *)
(* with an error, hang (it never takes its next step) or die anywhere.     *)
(*                                                                         *)
(* Commands differ in what they do to the clipboard: "read" stands for     *)
(* displays, capture, active, permissions, resolve_target and the others   *)
(* that only report; "get" and "set" are the clipboard commands.           *)
(***************************************************************************)
EXTENDS Naturals, Sequences, FiniteSets

CONSTANTS Callers,      \* threads of the daemon that use the bridge
          Paster,       \* the one that runs type_via_clipboard
          Processes,    \* helper processes; one that is dead can be reborn
          NoProcess,    \* an empty slot
          Nobody,       \* a free mutex
          MaxRequests   \* bound: requests of each other caller

ASSUME BridgeAssumption ==
  /\ Paster \in Callers /\ Nobody \notin Callers
  /\ NoProcess \notin Processes
  /\ MaxRequests \in Nat

VARIABLES
  mutex,      \* Bridge::inner: the caller inside, or Nobody
  held,       \* Bridge::inner: the process in the slot, or NoProcess
  alive,      \* processes that run
  acted,      \* processes that have done what they were asked, not yet said so
  inbox,      \* lines written to a process, the one it works on first
  reply,      \* what the process is going to print
  outbox,     \* lines the process has printed and nobody has read
  stage,      \* how far a caller's request() has got
  tries,      \* how often it has been sent
  command,    \* what it asks
  answer,     \* what it returned
  sent,       \* how many requests the caller has made
  clipboard,  \* NSPasteboard.general
  paste,      \* how far type_via_clipboard has got
  saved,      \* its copy of the contents it found
  found,      \* history: the contents it should have found
  pasted,     \* history: the clipboard when Cmd-V was posted
  abandoned,  \* history: processes whose answer nobody waited for
  trouble     \* history: an attempt failed or the pasteboard refused

slotVars    == <<mutex, held, abandoned>>
processVars == <<alive, acted, inbox, reply, outbox>>
callerVars  == <<stage, tries, command, answer, sent>>
pasteVars   == <<paste, saved, found, pasted>>
bridgeVars  == <<slotVars, processVars, callerVars, clipboard, pasteVars, trouble>>

Contents == {"user", "typed", "empty"}
Stages   == {"idle", "queued", "write", "read", "returned"}

\* What a line asks for, and for whom: the answer does not say, but it is
\* what the properties compare.
Commands == [by : Callers, op : {"read", "get", "set"}, text : Contents]
Values   == Contents \cup {"ok", "error", "true", "false", "failed", "pending"}
Answers  == [to : Commands, val : Values]
Troubles == {"attempt", "refused", "abandoned"}

Ask(c, op, text) == [by |-> c, op |-> op, text |-> text]

BridgeInit ==
  /\ mutex = Nobody /\ held = NoProcess /\ abandoned = {}
  /\ alive = {} /\ acted = {}
  /\ inbox  = [p \in Processes |-> <<>>]
  /\ reply  = [p \in Processes |-> "ok"]
  /\ outbox = [p \in Processes |-> <<>>]
  /\ stage  = [c \in Callers |-> "idle"]
  /\ tries  = [c \in Callers |-> 0]
  /\ command = [c \in Callers |-> Ask(c, "read", "empty")]
  /\ answer = [c \in Callers |-> [to |-> command[c], val |-> "pending"]]
  /\ sent   = [c \in Callers |-> 0]
  /\ clipboard \in {"user", "empty"}
  /\ paste = "off" /\ saved = "empty" /\ found = "empty" /\ pasted = "empty"
  /\ trouble = {}

-----------------------------------------------------------------------------
(* The helper process. *)

\* What a command does and reports.  A capture without permission, on a locked
\* screen, of a display that is gone or that ScreenCaptureKit does not finish
\* in 15 s is an error; one that waits for the shareable content may hang.
Outcomes(cmd) ==
  IF cmd.op = "read" THEN [clip : {clipboard}, val : {"ok", "error"}]
  ELSE IF cmd.op = "get" THEN {[clip |-> clipboard, val |-> clipboard]}
  ELSE {[clip |-> cmd.text, val |-> "true"], [clip |-> "empty", val |-> "false"]}

ProcessActs(p) ==
  /\ p \in alive /\ p \notin acted /\ inbox[p] # <<>>
  /\ \E o \in Outcomes(Head(inbox[p])) :
       /\ clipboard' = o.clip
       /\ reply' = [reply EXCEPT ![p] = o.val]
       /\ trouble' = IF o.val = "false" THEN trouble \cup {"refused"} ELSE trouble
  /\ acted' = acted \cup {p}
  /\ UNCHANGED <<slotVars, alive, inbox, outbox, callerVars, pasteVars>>

ProcessPrints(p) ==
  /\ p \in acted
  /\ acted' = acted \ {p}
  /\ outbox' = [outbox EXCEPT ![p] = Append(@, [to |-> Head(inbox[p]), val |-> reply[p]])]
  /\ inbox' = [inbox EXCEPT ![p] = Tail(@)]
  /\ reply' = [reply EXCEPT ![p] = "ok"]
  /\ UNCHANGED <<slotVars, alive, callerVars, clipboard, pasteVars, trouble>>

\* What it has printed can still be read; what it has not read is lost.
ProcessDies(p) ==
  /\ p \in alive
  /\ alive' = alive \ {p} /\ acted' = acted \ {p}
  /\ inbox' = [inbox EXCEPT ![p] = <<>>]
  /\ UNCHANGED <<slotVars, reply, outbox, callerVars, clipboard, pasteVars, trouble>>

-----------------------------------------------------------------------------
(* The slot.  Each of these says what becomes of the slot and the processes
   of the set old, which are killed and waited for. *)

Emptied(old) ==
  /\ inbox'  = [p \in Processes |-> IF p \in old THEN <<>> ELSE inbox[p]]
  /\ outbox' = [p \in Processes |-> IF p \in old THEN <<>> ELSE outbox[p]]
  /\ acted'  = acted \ old
  /\ abandoned' = abandoned \ old

NothingKilled == {}
Old == {held} \cap Processes

\* ensure_path or the launch fails: there is no process in the slot.
SpawnFails(old) ==
  /\ Emptied(old)
  /\ alive' = alive \ old
  /\ held' = NoProcess

\* A new process takes the name of one that is gone.
Dead(old) == Processes \ (alive \ old)

Spawns(old) ==
  /\ Emptied(old)
  /\ Dead(old) # {}
  /\ held' = CHOOSE p \in Dead(old) : TRUE
  /\ alive' = (alive \ old) \cup {held'}

-----------------------------------------------------------------------------
(* Bridge::request *)

Call(c, op, text) ==
  /\ stage[c] \in {"idle", "returned"}
  /\ stage' = [stage EXCEPT ![c] = "queued"]
  /\ command' = [command EXCEPT ![c] = Ask(c, op, text)]
  /\ answer' = [answer EXCEPT ![c] = [to |-> command'[c], val |-> "pending"]]

Return(c, a) ==
  /\ mutex' = Nobody
  /\ stage' = [stage EXCEPT ![c] = "returned"]
  /\ answer' = [answer EXCEPT ![c] = a]
  /\ tries' = [tries EXCEPT ![c] = 0]

Fail(c) == Return(c, [to |-> command[c], val |-> "failed"])

Attempt(c) ==
  /\ stage' = [stage EXCEPT ![c] = "write"]
  /\ tries' = [tries EXCEPT ![c] = @ + 1]

\* A failed attempt matters to the paste when it is its own.
Blamed(c) == IF c = Paster THEN trouble \cup {"attempt"} ELSE trouble

Enter(c) ==
  /\ stage[c] = "queued" /\ mutex = Nobody
  /\ \/ /\ held # NoProcess
        /\ mutex' = c /\ Attempt(c)
        /\ UNCHANGED <<held, abandoned, alive, acted, inbox, outbox, answer, trouble>>
     \/ /\ held = NoProcess /\ Spawns(NothingKilled)
        /\ mutex' = c /\ Attempt(c)
        /\ UNCHANGED <<answer, trouble>>
     \/ /\ Fail(c)                      \* the binary is missing, or does not start
        /\ trouble' = Blamed(c)
        /\ UNCHANGED <<held, abandoned, alive, acted, inbox, outbox>>
  /\ UNCHANGED <<reply, command, sent, clipboard, pasteVars>>

\* Mutant: a wedged process is forgotten, not killed.
ReapedNever == NothingKilled

Reaped == Old

\* The second failure is returned as it is.  After a deadline the process stays
\* in the slot with a request it has not answered.
Unanswered == held \in alive /\ inbox[held] # <<>>

LastAttemptFails(c) ==
  /\ tries[c] = 2 /\ Fail(c)
  /\ abandoned' = IF Unanswered THEN abandoned \cup {held} ELSE abandoned
  /\ trouble' = IF Unanswered THEN Blamed(c) \cup {"abandoned"} ELSE Blamed(c)
  /\ UNCHANGED <<held, alive, acted, inbox>>

\* Mutant: the retry goes to the process that has failed.
FirstAttemptResends(c) ==
  /\ tries[c] = 1 /\ trouble' = Blamed(c) /\ Attempt(c)
  /\ UNCHANGED <<held, abandoned, alive, acted, inbox, outbox, mutex, answer>>

\* The first driver error kills and reaps the process and sends the request to
\* a new one.
FirstAttemptFails(c) ==
  /\ tries[c] = 1 /\ trouble' = Blamed(c)
  /\ \/ Spawns(Reaped) /\ Attempt(c) /\ UNCHANGED <<mutex, answer>>
     \/ SpawnFails(Reaped) /\ Fail(c)

AttemptFails(c) ==
  /\ FirstAttemptFails(c) \/ (LastAttemptFails(c) /\ UNCHANGED outbox)
  /\ UNCHANGED <<reply, command, sent, clipboard, pasteVars>>

Write(c) ==
  /\ stage[c] = "write"
  /\ \/ /\ held \in alive
        /\ inbox' = [inbox EXCEPT ![held] = Append(@, command[c])]
        /\ stage' = [stage EXCEPT ![c] = "read"]
        /\ UNCHANGED <<slotVars, alive, acted, reply, outbox, tries, command, answer, sent,
                       clipboard, pasteVars, trouble>>
     \/ held \notin alive /\ AttemptFails(c)

\* The line read is taken for the answer, whatever it answers.
Read(c) ==
  /\ stage[c] = "read" /\ outbox[held] # <<>>
  /\ Head(outbox[held]).val # "error"
  /\ Return(c, Head(outbox[held]))
  /\ outbox' = [outbox EXCEPT ![held] = Tail(@)]
  /\ UNCHANGED <<held, abandoned, alive, acted, inbox, reply, command, sent,
                 clipboard, pasteVars, trouble>>

\* An answer with ok = false is a driver error like any other.
ReadError(c) ==
  /\ stage[c] = "read" /\ outbox[held] # <<>>
  /\ Head(outbox[held]).val = "error"
  /\ \/ FirstAttemptFails(c)
     \/ LastAttemptFails(c) /\ outbox' = [outbox EXCEPT ![held] = Tail(@)]
  /\ UNCHANGED <<reply, command, sent, clipboard, pasteVars>>

\* Nothing to read: the process is gone (end of file), or the deadline passes.  A
\* late answer that is already in the reader's buffer does not wake poll(2).
NothingRead(c) == stage[c] = "read" /\ (outbox[held] = <<>> \/ held \in abandoned)

\* Mutant: an answer is waited for without a deadline.
GiveUpOnDeath(c) == NothingRead(c) /\ held \notin alive /\ AttemptFails(c)

GiveUpReading(c) == NothingRead(c) /\ AttemptFails(c)

\* Bridge::shutdown, as restart_bridge and the daemon's shutdown call it.
BridgeShutdown ==
  /\ mutex = Nobody /\ held # NoProcess
  /\ Emptied(Old) /\ alive' = alive \ Old /\ held' = NoProcess
  /\ UNCHANGED <<mutex, reply, callerVars, clipboard, pasteVars, trouble>>

-----------------------------------------------------------------------------
(* The callers: type_via_clipboard, and those that only ask. *)

ReaderCalls(c) ==
  /\ c # Paster /\ sent[c] < MaxRequests
  /\ Call(c, "read", "empty")
  /\ sent' = [sent EXCEPT ![c] = @ + 1]
  /\ UNCHANGED <<tries, slotVars, processVars, clipboard, pasteVars, trouble>>

PasteBegins ==
  /\ paste = "off" /\ Call(Paster, "get", "empty")
  /\ paste' = "get" /\ found' = clipboard
  /\ UNCHANGED <<tries, sent, slotVars, processVars, clipboard, saved, pasted, trouble>>

\* The keys that a caller looks for are those of its own command's answer.
Got(c, op) == answer[c].val # "failed" /\ answer[c].to.op = op

\* An error, or an answer without a payload, counts as an empty clipboard.
Before == IF Got(Paster, "get") THEN answer[Paster].val ELSE "empty"
Accepted == Got(Paster, "set") /\ answer[Paster].val = "true"

PasteSets ==
  /\ paste = "get" /\ stage[Paster] = "returned"
  /\ saved' = Before
  /\ Call(Paster, "set", "typed")
  /\ paste' = "set"
  /\ UNCHANGED <<tries, sent, slotVars, processVars, clipboard, found, pasted, trouble>>

PastePresses ==
  /\ paste = "set" /\ stage[Paster] = "returned"
  /\ IF Accepted THEN paste' = "sleep" /\ pasted' = clipboard
                 ELSE paste' = "failed" /\ UNCHANGED pasted
  /\ UNCHANGED <<slotVars, processVars, callerVars, clipboard, saved, found, trouble>>

\* The 60 ms sleep is the only point where the request can be dropped.
PasteDropped ==
  /\ paste = "sleep" /\ paste' = "dropped"
  /\ UNCHANGED <<slotVars, processVars, callerVars, clipboard, saved, found, pasted, trouble>>

PasteRestores ==
  /\ paste = "sleep" /\ saved # "empty"
  /\ Call(Paster, "set", saved)
  /\ paste' = "restore"
  /\ UNCHANGED <<tries, sent, slotVars, processVars, clipboard, saved, found, pasted, trouble>>

\* Mutant: the clipboard stays as the paste left it.
PasteEndsUnrestored ==
  /\ paste = "sleep"
  /\ paste' = "done"
  /\ UNCHANGED <<slotVars, processVars, callerVars, clipboard, saved, found, pasted, trouble>>

PasteEnds ==
  /\ \/ paste = "sleep" /\ saved = "empty"
     \/ paste = "restore" /\ stage[Paster] = "returned"
  /\ paste' = "done"
  /\ UNCHANGED <<slotVars, processVars, callerVars, clipboard, saved, found, pasted, trouble>>

-----------------------------------------------------------------------------
CallerStep(c) == Enter(c) \/ Write(c) \/ Read(c) \/ ReadError(c) \/ GiveUpReading(c)
PasteStep == PasteSets \/ PastePresses \/ PasteRestores \/ PasteEnds

BridgeNext ==
  \/ \E c \in Callers : CallerStep(c) \/ ReaderCalls(c)
  \/ PasteBegins \/ PasteStep \/ PasteDropped
  \/ \E p \in Processes : ProcessActs(p) \/ ProcessPrints(p) \/ ProcessDies(p)
  \/ BridgeShutdown

\* The daemon's threads go on, and the deadline of poll(2) comes; the helper
\* process owes nothing.
BridgeFairness ==
  /\ \A c \in Callers : WF_bridgeVars(CallerStep(c))
  /\ WF_bridgeVars(PasteStep)

BridgeSpec == BridgeInit /\ [][BridgeNext]_bridgeVars /\ BridgeFairness

-----------------------------------------------------------------------------
(* Properties *)

BridgeTypeOK ==
  /\ mutex \in Callers \cup {Nobody}
  /\ held \in Processes \cup {NoProcess}
  /\ alive \subseteq Processes /\ acted \subseteq alive /\ abandoned \subseteq Processes
  /\ inbox \in [Processes -> Seq(Commands)]
  /\ reply \in [Processes -> Values]
  /\ outbox \in [Processes -> Seq(Answers)]
  /\ stage \in [Callers -> Stages]
  /\ tries \in [Callers -> 0..2]
  /\ command \in [Callers -> Commands]
  /\ answer \in [Callers -> Answers]
  /\ sent \in [Callers -> 0..MaxRequests]
  /\ clipboard \in Contents
  /\ paste \in {"off", "get", "set", "sleep", "restore", "failed", "dropped", "done"}
  /\ saved \in Contents /\ found \in Contents /\ pasted \in Contents
  /\ trouble \subseteq Troubles

\* No helper process outlives its place in the slot: a wedged one is killed and
\* waited for before another starts (the comment in Bridge::request).
NoOrphanBridge == alive \subseteq {held}

\* Between requests the process in the slot owes an answer to nobody, unless a
\* request ran into its deadline twice; then it owes exactly one, and the
\* answers are late by one until the next driver error.
Owed(p) == Len(inbox[p]) + Len(outbox[p])
OneAnswerOwed ==
  \A p \in Processes :
    mutex = Nobody /\ p = held => Owed(p) <= (IF p \in abandoned THEN 1 ELSE 0)

\* The two together: the helper in the slot is the only one there is, and it
\* is in step with the requests that were made of it.
HelperInStep == NoOrphanBridge /\ OneAnswerOwed

\* Cmd-V is posted with the text on the clipboard, also when attempts failed,
\* unless an unanswered process has confused the answers; and a paste that ends
\* without trouble of its own leaves the clipboard as it found it, whatever
\* happens to the helper between its requests (paste_text).
PasteTypesAndRestores ==
  /\ paste \in {"sleep", "restore", "done", "dropped"} /\ "abandoned" \notin trouble
       => pasted = "typed"
  /\ paste = "done" /\ trouble = {} /\ found = "user" => clipboard = "user"

\* Every request returns: a wedged bridge cannot wedge the daemon
\* (docs/architecture.md).
BridgeAnswers == \A c \in Callers : stage[c] = "queued" ~> stage[c] = "returned"

=============================================================================
