----------------------------- MODULE SqlclSession -----------------------------
(***************************************************************************)
(* A SQLcl process driven over a terminal (shared/sqlcl_session.py and      *)
(* shared/sqlcl_request_session.py): the foreground that asks, the reader   *)
(* thread that pumps a console's output into a queue, and SQLcl itself.     *)
(*                                                                         *)
(* Two transports share the process half.  "session" connects once and      *)
(* keeps the connection, so a process that ends is a broken session;        *)
(* "request" starts a process for a project root, sends whole scripts, and   *)
(* reads the exit code of a process that a script ended.                     *)
(*                                                                         *)
(* A console is never forgotten here: its record stays when the session has  *)
(* given it up, because its process and its reader may still be there.       *)
(***************************************************************************)
EXTENDS Naturals, Sequences

CONSTANTS Roots,           \* project roots a request may be run for
          MaxRequests,     \* bound: requests asked of one session
          MaxConsoles,     \* bound: consoles opened, one of them left for a retried connect
          MaxFaults        \* bound: Ctrl-C and a live printer that raised, readers that failed

ASSUME SessionAssumption ==
    /\ Roots # {} /\ MaxRequests \in Nat /\ MaxConsoles \in Nat /\ MaxFaults \in Nat

VARIABLES transport,    \* which of the two classes drives SQLcl
          registrable,  \* a named connection whose file has the password
          consoles,     \* every console opened so far
          console,      \* the one `_console` names; 0 is None
          counter,      \* `_counter`, the number of the last marker
          fg,           \* where the foreground is, and what it has collected
          outcome,      \* what each request came to
          answer,       \* the lines its caller was handed
          faults
sessionVars == <<transport, registrable, consoles, console, counter, fg, outcome, answer, faults>>

Requests == 1..MaxRequests
NoRoot == CHOOSE r \in Roots : TRUE   \* a session's process resolves no path
Connect == 0               \* the body of the connect and the prelude exchange
Prompt == [kind |-> "prompt", of |-> 0]
Eof == [kind |-> "eof", of |-> 0]
Text(body) == [kind |-> "text", of |-> body]
Refused(body) == [kind |-> "refused", of |-> body]   \* `Not connected` in the output
MarkerLine(n) == [kind |-> "marker", of |-> n]
Lines == [kind : {"prompt", "eof", "text", "refused", "marker"}, of : Nat]
Opening == {"prompt", "connect", "prelude"}
Waiting == Opening \cup {"ask"}

Open == console # 0
Current == consoles[console]
Live(c) == consoles[c].proc \in {"booting", "serving"}
HasRefused == \E i \in DOMAIN fg.got : fg.got[i].kind = "refused"

Statement == [body : 0..MaxRequests, marker : Nat]
ConsoleType ==
    [proc : {"booting", "serving", "ended"}, zero : BOOLEAN, root : Roots,
     inbox : Seq(Statement), ran : BOOLEAN, printed : Seq(Lines),
     reader : {"reading", "done", "failed"}, queue : Seq(Lines), ready : BOOLEAN, cut : BOOLEAN]
ForegroundType == [at : {"idle"} \cup Waiting, req : 0..MaxRequests, root : Roots,
                   again : BOOLEAN, got : Seq(Lines)]
SessionTypeOK ==
    /\ transport \in {"session", "request"} /\ registrable \in BOOLEAN
    /\ console \in 0..Len(consoles) /\ counter \in Nat /\ faults \in Nat
    /\ consoles \in Seq(ConsoleType)
    /\ fg \in ForegroundType
    /\ outcome \in [Requests -> {"none", "answered", "failed", "interrupted"}]
    /\ answer \in [Requests -> Seq(Lines)]

SessionInit ==
    /\ transport \in {"session", "request"}
    /\ registrable \in BOOLEAN /\ (registrable => transport = "session")
    /\ consoles = <<>> /\ console = 0 /\ counter = 0 /\ faults = 0
    /\ fg = [at |-> "idle", req |-> 0, root |-> NoRoot, again |-> FALSE, got |-> <<>>]
    /\ outcome = [r \in Requests |-> "none"] /\ answer = [r \in Requests |-> <<>>]

-----------------------------------------------------------------------------
(* The pieces of the foreground's steps.                                     *)

(* A queue no previous reader holds.                                         *)
MutantOldQueue == IF consoles = <<>> THEN <<>> ELSE consoles[Len(consoles)].queue
FreshQueue == <<>>

(* DrivenSqlcl._spawn, after the queue was replaced.                          *)
NewConsole(root) ==
    [proc |-> "booting", zero |-> FALSE, root |-> root, inbox |-> <<>>, ran |-> FALSE,
     printed |-> <<>>, reader |-> "reading", queue |-> FreshQueue, ready |-> FALSE, cut |-> FALSE]

(* close and _abort end the process and forget the console; the join of its
   reader is bounded, so the reader may outlive both.                        *)
Emptied(record) == [record EXCEPT !.proc = "ended", !.inbox = <<>>, !.ran = FALSE, !.printed = <<>>]
MutantKept(cs) == cs
Reaped(cs) == IF Open THEN [cs EXCEPT ![console] = Emptied(@)] ELSE cs

(* A fresh number for every marker, so no line of an earlier exchange is it.  *)
MutantMarker == 1
Marker == counter + 1
Sent(cs, c, body) == [cs EXCEPT ![c].inbox = Append(@, [body |-> body, marker |-> Marker])]

(* _collect up to its first read, on the console that is open.               *)
Send(cs, body, at) ==
    /\ consoles' = Sent(cs, console, body)
    /\ counter' = Marker
    /\ fg' = [fg EXCEPT !.at = at, !.got = <<>>]
    /\ UNCHANGED <<console, outcome, answer>>

Finish(how, lines) ==
    /\ fg' = [fg EXCEPT !.at = "idle", !.got = <<>>]
    /\ outcome' = [outcome EXCEPT ![fg.req] = how]
    /\ answer' = [answer EXCEPT ![fg.req] = lines]

GiveUp(how) ==
    /\ consoles' = Reaped(consoles)
    /\ console' = 0
    /\ Finish(how, <<>>)
    /\ UNCHANGED counter

(* The queue is new, then the console; or no console can be opened.          *)
OpenConsole(cs, request) ==
    /\ consoles' = Append(cs, NewConsole(request.root))
    /\ console' = Len(consoles) + 1
    /\ fg' = [request EXCEPT !.at = "prompt", !.got = <<>>]
    /\ UNCHANGED <<counter, outcome, answer>>

(* What a failed connect leads to: one registration from the file, or none.  *)
RetryConnect ==
    IF registrable /\ ~fg.again
    THEN OpenConsole(Reaped(consoles), [fg EXCEPT !.again = TRUE])
    ELSE GiveUp("failed")

(* The console a request may use: any for a session, which resolves no path;
   for a script only one whose process was started in the script's root.     *)
MutantServes(root) == Open
Serves(root) == Open /\ (transport = "request" => Current.root = root)

SameOptions == UNCHANGED <<transport, registrable>>
NoMishap == UNCHANGED faults

-----------------------------------------------------------------------------
(* The foreground: run, start and _ensure, _open, _exchange.                 *)
Next1(root) == [fg EXCEPT !.req = @ + 1, !.root = root, !.again = FALSE]
Asking(root) ==
    /\ fg.at = "idle" /\ fg.req < MaxRequests
    /\ transport = "session" => root = NoRoot

Reuse(root) ==
    /\ Asking(root) /\ Serves(root)
    /\ consoles' = Sent(consoles, console, fg.req + 1)
    /\ counter' = Marker
    /\ fg' = [Next1(root) EXCEPT !.at = "ask", !.got = <<>>]
    /\ UNCHANGED <<console, outcome, answer>> /\ SameOptions /\ NoMishap

(* A write to a terminal nobody holds any more may raise; nothing catches it,
   and the console stays the session's.                                      *)
WriteFails(root) ==
    /\ Asking(root) /\ Serves(root) /\ ~Live(console)
    /\ counter' = Marker
    /\ fg' = [Next1(root) EXCEPT !.at = "idle"]
    /\ outcome' = [outcome EXCEPT ![fg.req + 1] = "failed"]
    /\ UNCHANGED <<consoles, console, answer>> /\ SameOptions /\ NoMishap

Start(root) ==
    /\ Asking(root) /\ ~Serves(root)
    /\ Len(consoles) + 1 < MaxConsoles
    /\ OpenConsole(Reaped(consoles), Next1(root))
    /\ SameOptions /\ NoMishap

StartFails(root) ==
    /\ Asking(root) /\ ~Serves(root)
    /\ consoles' = Reaped(consoles) /\ console' = 0
    /\ fg' = [Next1(root) EXCEPT !.at = "idle"]
    /\ outcome' = [outcome EXCEPT ![fg.req + 1] = "failed"]
    /\ UNCHANGED <<counter, answer>> /\ SameOptions /\ NoMishap

Line == Head(Current.queue)
Taken == [consoles EXCEPT ![console].queue = Tail(@)]
Reads(at) == fg.at = at /\ Current.queue # <<>> /\ SameOptions /\ NoMishap

(* _await_prompt: skip to the first prompt, then the first exchange.         *)
AwaitPrompt ==
    /\ Reads("prompt")
    /\ \/ /\ Line = Eof
          /\ GiveUp("failed")
       \/ /\ Line = Prompt /\ transport = "session"
          /\ Send(Taken, Connect, "connect")
       \/ /\ Line = Prompt /\ transport = "request"
          /\ Send([Taken EXCEPT ![console].ready = TRUE], fg.req, "ask")
       \/ /\ Line \notin {Prompt, Eof}
          /\ consoles' = Taken
          /\ UNCHANGED <<console, counter, fg, outcome, answer>>

(* _collect reads a line that is not the marker it waits for.                *)
Collect ==
    /\ fg.at \in Waiting \ {"prompt"} /\ Reads(fg.at)
    /\ Line # Eof /\ Line # MarkerLine(counter)
    /\ consoles' = Taken
    /\ fg' = IF Line.kind \in {"text", "refused"} THEN [fg EXCEPT !.got = Append(@, Line)] ELSE fg
    /\ UNCHANGED <<console, counter, outcome, answer>>

Connected ==
    /\ Reads("connect") /\ Line = MarkerLine(counter)
    /\ IF HasRefused THEN RetryConnect ELSE Send(Taken, Connect, "prelude")

Prepared ==
    /\ Reads("prelude") /\ Line = MarkerLine(counter)
    /\ Send([Taken EXCEPT ![console].ready = TRUE], fg.req, "ask")

Answered ==
    /\ Reads("ask") /\ Line = MarkerLine(counter)
    /\ consoles' = Taken
    /\ IF transport = "request" /\ HasRefused THEN Finish("failed", fg.got) ELSE Finish("answered", fg.got)
    /\ UNCHANGED <<console, counter>>

(* The queue says the process is gone, and each transport says what that is:
   at the connect a failed connect, in a session a broken session, and for a
   script whatever the exit code says.                                       *)
Ended ==
    /\ fg.at \in Waiting \ {"prompt"} /\ Reads(fg.at) /\ Line = Eof
    /\ \/ fg.at = "connect" /\ RetryConnect
       \/ fg.at = "prelude" /\ GiveUp("failed")
       \/ fg.at = "ask" /\ transport = "session" /\ GiveUp("failed")
       \/ /\ fg.at = "ask" /\ transport = "request"
          /\ consoles' = Reaped(consoles) /\ console' = 0
          /\ IF Current.proc = "ended" /\ Current.zero /\ ~HasRefused
             THEN Finish("answered", fg.got) ELSE Finish("failed", fg.got)
          /\ UNCHANGED counter

(* The deadline passed: the process is ended, whatever it was doing.         *)
TimedOut == fg.at \in Waiting /\ GiveUp("failed") /\ SameOptions /\ NoMishap

(* Ctrl-C while a console is opened gives it up; while a statement is read it
   leaves the console, and the statement in it, as they are: so does a printer
   of the lines (on_line) that raises.                                       *)
Interrupt ==
    /\ fg.at \in Waiting /\ faults < MaxFaults
    /\ faults' = faults + 1
    /\ \/ fg.at \in Opening /\ consoles' = Reaped(consoles) /\ console' = 0
       \/ fg.at = "ask" /\ consoles' = [consoles EXCEPT ![console].cut = TRUE] /\ UNCHANGED console
    /\ Finish("interrupted", <<>>)
    /\ UNCHANGED counter /\ SameOptions

Close ==
    /\ fg.at = "idle" /\ Open
    /\ consoles' = Reaped(consoles) /\ console' = 0
    /\ UNCHANGED <<counter, fg, outcome, answer>> /\ SameOptions /\ NoMishap

Foreground ==
    \/ \E root \in Roots : Reuse(root) \/ WriteFails(root) \/ Start(root) \/ StartFails(root)
    \/ TimedOut \/ Interrupt \/ Close
Reading == AwaitPrompt \/ Collect \/ Connected \/ Prepared \/ Answered \/ Ended

-----------------------------------------------------------------------------
(* SQLcl, which is not code of the repository.                               *)
Becomes(c, record) ==
    /\ consoles' = [consoles EXCEPT ![c] = record]
    /\ UNCHANGED <<console, counter, fg, outcome, answer>> /\ SameOptions /\ NoMishap
Printing(c, line) == Append(consoles[c].printed, line)

Boot(c) ==
    /\ consoles[c].proc = "booting"
    /\ Becomes(c, [consoles[c] EXCEPT !.proc = "serving", !.printed = Printing(c, Prompt)])

Execute(c) ==
    /\ consoles[c].proc = "serving" /\ consoles[c].inbox # <<>> /\ ~consoles[c].ran
    /\ LET body == Head(consoles[c].inbox).body
       IN \E line \in {Text(body)} \cup
                      (IF body = Connect \/ transport = "request" THEN {Refused(body)} ELSE {}) :
             Becomes(c, [consoles[c] EXCEPT !.ran = TRUE, !.printed = Printing(c, line)])

PrintMarker(c) ==
    /\ consoles[c].proc = "serving" /\ consoles[c].ran
    /\ Becomes(c, [consoles[c] EXCEPT !.ran = FALSE, !.inbox = Tail(@),
                        !.printed = Printing(c, MarkerLine(Head(consoles[c].inbox).marker))])

(* The body ends the process (exit, WHENEVER SQLERROR EXIT), or it dies.     *)
Exit(c) ==
    /\ consoles[c].proc = "serving" /\ consoles[c].ran
    /\ \E zero \in BOOLEAN : Becomes(c, [consoles[c] EXCEPT !.proc = "ended", !.zero = zero])

Die(c) == Live(c) /\ Becomes(c, [consoles[c] EXCEPT !.proc = "ended"])
Sqlcl(c) == Boot(c) \/ Execute(c) \/ PrintMarker(c) \/ Exit(c) \/ Die(c)

-----------------------------------------------------------------------------
(* The reader thread, DrivenSqlcl._pump.  Both the console and the queue are
   bound once, so it ends by putting the end marker where it began.          *)
MutantBound(c) == Len(consoles)
Bound(c) == c
Noticed(c, how) == [[consoles EXCEPT ![c].reader = how] EXCEPT ![Bound(c)].queue = Append(@, Eof)]
MutantSilent(c, how) == [consoles EXCEPT ![c].reader = how]
Leaves(c, how) == Noticed(c, how)

Pump(c) ==
    /\ consoles[c].reader = "reading" /\ consoles[c].printed # <<>>
    /\ Becomes(c, [consoles[c] EXCEPT !.queue = @ \o consoles[c].printed, !.printed = <<>>])

PumpEnd(c) ==
    /\ consoles[c].reader = "reading" /\ consoles[c].printed = <<>> /\ ~Live(c)
    /\ consoles' = Leaves(c, "done")
    /\ UNCHANGED <<console, counter, fg, outcome, answer>> /\ SameOptions /\ NoMishap

PumpFails(c) ==
    /\ consoles[c].reader = "reading"
    /\ faults < MaxFaults /\ faults' = faults + 1
    /\ consoles' = Leaves(c, "failed")
    /\ UNCHANGED <<console, counter, fg, outcome, answer>> /\ SameOptions

Reader(c) == Pump(c) \/ PumpEnd(c)

-----------------------------------------------------------------------------
SessionNext ==
    \/ Foreground \/ Reading
    \/ \E c \in DOMAIN consoles : Sqlcl(c) \/ Reader(c) \/ PumpFails(c)

(* The reader is a thread of its own and the foreground reads its queue in a
   loop.  Nothing is assumed of SQLcl, and no deadline is relied on.         *)
SessionFairness ==
    /\ WF_sessionVars(Reading)
    /\ \A c \in 1..MaxConsoles : WF_sessionVars(c \in DOMAIN consoles /\ Reader(c))
SessionSpec == SessionInit /\ [][SessionNext]_sessionVars /\ SessionFairness

-----------------------------------------------------------------------------
(* The lines handed to a caller are its own statement's and no other's, also
   when consoles were given up, reused and timed out before: unless a
   statement was cut off before, or a reader failed.                         *)
AnswerIsOwn ==
    \A r \in Requests : outcome[r] = "answered" =>
        \/ answer[r] = <<Text(r)>>
        \/ \E c \in DOMAIN consoles : consoles[c].cut \/ consoles[c].reader = "failed"

(* The answer of a request ends with the request's own output whatever was
   left in the console by a statement cut off before it: the marker waited for
   is the request's, not one that is still to come from another.             *)
MarkerIsOwn ==
    \A r \in Requests : outcome[r] = "answered" =>
        \/ answer[r] # <<>> /\ answer[r][Len(answer[r])] = Text(r)
        \/ \E c \in DOMAIN consoles : consoles[c].reader = "failed" \/ consoles[c].zero

(* Every live process is the one the session still names: no failed start,
   retry, timeout, change of root or interrupt leaves one behind.            *)
NoOrphan == \A c \in DOMAIN consoles : Live(c) => c = console

(* A caller's statement only ever goes to a process that got through its whole
   opening, and a script to one working in the script's own root.            *)
AsksTheRightProcess ==
    fg.at = "ask" => Current.ready /\ (transport = "request" => Current.root = fg.root)

(* A console that is told to have ended has ended, or lost its reader: no
   reader of an earlier console tells on a later one.                        *)
EofIsReal == \A c \in DOMAIN consoles : \A i \in DOMAIN consoles[c].queue :
    consoles[c].queue[i] = Eof => ~Live(c) \/ consoles[c].reader = "failed"

(* What SqlclSession.run says of itself, "return everything SQLcl printed for
   it": an answer holds nothing that was printed for another statement.       *)
NothingElsesAnswer ==
    \A r \in Requests : transport = "session" /\ outcome[r] = "answered" =>
        \A i \in DOMAIN answer[r] : answer[r][i].of = r

(* A foreground that waits on a process that ended stops waiting without
   running into its deadline: its console has ended for good, so it is another
   console, or none, that it turns to.                                        *)
WaitsInVain == fg.at \in Waiting /\ ~Live(console)
EndIsNoticed == WaitsInVain ~> ~WaitsInVain
=============================================================================
