-------------------------- MODULE SqlclSessionProofs --------------------------
(***************************************************************************)
(* What a session keeps, for any number of requests, consoles and faults.    *)
(*                                                                         *)
(* Of every console: what runs has something to run (RunningInv) and a        *)
(* console that ended says nothing more (EndInv), from which NoOrphan is      *)
(* inductive and EofIsReal follows.                                          *)
(* Of the console the session names: where the markers are among the lines    *)
(* still to be read (MarkerOrder), and what these lines are when nothing was   *)
(* cut off before (OwnOrder); MarkerIsOwn and AnswerIsOwn follow.             *)
(*                                                                         *)
(* The steps are first brought into a few shapes (EveryStep: what happens to   *)
(* the session; EveryConsole: what happens to one console), and every part of  *)
(* the invariant is proved over the shapes.                                   *)
(***************************************************************************)
EXTENDS SqlclSession, SequenceTheorems, TLAPS

Idle == fg.at = "idle"
Exchanging == fg.at \in Waiting \ {"prompt"}

(* The statement an exchange is for, and what SQLcl may print for it.        *)
Asked == IF fg.at = "ask" THEN fg.req ELSE Connect
OutputOf(body) ==
    {Text(body)} \cup (IF body = Connect \/ transport = "request" THEN {Refused(body)} ELSE {})

(* The lines a console printed that the foreground has not read, whether the
   reader has handed them over or not.                                        *)
ToRead(c) == consoles[c].queue \o consoles[c].printed

(* The end marker is the reader's last word, and a reader that is done saw its
   process end.                                                              *)
EndInv ==
    \A c \in DOMAIN consoles :
        /\ \A i \in DOMAIN consoles[c].printed : consoles[c].printed[i] # Eof
        /\ \A i \in DOMAIN consoles[c].queue : consoles[c].queue[i] = Eof => consoles[c].reader # "reading"
        /\ consoles[c].reader = "done" => ~Live(c)

(* A statement that ran is still in the inbox, and an exit code is only there
   when the process ended.                                                    *)
RunningInv ==
    \A c \in DOMAIN consoles :
        /\ consoles[c].ran => consoles[c].inbox # <<>>
        /\ consoles[c].proc = "booting" => ~consoles[c].ran
        /\ consoles[c].zero => consoles[c].proc = "ended"

(* Where the foreground is, and which console it is there with.               *)
StepInv ==
    /\ ~Idle => fg.req # 0 /\ Open
    /\ ~Exchanging => fg.got = <<>>
    /\ \A i \in DOMAIN fg.got : fg.got[i].kind \in {"text", "refused"}
    /\ transport = "request" => fg.at \notin {"connect", "prelude"}
    /\ transport = "request" /\ ~Idle => Current.root = fg.root
    /\ Open /\ fg.at \in {"idle", "ask"} => Current.ready

(* A lost reader, or a script that ended its process: lines may be missing.   *)
Garbled == \E c \in DOMAIN consoles : consoles[c].reader = "failed" \/ consoles[c].zero

(* No marker is younger than the last one that was asked for.                 *)
MarkersInv ==
    Open =>
        /\ \A i \in DOMAIN Current.inbox : Current.inbox[i].marker <= counter
        /\ \A i \in DOMAIN ToRead(console) :
              ToRead(console)[i].kind = "marker" => ToRead(console)[i].of <= counter

(* A console that is being opened was sent nothing yet.                       *)
PromptInv ==
    fg.at = "prompt" =>
        /\ Current.inbox = <<>>
        /\ Current.ran = FALSE

(* The marker that is waited for comes right behind the output of its own
   statement: on the way, when it is next to be printed, and in the inbox.     *)
Before(i) == IF i = 1 THEN fg.got # <<>> /\ fg.got[Len(fg.got)] \in OutputOf(Asked)
             ELSE ToRead(console)[i - 1] \in OutputOf(Asked)
OutputIsLast == Before(Len(ToRead(console)) + 1)
MarkerInv ==
    Exchanging =>
        /\ \A i \in DOMAIN Current.inbox : Current.inbox[i].marker = counter => Current.inbox[i].body = Asked
        /\ Current.ran /\ Live(console) /\ Head(Current.inbox).marker = counter => OutputIsLast
        /\ \A i \in DOMAIN ToRead(console) : ToRead(console)[i] = MarkerLine(counter) => Before(i)

(* A statement that was left to run, or a lost reader.                        *)
Spoiled == \E c \in DOMAIN consoles : consoles[c].cut \/ consoles[c].reader = "failed"

(* All that an exchange has had of its console and will still have of what is
   printed, without the end of the process.                                   *)
Reply == fg.got \o ToRead(console)
Printed == IF Current.reader = "done" THEN Len(Reply) - 1 ELSE Len(Reply)
Pending == Len(Current.inbox) = 1 /\ Current.inbox[1] = [body |-> Asked, marker |-> counter]

(* What is printed goes with where the foreground is: nothing between the
   exchanges, the prompt while a console is opened, and in an exchange nothing,
   the output of its statement, or this and the marker.                       *)
OwnInv ==
    Open =>
        /\ Printed >= 0
        /\ Current.reader = "done" => Reply[Printed + 1] = Eof
        /\ fg.at # "prompt" => Current.proc # "booting"
        /\ ~Exchanging => Current.inbox = <<>> /\ ~Current.zero
        /\ Idle => Printed = 0
        /\ fg.at = "prompt" => /\ Printed \in {0, 1}
                               /\ Printed = 1 => Reply[1] = Prompt
                               /\ Current.proc = "booting" => Printed = 0
        /\ Exchanging => /\ \/ Printed = 0 /\ Pending /\ ~Current.ran
                            \/ Printed = 1 /\ Pending /\ Current.ran
                            \/ Printed = 2 /\ Current.inbox = <<>> /\ Reply[2] = MarkerLine(counter)
                         /\ Printed > 0 => Reply[1] \in OutputOf(Asked)
                         /\ Current.zero => Printed = 1

-----------------------------------------------------------------------------
(* Lines and consoles.                                                       *)

(* A line taken from the queue is the first of all that is still to be read. *)
LEMMA FirstOfAll ==
    ASSUME NEW q \in Seq(Lines), NEW p \in Seq(Lines), q # <<>>
    PROVE  /\ q \o p # <<>> /\ Head(q \o p) = Head(q) /\ Tail(q) \o p = Tail(q \o p)
           /\ Head(q) = (q \o p)[1]
  <1>1. /\ Tail(q) \in Seq(Lines) /\ Len(Tail(q)) = Len(q) - 1 /\ Len(q) \in Nat \ {0}
        /\ \A i \in 1..Len(Tail(q)) : Tail(q)[i] = q[i + 1]
    BY HeadTailProperties, EmptySeq
  <1>2. /\ q \o p \in Seq(Lines) /\ Len(q \o p) = Len(q) + Len(p) /\ Len(p) \in Nat
        /\ \A i \in 1..Len(q) + Len(p) : (q \o p)[i] = IF i <= Len(q) THEN q[i] ELSE p[i - Len(q)]
    BY ConcatProperties, LenProperties
  <1>3. q \o p # <<>>
    BY <1>1, <1>2, EmptySeq
  <1>4. /\ Tail(q \o p) \in Seq(Lines) /\ Len(Tail(q \o p)) = Len(q) + Len(p) - 1
        /\ \A i \in 1..Len(Tail(q \o p)) : Tail(q \o p)[i] = (q \o p)[i + 1]
    BY <1>2, <1>3, HeadTailProperties
  <1>5. /\ Tail(q) \o p \in Seq(Lines) /\ Len(Tail(q) \o p) = Len(q) - 1 + Len(p)
        /\ \A i \in 1..Len(q) - 1 + Len(p) :
              (Tail(q) \o p)[i] = IF i <= Len(q) - 1 THEN Tail(q)[i] ELSE p[i - (Len(q) - 1)]
    BY <1>1, ConcatProperties
  <1>6. Tail(q) \o p = Tail(q \o p)
    <2>1. ASSUME NEW i \in 1..Len(Tail(q) \o p)
          PROVE  (Tail(q) \o p)[i] = Tail(q \o p)[i]
      BY <1>1, <1>2, <1>4, <1>5
    <2> QED BY <2>1, <1>1, <1>2, <1>4, <1>5, SeqEqual
  <1>7. /\ Head(q) = q[1] /\ Head(q \o p) = (q \o p)[1] /\ (q \o p)[1] = q[1]
    BY <1>1, <1>2
  <1> QED BY <1>3, <1>6, <1>7

(* A line that is printed is the last of all that is still to be read.       *)
LEMMA LastOfAll ==
    ASSUME NEW q \in Seq(Lines), NEW p \in Seq(Lines), NEW l \in Lines
    PROVE  q \o Append(p, l) = Append(q \o p, l)
  <1>1. <<l>> \in Seq(Lines)
    OBVIOUS
  <1>2. /\ Append(p, l) = p \o <<l>> /\ Append(q \o p, l) = (q \o p) \o <<l>>
    BY AppendIsConcat, ConcatProperties
  <1> QED BY <1>1, <1>2, ConcatAssociative

(* What is collected line by line was there before it was collected.         *)
LEMMA CollectedOfAll ==
    ASSUME NEW g \in Seq(Lines), NEW s \in Seq(Lines), s # <<>>
    PROVE  Append(g, Head(s)) \o Tail(s) = g \o s
  <1>1. /\ Head(s) \in Lines /\ Tail(s) \in Seq(Lines) /\ <<Head(s)>> \in Seq(Lines)
        /\ Append(g, Head(s)) = g \o <<Head(s)>>
    BY HeadTailProperties, AppendIsConcat
  <1>2. <<Head(s)>> \o Tail(s) = s
    <2>1. /\ Len(Tail(s)) = Len(s) - 1 /\ Len(s) \in Nat \ {0}
          /\ \A i \in 1..Len(Tail(s)) : Tail(s)[i] = s[i + 1]
      BY HeadTailProperties, EmptySeq
    <2>2. /\ <<Head(s)>> \o Tail(s) \in Seq(Lines) /\ Len(<<Head(s)>> \o Tail(s)) = Len(s)
          /\ \A i \in 1..Len(s) : (<<Head(s)>> \o Tail(s))[i] = IF i <= 1 THEN Head(s) ELSE Tail(s)[i - 1]
      <3>1. /\ Len(<<Head(s)>>) = 1 /\ <<Head(s)>>[1] = Head(s)
        OBVIOUS
      <3>2. /\ <<Head(s)>> \o Tail(s) \in Seq(Lines)
            /\ Len(<<Head(s)>> \o Tail(s)) = Len(<<Head(s)>>) + Len(Tail(s))
            /\ \A i \in 1..Len(<<Head(s)>>) + Len(Tail(s)) : (<<Head(s)>> \o Tail(s))[i] =
                   IF i <= Len(<<Head(s)>>) THEN <<Head(s)>>[i] ELSE Tail(s)[i - Len(<<Head(s)>>)]
        BY <1>1, ConcatProperties
      <3> QED BY <3>1, <3>2, <2>1
    <2>3. ASSUME NEW i \in 1..Len(<<Head(s)>> \o Tail(s))
          PROVE  (<<Head(s)>> \o Tail(s))[i] = s[i]
      BY <2>1, <2>2
    <2> QED BY <2>1, <2>2, <2>3, SeqEqual
  <1> QED BY <1>1, <1>2, ConcatAssociative

(* What one console becomes when another record is put in its place.         *)
LEMMA OneConsole ==
    ASSUME NEW cs \in Seq(ConsoleType), NEW c \in DOMAIN cs, NEW record \in ConsoleType
    PROVE  /\ [cs EXCEPT ![c] = record] \in Seq(ConsoleType)
           /\ DOMAIN [cs EXCEPT ![c] = record] = DOMAIN cs
           /\ Len([cs EXCEPT ![c] = record]) = Len(cs)
           /\ [cs EXCEPT ![c] = record][c] = record
           /\ \A d \in DOMAIN cs \ {c} : [cs EXCEPT ![c] = record][d] = cs[d]
  <1>1. DOMAIN cs = 1..Len(cs)
    BY LenProperties
  <1> QED BY <1>1, ExceptSeq

Given(record, body) ==
    [record EXCEPT !.inbox = Append(record.inbox, [body |-> body, marker |-> counter + 1])]
(* A statement sent to a console is the last in its inbox.                   *)
LEMMA SentConsole ==
    ASSUME NEW cs \in Seq(ConsoleType), NEW c \in DOMAIN cs, NEW body \in 0..MaxRequests,
           counter \in Nat
    PROVE  /\ Sent(cs, c, body) \in Seq(ConsoleType)
           /\ DOMAIN Sent(cs, c, body) = DOMAIN cs
           /\ Len(Sent(cs, c, body)) = Len(cs)
           /\ Sent(cs, c, body)[c] = Given(cs[c], body)
           /\ \A d \in DOMAIN cs \ {c} : Sent(cs, c, body)[d] = cs[d]
  <1> DEFINE record == Given(cs[c], body)
  <1>1. cs[c] \in ConsoleType
    BY LenProperties
  <1>2. cs[c].inbox \in Seq(Statement) /\ [body |-> body, marker |-> counter + 1] \in Statement
    BY <1>1 DEF ConsoleType, Statement
  <1>3. Append(cs[c].inbox, [body |-> body, marker |-> counter + 1]) \in Seq(Statement)
    BY <1>2, AppendProperties
  <1>4. record \in ConsoleType
    BY <1>1, <1>3 DEF ConsoleType, Given
  <1>5. Sent(cs, c, body) = [cs EXCEPT ![c] = record]
    BY DEF Sent, Marker, Given
  <1> QED BY <1>4, <1>5, OneConsole

(* A line taken is gone from the queue, and nothing else is.                 *)
LEMMA TakenConsole ==
    ASSUME SessionTypeOK, Open, Current.queue # <<>>
    PROVE  /\ Taken \in Seq(ConsoleType)
           /\ DOMAIN Taken = DOMAIN consoles /\ Len(Taken) = Len(consoles)
           /\ Taken[console] = [Current EXCEPT !.queue = Tail(Current.queue)]
           /\ \A d \in DOMAIN consoles \ {console} : Taken[d] = consoles[d]
  <1>1. /\ console \in DOMAIN consoles /\ consoles \in Seq(ConsoleType)
    BY LenProperties DEF SessionTypeOK, Open
  <1>2. Current \in ConsoleType
    BY <1>1, LenProperties DEF Current
  <1>3. Tail(Current.queue) \in Seq(Lines)
    BY <1>2, HeadTailProperties DEF ConsoleType
  <1>4. [Current EXCEPT !.queue = Tail(Current.queue)] \in ConsoleType
    BY <1>2, <1>3 DEF ConsoleType
  <1>5. Taken = [consoles EXCEPT ![console] = [Current EXCEPT !.queue = Tail(Current.queue)]]
    BY DEF Taken, Current
  <1> QED BY <1>1, <1>4, <1>5, OneConsole

(* A console that is reaped has nothing left to do and nothing to say.        *)
LEMMA ReapedConsoles ==
    ASSUME SessionTypeOK
    PROVE  /\ Reaped(consoles) \in Seq(ConsoleType)
           /\ DOMAIN Reaped(consoles) = DOMAIN consoles /\ Len(Reaped(consoles)) = Len(consoles)
           /\ Open => Reaped(consoles)[console] = Emptied(Current)
           /\ \A d \in DOMAIN consoles : d # console => Reaped(consoles)[d] = consoles[d]
  <1>0. consoles \in Seq(ConsoleType) /\ DOMAIN consoles = 1..Len(consoles)
    BY LenProperties DEF SessionTypeOK
  <1>1. CASE Open
    <2>1. console \in DOMAIN consoles
      BY <1>0, <1>1 DEF SessionTypeOK, Open
    <2>2. Current \in ConsoleType
      BY <1>0, <2>1, LenProperties DEF Current
    <2>3. Emptied(Current) \in ConsoleType
      <3>1. <<>> \in Seq(Statement) /\ <<>> \in Seq(Lines)
        BY EmptySeq
      <3> QED BY <2>2, <3>1 DEF ConsoleType, Emptied
    <2>4. Reaped(consoles) = [consoles EXCEPT ![console] = Emptied(Current)]
      BY <1>1 DEF Reaped, Current
    <2> QED BY <1>0, <2>1, <2>3, <2>4, OneConsole
  <1>2. CASE ~Open
    BY <1>0, <1>2 DEF Reaped
  <1> QED BY <1>1, <1>2

(* A console that is opened is the last, as new as its record says.          *)
LEMMA OpenedConsole ==
    ASSUME NEW cs \in Seq(ConsoleType), NEW root \in Roots
    PROVE  /\ Append(cs, NewConsole(root)) \in Seq(ConsoleType)
           /\ Len(Append(cs, NewConsole(root))) = Len(cs) + 1
           /\ DOMAIN Append(cs, NewConsole(root)) = DOMAIN cs \cup {Len(cs) + 1}
           /\ Append(cs, NewConsole(root))[Len(cs) + 1] = NewConsole(root)
           /\ \A d \in DOMAIN cs : Append(cs, NewConsole(root))[d] = cs[d]
  <1>1. NewConsole(root) \in ConsoleType
    <2>1. <<>> \in Seq(Statement) /\ <<>> \in Seq(Lines)
      BY EmptySeq
    <2> QED BY <2>1 DEF NewConsole, ConsoleType, FreshQueue
  <1>2. DOMAIN cs = 1..Len(cs) /\ Len(cs) \in Nat
    BY LenProperties
  <1>3. /\ Append(cs, NewConsole(root)) \in Seq(ConsoleType)
        /\ Len(Append(cs, NewConsole(root))) = Len(cs) + 1
        /\ \A i \in 1..Len(cs) : Append(cs, NewConsole(root))[i] = cs[i]
        /\ Append(cs, NewConsole(root))[Len(cs) + 1] = NewConsole(root)
    BY <1>1, AppendProperties
  <1>4. DOMAIN Append(cs, NewConsole(root)) = 1..(Len(cs) + 1)
    BY <1>3, LenProperties
  <1> QED BY <1>2, <1>3, <1>4

-----------------------------------------------------------------------------
(* What a step does to the consoles, to where the foreground is, and to what  *)
(* was answered.                                                             *)
SameBut(c) ==
    /\ DOMAIN consoles' = DOMAIN consoles
    /\ \A d \in DOMAIN consoles \ {c} : consoles'[d] = consoles[d]
NothingAnswered ==
    \A r \in Requests : outcome'[r] = "answered" => outcome[r] = "answered" /\ answer'[r] = answer[r]

GaveUp ==
    /\ console' = 0 /\ fg'.at = "idle" /\ SameBut(console)
    /\ Open => consoles'[console] = Emptied(Current)

Opened ==
    /\ console' = Len(consoles) + 1 /\ fg'.at = "prompt" /\ fg'.got = <<>>
    /\ DOMAIN consoles' = DOMAIN consoles \cup {console'}
    /\ \E root \in Roots : consoles'[console'] = NewConsole(root)
    /\ \A d \in DOMAIN consoles \ {console} : consoles'[d] = consoles[d]
    /\ Open => consoles'[console] = Emptied(Current)

Renewed(record, queue, ready) == [[record EXCEPT !.queue = queue] EXCEPT !.ready = ready]
Posted(queue, ready) ==
    /\ Open /\ console' = console /\ SameBut(console)
    /\ consoles'[console] = Given(Renewed(Current, queue, ready), Asked')
    /\ counter' = counter + 1 /\ fg'.at \in Waiting \ {"prompt"} /\ fg'.got = <<>>

TookLine ==
    /\ Open /\ console' = console /\ SameBut(console) /\ Current.queue # <<>>
    /\ consoles'[console] = [Current EXCEPT !.queue = Tail(Current.queue)]
    /\ counter' = counter /\ transport' = transport

SameProcess == UNCHANGED <<transport, console, counter, fg, outcome, answer>>

(* A step that gives up: the console is reaped, and nothing is answered.      *)
LEMMA GiveUpGivesUp ==
    ASSUME SessionTypeOK, NEW how \in {"failed", "interrupted"}, GiveUp(how),
           SameOptions, faults' \in Nat
    PROVE  SessionTypeOK' /\ StepInv' /\ GaveUp /\ NothingAnswered
  <1>1. /\ Reaped(consoles) \in Seq(ConsoleType)
        /\ DOMAIN Reaped(consoles) = DOMAIN consoles /\ Len(Reaped(consoles)) = Len(consoles)
        /\ Open => Reaped(consoles)[console] = Emptied(Current)
        /\ \A d \in DOMAIN consoles : d # console => Reaped(consoles)[d] = consoles[d]
    BY ReapedConsoles
  <1>2. Len(consoles) \in Nat
    BY LenProperties DEF SessionTypeOK
  <1>3. <<>> \in Seq(Lines)
    BY EmptySeq
  <1>4. /\ fg' = [fg EXCEPT !.at = "idle", !.got = <<>>] /\ consoles' = Reaped(consoles)
        /\ console' = 0 /\ counter' = counter
        /\ outcome' = [outcome EXCEPT ![fg.req] = how] /\ answer' = [answer EXCEPT ![fg.req] = <<>>]
    BY DEF GiveUp, Finish
  <1>5. fg' \in ForegroundType /\ fg'.at = "idle" /\ fg'.got = <<>>
    BY <1>3, <1>4 DEF SessionTypeOK, ForegroundType
  <1>6. SessionTypeOK'
    <2>1. outcome' \in [Requests -> {"none", "answered", "failed", "interrupted"}]
      BY <1>4 DEF SessionTypeOK
    <2>2. answer' \in [Requests -> Seq(Lines)]
      BY <1>3, <1>4 DEF SessionTypeOK
    <2>3. console' \in 0..Len(consoles') /\ counter' \in Nat /\ consoles' \in Seq(ConsoleType)
      BY <1>1, <1>2, <1>4 DEF SessionTypeOK
    <2>4. transport' \in {"session", "request"} /\ registrable' \in BOOLEAN
      BY DEF SessionTypeOK, SameOptions
    <2> QED BY <1>5, <2>1, <2>2, <2>3, <2>4 DEF SessionTypeOK
  <1>7. StepInv'
    BY <1>4, <1>5 DEF StepInv, Idle, Exchanging, Waiting, Opening, Open
  <1>8. NothingAnswered
    BY <1>4 DEF NothingAnswered, SessionTypeOK
  <1>9. GaveUp
    BY <1>1, <1>4, <1>5 DEF GaveUp, SameBut
  <1> QED BY <1>6, <1>7, <1>8, <1>9

(* A console is opened, for the request under way.                           *)
LEMMA OpeningOpens ==
    ASSUME SessionTypeOK, NEW request \in ForegroundType, request.req # 0,
           OpenConsole(Reaped(consoles), request), SameOptions, faults' \in Nat
    PROVE  SessionTypeOK' /\ StepInv' /\ Opened /\ NothingAnswered
  <1> DEFINE cs == Reaped(consoles)
  <1>1. /\ cs \in Seq(ConsoleType) /\ DOMAIN cs = DOMAIN consoles /\ Len(cs) = Len(consoles)
        /\ Open => cs[console] = Emptied(Current)
        /\ \A d \in DOMAIN consoles : d # console => cs[d] = consoles[d]
    BY ReapedConsoles
  <1>2. Len(consoles) \in Nat /\ DOMAIN consoles = 1..Len(consoles)
    BY LenProperties DEF SessionTypeOK
  <1>3. request.root \in Roots /\ <<>> \in Seq(Lines)
    BY EmptySeq DEF ForegroundType
  <1>4. /\ Append(cs, NewConsole(request.root)) \in Seq(ConsoleType)
        /\ Len(Append(cs, NewConsole(request.root))) = Len(cs) + 1
        /\ DOMAIN Append(cs, NewConsole(request.root)) = DOMAIN cs \cup {Len(cs) + 1}
        /\ Append(cs, NewConsole(request.root))[Len(cs) + 1] = NewConsole(request.root)
        /\ \A d \in DOMAIN cs : Append(cs, NewConsole(request.root))[d] = cs[d]
    BY <1>1, <1>3, OpenedConsole
  <1> HIDE DEF cs
  <1>5. /\ consoles' = Append(cs, NewConsole(request.root)) /\ console' = Len(consoles) + 1
        /\ fg' = [request EXCEPT !.at = "prompt", !.got = <<>>]
        /\ counter' = counter /\ outcome' = outcome /\ answer' = answer
    BY DEF OpenConsole, cs
  <1>6. /\ fg' \in ForegroundType /\ fg'.at = "prompt" /\ fg'.got = <<>> /\ fg'.req # 0
        /\ fg'.root = request.root
    BY <1>3, <1>5 DEF ForegroundType, Waiting, Opening
  <1>7. SessionTypeOK'
    <2>1. console' \in 0..Len(consoles') /\ counter' \in Nat /\ consoles' \in Seq(ConsoleType)
      BY <1>1, <1>2, <1>4, <1>5 DEF SessionTypeOK
    <2>2. transport' \in {"session", "request"} /\ registrable' \in BOOLEAN
      BY DEF SessionTypeOK, SameOptions
    <2> QED BY <1>5, <1>6, <2>1, <2>2 DEF SessionTypeOK
  <1>8. consoles'[console'] = NewConsole(request.root) /\ console' # 0
    BY <1>1, <1>2, <1>4, <1>5
  <1>9. consoles'[console'].root = fg'.root
    BY <1>8, <1>6 DEF NewConsole
  <1>10. StepInv'
    BY <1>6, <1>8, <1>9 DEF StepInv, Idle, Exchanging, Open, Current
  <1>11. Opened
    <2>1. DOMAIN consoles' = DOMAIN consoles \cup {console'}
      BY <1>1, <1>4, <1>5
    <2>2. \A d \in DOMAIN consoles \ {console} : consoles'[d] = consoles[d]
      BY <1>1, <1>4, <1>5
    <2>3. Open => consoles'[console] = Emptied(Current)
      BY <1>1, <1>2, <1>4, <1>5 DEF Open, SessionTypeOK
    <2> QED BY <1>3, <1>5, <1>6, <1>8, <2>1, <2>2, <2>3 DEF Opened
  <1>12. NothingAnswered
    BY <1>5 DEF NothingAnswered
  <1> QED BY <1>7, <1>10, <1>11, <1>12

(* A failed connect gives up, or opens the one console of its retry.          *)
LEMMA RetryGivesUpOrOpens ==
    ASSUME SessionTypeOK, StepInv, ~Idle, RetryConnect, SameOptions, faults' \in Nat
    PROVE  SessionTypeOK' /\ StepInv' /\ NothingAnswered /\ (GaveUp \/ Opened)
  <1>1. CASE registrable /\ ~fg.again
    <2> DEFINE request == [fg EXCEPT !.again = TRUE]
    <2>1. OpenConsole(Reaped(consoles), request)
      BY <1>1 DEF RetryConnect
    <2>2. request \in ForegroundType /\ request.req # 0
      BY DEF SessionTypeOK, ForegroundType, StepInv
    <2> HIDE DEF request
    <2> QED BY <2>1, <2>2, OpeningOpens
  <1>2. CASE ~(registrable /\ ~fg.again)
    BY <1>2, GiveUpGivesUp DEF RetryConnect
  <1> QED BY <1>1, <1>2

(* A statement is posted: last in the inbox of the console, under a new
   marker.                                                                   *)
LEMMA SendingPosts ==
    ASSUME SessionTypeOK, Open, NEW queue \in Seq(Lines), NEW ready \in BOOLEAN,
           NEW cs \in Seq(ConsoleType), DOMAIN cs = DOMAIN consoles, Len(cs) = Len(consoles),
           cs[console] = Renewed(Current, queue, ready),
           \A d \in DOMAIN consoles \ {console} : cs[d] = consoles[d],
           NEW body \in 0..MaxRequests,
           consoles' = Sent(cs, console, body), counter' = Marker, console' = console,
           SameOptions, UNCHANGED <<outcome, answer, faults>>, fg' \in ForegroundType,
           fg'.got = <<>>, fg'.at \in Waiting \ {"prompt"}, body = Asked'
    PROVE  SessionTypeOK' /\ Posted(queue, ready) /\ NothingAnswered
  <1>1. console \in DOMAIN cs /\ counter \in Nat
    BY LenProperties DEF SessionTypeOK, Open
  <1>2. /\ consoles' \in Seq(ConsoleType) /\ DOMAIN consoles' = DOMAIN cs /\ Len(consoles') = Len(cs)
        /\ consoles'[console] = Given(cs[console], body)
        /\ \A d \in DOMAIN cs \ {console} : consoles'[d] = cs[d]
    <2>1. /\ Sent(cs, console, body) \in Seq(ConsoleType)
          /\ DOMAIN Sent(cs, console, body) = DOMAIN cs
          /\ Len(Sent(cs, console, body)) = Len(cs)
          /\ Sent(cs, console, body)[console] = Given(cs[console], body)
          /\ \A d \in DOMAIN cs \ {console} : Sent(cs, console, body)[d] = cs[d]
      BY <1>1, SentConsole
    <2> QED BY <2>1, Zenon
  <1>6. SessionTypeOK'
    <2>1. console' \in 0..Len(consoles') /\ counter' \in Nat
      BY <1>1, <1>2 DEF SessionTypeOK, Marker
    <2>2. transport' \in {"session", "request"} /\ registrable' \in BOOLEAN
      BY DEF SessionTypeOK, SameOptions
    <2> QED BY <1>2, <2>1, <2>2 DEF SessionTypeOK
  <1>7. Posted(queue, ready)
    BY <1>2 DEF Posted, SameBut, Marker
  <1> QED BY <1>6, <1>7 DEF NothingAnswered

-----------------------------------------------------------------------------
(* The steps of the foreground.                                              *)

(* The console a session in use names is one of its consoles.                *)
LEMMA CurrentIsConsole ==
    ASSUME SessionTypeOK, Open
    PROVE  /\ console \in DOMAIN consoles /\ console \in Nat \ {0}
           /\ Current \in ConsoleType /\ Current = consoles[console]
           /\ Current.queue \in Seq(Lines) /\ Current.printed \in Seq(Lines)
           /\ Current.inbox \in Seq(Statement) /\ Current.ready \in BOOLEAN
  <1>1. DOMAIN consoles = 1..Len(consoles) /\ Len(consoles) \in Nat
    BY LenProperties DEF SessionTypeOK
  <1>2. console \in DOMAIN consoles /\ console \in Nat \ {0}
    BY <1>1 DEF SessionTypeOK, Open
  <1>3. Current \in ConsoleType
    BY <1>1, <1>2, LenProperties DEF Current, SessionTypeOK
  <1> QED BY <1>2, <1>3 DEF Current, ConsoleType

(* A line is taken, and only that.                                           *)
LEMMA TakingTakes ==
    ASSUME SessionTypeOK, Open, Current.queue # <<>>, consoles' = Taken, console' = console,
           counter' = counter, SameOptions, NoMishap
    PROVE  TookLine /\ consoles' \in Seq(ConsoleType) /\ Len(consoles') = Len(consoles)
  <1>1. /\ Taken \in Seq(ConsoleType)
        /\ DOMAIN Taken = DOMAIN consoles /\ Len(Taken) = Len(consoles)
        /\ Taken[console] = [Current EXCEPT !.queue = Tail(Current.queue)]
        /\ \A d \in DOMAIN consoles \ {console} : Taken[d] = consoles[d]
    BY TakenConsole
  <1> QED BY <1>1 DEF TookLine, SameBut, SameOptions

ReadyTaken == [Taken EXCEPT ![console].ready = TRUE]
(* A line is taken, and the next exchange is begun.                          *)
LEMMA TakingAndSending ==
    ASSUME SessionTypeOK, StepInv, Open, Current.queue # <<>>, NEW ready \in BOOLEAN,
           NEW body \in 0..MaxRequests, NEW at \in Waiting \ {"prompt"},
           body = IF at = "ask" THEN fg.req ELSE Connect,
           \/ Send(Taken, body, at) /\ ready = Current.ready
           \/ Send(ReadyTaken, body, at) /\ ready = TRUE,
           SameOptions, NoMishap
    PROVE  SessionTypeOK' /\ Posted(Tail(Current.queue), ready) /\ NothingAnswered
           /\ fg' = [fg EXCEPT !.at = at, !.got = <<>>]
  <1>0. /\ console \in DOMAIN consoles /\ Current \in ConsoleType /\ Current.queue \in Seq(Lines)
        /\ Current.ready \in BOOLEAN
    BY CurrentIsConsole
  <1>1. /\ Taken \in Seq(ConsoleType)
        /\ DOMAIN Taken = DOMAIN consoles /\ Len(Taken) = Len(consoles)
        /\ Taken[console] = [Current EXCEPT !.queue = Tail(Current.queue)]
        /\ \A d \in DOMAIN consoles \ {console} : Taken[d] = consoles[d]
    BY TakenConsole
  <1>2. Tail(Current.queue) \in Seq(Lines) /\ <<>> \in Seq(Lines)
    BY <1>0, HeadTailProperties, EmptySeq
  <1> DEFINE record == Renewed(Current, Tail(Current.queue), ready)
  <1>3. PICK cs : /\ Send(cs, body, at)
                  /\ \/ cs = Taken /\ ready = Current.ready
                     \/ cs = ReadyTaken /\ ready = TRUE
    <2>1. CASE Send(Taken, body, at) /\ ready = Current.ready
      <3> WITNESS Taken
      <3> QED BY <2>1
    <2>2. CASE Send(ReadyTaken, body, at) /\ ready = TRUE
      <3> WITNESS ReadyTaken
      <3> QED BY <2>2
    <2> QED BY <2>1, <2>2
  <1>9. /\ cs \in Seq(ConsoleType) /\ DOMAIN cs = DOMAIN consoles /\ Len(cs) = Len(consoles)
        /\ cs[console] = record
        /\ \A d \in DOMAIN consoles \ {console} : cs[d] = consoles[d]
    <2>1. CASE cs = Taken /\ ready = Current.ready
      <3>1. record = [Current EXCEPT !.queue = Tail(Current.queue)]
        BY <1>0, <2>1 DEF ConsoleType, Renewed
      <3> QED BY <1>1, <2>1, <3>1
    <2>2. CASE cs = ReadyTaken /\ ready = TRUE
      <3>1. record \in ConsoleType
        BY <1>0, <1>2, <2>2 DEF ConsoleType, Renewed
      <3>2. cs = [Taken EXCEPT ![console] = record]
        <4>1. [Taken[console] EXCEPT !.ready = TRUE] = record
          BY <1>0, <1>1, <2>2 DEF ConsoleType, Renewed
        <4> QED BY <2>2, <4>1 DEF ReadyTaken
      <3> HIDE DEF record
      <3> QED BY <1>0, <1>1, <3>1, <3>2, OneConsole
    <2> QED BY <1>3, <2>1, <2>2
  <1>4. fg' = [fg EXCEPT !.at = at, !.got = <<>>]
    BY <1>3 DEF Send
  <1>5. fg' \in ForegroundType /\ fg'.at = at /\ fg'.got = <<>> /\ fg'.req = fg.req
    BY <1>2, <1>4 DEF SessionTypeOK, ForegroundType
  <1>6. body = Asked'
    BY <1>5 DEF Asked
  <1>7. SessionTypeOK' /\ Posted(Tail(Current.queue), ready) /\ NothingAnswered
    <2>1. /\ consoles' = Sent(cs, console, body) /\ counter' = Marker /\ console' = console
          /\ UNCHANGED <<outcome, answer, faults>>
      BY <1>3 DEF Send, NoMishap
    <2> QED BY <1>2, <1>9, <1>5, <1>6, <2>1, SendingPosts
  <1> QED BY <1>4, <1>7

(* What the other steps of the foreground do.                                *)
WroteInVain ==
    /\ Idle /\ fg'.at = "idle" /\ Open /\ console' = console /\ consoles' = consoles
    /\ counter' = counter + 1 /\ transport' = transport
CutOff ==
    /\ fg.at = "ask" /\ fg'.at = "idle" /\ Open /\ console' = console /\ SameBut(console)
    /\ consoles'[console] = [Current EXCEPT !.cut = TRUE]
    /\ counter' = counter /\ transport' = transport
Skipped == fg.at = "prompt" /\ fg' = fg /\ Line \notin {Prompt, Eof} /\ TookLine /\ NothingAnswered
Collected ==
    /\ Exchanging /\ Line # Eof /\ Line # MarkerLine(counter) /\ TookLine /\ NothingAnswered
    /\ fg' = IF Line.kind \in {"text", "refused"} THEN [fg EXCEPT !.got = Append(@, Line)] ELSE fg
Replied ==
    /\ fg.at = "ask" /\ Line = MarkerLine(counter) /\ TookLine
    /\ fg'.at = "idle" /\ fg'.got = <<>>
    /\ \/ NothingAnswered
       \/ /\ transport = "request" => ~HasRefused
          /\ outcome' = [outcome EXCEPT ![fg.req] = "answered"]
          /\ answer' = [answer EXCEPT ![fg.req] = fg.got]
RepliedByEnding ==
    /\ fg.at = "ask" /\ Line = Eof /\ Current.queue # <<>> /\ GaveUp
    /\ \/ NothingAnswered
       \/ /\ Current.zero /\ ~HasRefused
          /\ outcome' = [outcome EXCEPT ![fg.req] = "answered"]
          /\ answer' = [answer EXCEPT ![fg.req] = fg.got]
MovedOn ==
    /\ Current.queue # <<>> /\ transport' = transport /\ NothingAnswered
    /\ \/ fg.at = "prompt" /\ Line = Prompt
       \/ fg.at \in {"connect", "prelude"} /\ Line = MarkerLine(counter)
    /\ \E ready \in BOOLEAN : Posted(Tail(Current.queue), ready)

ForegroundStep ==
    \/ GaveUp /\ NothingAnswered
    \/ Opened /\ NothingAnswered
    \/ Idle /\ transport' = transport /\ Posted(Current.queue, Current.ready) /\ NothingAnswered
    \/ WroteInVain /\ NothingAnswered
    \/ CutOff /\ NothingAnswered
    \/ Skipped \/ Collected \/ Replied \/ RepliedByEnding \/ MovedOn

(* A request asked: of the console that is open, of a new one, or of none.    *)
LEMMA AskingStep ==
    ASSUME SessionTypeOK, StepInv, NEW root \in Roots,
           Reuse(root) \/ WriteFails(root) \/ Start(root) \/ StartFails(root)
    PROVE  SessionTypeOK' /\ StepInv' /\ ForegroundStep
  <1>0. /\ Idle /\ fg.req < MaxRequests /\ fg.got = <<>> /\ SameOptions /\ NoMishap
        /\ MaxRequests \in Nat /\ faults \in Nat /\ fg \in ForegroundType
    <2>1. Asking(root) /\ SameOptions /\ NoMishap
      BY DEF Reuse, WriteFails, Start, StartFails
    <2>2. Idle /\ fg.req < MaxRequests
      BY <2>1 DEF Asking, Idle
    <2>3. fg.got = <<>>
      BY <2>2 DEF StepInv, Exchanging, Idle, Waiting, Opening
    <2> QED BY <2>1, <2>2, <2>3, SessionAssumption DEF SessionTypeOK
  <1>1. Next1(root) \in ForegroundType /\ Next1(root).req = fg.req + 1 /\ Next1(root).req # 0
        /\ Next1(root).root = root /\ fg.req + 1 \in Requests /\ Next1(root).at = "idle"
        /\ Next1(root).got = <<>>
    <2>1. /\ Next1(root).req = fg.req + 1 /\ Next1(root).root = root /\ Next1(root).again = FALSE
          /\ Next1(root).at = "idle" /\ Next1(root).got = <<>>
      BY <1>0 DEF Next1, ForegroundType, Idle
    <2>2. fg.req + 1 \in Requests /\ fg.req + 1 # 0 /\ fg.req + 1 \in 0..MaxRequests
      BY <1>0 DEF ForegroundType, Requests
    <2>3. Next1(root) \in ForegroundType
      BY <1>0, <2>1, <2>2 DEF Next1, ForegroundType
    <2> QED BY <2>1, <2>2, <2>3
  <1>2. CASE Reuse(root)
    <2>1. /\ Open /\ (transport = "request" => Current.root = root)
          /\ consoles' = Sent(consoles, console, fg.req + 1) /\ counter' = Marker
          /\ fg' = [Next1(root) EXCEPT !.at = "ask", !.got = <<>>]
          /\ UNCHANGED <<console, outcome, answer>>
      BY <1>2 DEF Reuse, Serves
    <2>2. <<>> \in Seq(Lines)
      BY EmptySeq
    <2>3. /\ fg' \in ForegroundType /\ fg'.at = "ask" /\ fg'.got = <<>> /\ fg'.req = fg.req + 1
          /\ fg'.root = root
      BY <1>1, <2>1, <2>2 DEF ForegroundType, Waiting
    <2>4. /\ console \in DOMAIN consoles /\ Current \in ConsoleType /\ Current.queue \in Seq(Lines)
          /\ Current.ready \in BOOLEAN /\ consoles[console] = Current
      BY <2>1, CurrentIsConsole
    <2>5. consoles[console] = Renewed(Current, Current.queue, Current.ready)
      BY <2>4 DEF ConsoleType, Renewed
    <2>6. /\ consoles \in Seq(ConsoleType) /\ fg.req + 1 \in 0..MaxRequests /\ fg.req + 1 = Asked'
      BY <1>0, <2>3 DEF SessionTypeOK, ForegroundType, Asked
    <2>7. SessionTypeOK' /\ Posted(Current.queue, Current.ready) /\ NothingAnswered
      <3> DEFINE body == fg.req + 1
      <3>1. body \in 0..MaxRequests /\ body = Asked' /\ consoles' = Sent(consoles, console, body)
        BY <2>1, <2>6
      <3>2. fg'.at \in Waiting \ {"prompt"} /\ UNCHANGED <<outcome, answer, faults>>
        BY <1>0, <2>1, <2>3 DEF Waiting, NoMishap
      <3> HIDE DEF body
      <3> QED BY <1>0, <2>1, <2>3, <2>4, <2>5, <2>6, <3>1, <3>2, SendingPosts
    <2>8. StepInv'
      <3>1. Current' = Given(Current, Asked')
        BY <2>4, <2>5, <2>7, <2>1 DEF Posted, Current
      <3>2. Current'.root = Current.root /\ Current'.ready = Current.ready
        BY <3>1, <2>4 DEF Given, ConsoleType
      <3>3. Current.ready /\ Open'
        BY <1>0, <2>1 DEF StepInv, Idle, Open
      <3>4. transport' = transport /\ fg'.req # 0
        BY <1>0, <1>1, <2>3 DEF SameOptions
      <3> QED BY <2>1, <2>3, <3>2, <3>3, <3>4 DEF StepInv, Idle, Exchanging, Waiting
    <2> QED BY <1>0, <2>7, <2>8 DEF ForegroundStep, SameOptions
  <1>3. CASE WriteFails(root)
    <2>1. /\ Open /\ counter' = counter + 1 /\ fg' = Next1(root)
          /\ outcome' = [outcome EXCEPT ![fg.req + 1] = "failed"]
          /\ UNCHANGED <<consoles, console, answer>>
      <3>1. [Next1(root) EXCEPT !.at = "idle"] = Next1(root)
        BY <1>1 DEF ForegroundType
      <3> QED BY <1>3, <3>1 DEF WriteFails, Serves, Marker
    <2>2. SessionTypeOK'
      <3>1. outcome' \in [Requests -> {"none", "answered", "failed", "interrupted"}]
        BY <2>1 DEF SessionTypeOK
      <3> QED BY <1>0, <1>1, <2>1, <3>1 DEF SessionTypeOK, SameOptions, NoMishap
    <2>3. StepInv'
      BY <1>0, <1>1, <2>1 DEF StepInv, Idle, Exchanging, Open, Current, Waiting, Opening, SameOptions
    <2>4. NothingAnswered
      BY <2>1 DEF NothingAnswered, SessionTypeOK
    <2> QED BY <1>0, <1>1, <2>1, <2>2, <2>3, <2>4 DEF ForegroundStep, WroteInVain, SameOptions
  <1>4. CASE Start(root)
    <2>1. OpenConsole(Reaped(consoles), Next1(root))
      BY <1>4 DEF Start
    <2> QED BY <1>0, <1>1, <2>1, OpeningOpens DEF ForegroundStep, NoMishap
  <1>5. CASE StartFails(root)
    <2>1. /\ consoles' = Reaped(consoles) /\ console' = 0 /\ fg' = Next1(root)
          /\ outcome' = [outcome EXCEPT ![fg.req + 1] = "failed"]
          /\ UNCHANGED <<counter, answer>>
      <3>1. [Next1(root) EXCEPT !.at = "idle"] = Next1(root)
        BY <1>1 DEF ForegroundType
      <3> QED BY <1>5, <3>1 DEF StartFails
    <2>2. /\ Reaped(consoles) \in Seq(ConsoleType)
          /\ DOMAIN Reaped(consoles) = DOMAIN consoles /\ Len(Reaped(consoles)) = Len(consoles)
          /\ Open => Reaped(consoles)[console] = Emptied(Current)
          /\ \A d \in DOMAIN consoles : d # console => Reaped(consoles)[d] = consoles[d]
      BY ReapedConsoles
    <2>3. SessionTypeOK'
      <3>1. outcome' \in [Requests -> {"none", "answered", "failed", "interrupted"}]
        BY <2>1 DEF SessionTypeOK
      <3>2. console' \in 0..Len(consoles')
        BY <2>1, <2>2, LenProperties DEF SessionTypeOK
      <3> QED BY <1>0, <1>1, <2>1, <2>2, <3>1, <3>2 DEF SessionTypeOK, SameOptions, NoMishap
    <2>4. StepInv'
      BY <1>0, <1>1, <2>1 DEF StepInv, Idle, Exchanging, Open, Waiting, Opening
    <2>5. NothingAnswered
      BY <2>1 DEF NothingAnswered, SessionTypeOK
    <2>6. GaveUp
      BY <1>1, <2>1, <2>2 DEF GaveUp, SameBut
    <2> QED BY <2>3, <2>4, <2>5, <2>6 DEF ForegroundStep
  <1> QED BY <1>2, <1>3, <1>4, <1>5

(* The deadline, Ctrl-C and the close.                                       *)
LEMMA StoppingStep ==
    ASSUME SessionTypeOK, StepInv, TimedOut \/ Interrupt \/ Close
    PROVE  SessionTypeOK' /\ StepInv' /\ ForegroundStep
  <1>1. CASE TimedOut
    <2>1. GiveUp("failed") /\ SameOptions /\ faults' \in Nat
      BY <1>1 DEF TimedOut, NoMishap, SessionTypeOK
    <2> QED BY <2>1, GiveUpGivesUp DEF ForegroundStep
  <1>2. CASE Interrupt
    <2>1. /\ fg.at \in Waiting /\ faults' \in Nat /\ Finish("interrupted", <<>>)
          /\ counter' = counter /\ SameOptions
      BY <1>2 DEF Interrupt, SessionTypeOK
    <2>2. CASE fg.at \in Opening /\ consoles' = Reaped(consoles) /\ console' = 0
      <3>1. GiveUp("interrupted")
        BY <2>1, <2>2 DEF GiveUp
      <3> QED BY <2>1, <3>1, GiveUpGivesUp DEF ForegroundStep
    <2>3. CASE /\ fg.at = "ask" /\ consoles' = [consoles EXCEPT ![console].cut = TRUE]
               /\ console' = console
      <3>1. Open /\ Current.ready
        BY <2>3 DEF StepInv, Idle
      <3>2. /\ console \in DOMAIN consoles /\ Current \in ConsoleType /\ consoles[console] = Current
        BY <3>1, CurrentIsConsole
      <3> DEFINE record == [Current EXCEPT !.cut = TRUE]
      <3>3. record \in ConsoleType
        BY <3>2 DEF ConsoleType
      <3>4. consoles' = [consoles EXCEPT ![console] = record]
        BY <2>3, <3>2
      <3>5. record.ready = Current.ready
        BY <3>2 DEF ConsoleType
      <3> HIDE DEF record
      <3>6. /\ consoles' \in Seq(ConsoleType) /\ DOMAIN consoles' = DOMAIN consoles
            /\ Len(consoles') = Len(consoles) /\ consoles'[console] = record
            /\ \A d \in DOMAIN consoles \ {console} : consoles'[d] = consoles[d]
        <4>1. consoles \in Seq(ConsoleType)
          BY DEF SessionTypeOK
        <4> QED BY <3>2, <3>3, <3>4, <4>1, OneConsole
      <3>7. <<>> \in Seq(Lines)
        BY EmptySeq
      <3>8. /\ fg' = [fg EXCEPT !.at = "idle", !.got = <<>>]
            /\ outcome' = [outcome EXCEPT ![fg.req] = "interrupted"]
            /\ answer' = [answer EXCEPT ![fg.req] = <<>>]
        BY <2>1 DEF Finish
      <3>9. fg' \in ForegroundType /\ fg'.at = "idle" /\ fg'.got = <<>>
        BY <3>7, <3>8 DEF SessionTypeOK, ForegroundType
      <3>10. SessionTypeOK'
        <4>1. outcome' \in [Requests -> {"none", "answered", "failed", "interrupted"}]
          BY <3>8 DEF SessionTypeOK
        <4>2. answer' \in [Requests -> Seq(Lines)]
          BY <3>7, <3>8 DEF SessionTypeOK
        <4>3. console' \in 0..Len(consoles') /\ counter' \in Nat
          BY <2>1, <2>3, <3>6 DEF SessionTypeOK
        <4> QED BY <2>1, <3>6, <3>9, <4>1, <4>2, <4>3 DEF SessionTypeOK, SameOptions
      <3>11. Current' = record
        BY <2>3, <3>6 DEF Current
      <3>12. StepInv'
        <4>1. Current'.ready /\ Open'
          BY <2>3, <3>1, <3>5, <3>11 DEF Open
        <4>2. fg'.got = <<>> /\ fg'.at = "idle"
          BY <3>9
        <4> QED BY <4>1, <4>2 DEF StepInv, Idle, Exchanging, Waiting, Opening
      <3>13. NothingAnswered
        BY <3>8 DEF NothingAnswered, SessionTypeOK
      <3>14. CutOff
        BY <2>1, <2>3, <3>1, <3>6, <3>9 DEF CutOff, SameBut, record, SameOptions
      <3> QED BY <3>10, <3>12, <3>13, <3>14 DEF ForegroundStep
    <2> QED BY <1>2, <2>2, <2>3 DEF Interrupt
  <1>3. CASE Close
    <2>1. /\ Idle /\ consoles' = Reaped(consoles) /\ console' = 0 /\ counter' = counter /\ fg' = fg
          /\ outcome' = outcome /\ answer' = answer /\ SameOptions /\ NoMishap
      BY <1>3 DEF Close, Idle
    <2>2. /\ Reaped(consoles) \in Seq(ConsoleType)
          /\ DOMAIN Reaped(consoles) = DOMAIN consoles /\ Len(Reaped(consoles)) = Len(consoles)
          /\ Open => Reaped(consoles)[console] = Emptied(Current)
          /\ \A d \in DOMAIN consoles : d # console => Reaped(consoles)[d] = consoles[d]
      BY ReapedConsoles
    <2>3. SessionTypeOK'
      <3>1. console' \in 0..Len(consoles')
        BY <2>1, <2>2, LenProperties DEF SessionTypeOK
      <3> QED BY <2>1, <2>2, <3>1 DEF SessionTypeOK, SameOptions, NoMishap
    <2>4. StepInv'
      BY <2>1 DEF StepInv, Idle, Exchanging, Open, Waiting, Opening, SameOptions
    <2>5. GaveUp /\ NothingAnswered
      BY <2>1, <2>2 DEF GaveUp, SameBut, NothingAnswered, Idle
    <2> QED BY <2>3, <2>4, <2>5 DEF ForegroundStep
  <1> QED BY <1>1, <1>2, <1>3

(* The line a wait reads.                                                    *)
LEMMA ReadsALine ==
    ASSUME SessionTypeOK, StepInv, ~Idle, Current.queue # <<>>
    PROVE  /\ Open /\ Line \in Lines /\ Tail(Current.queue) \in Seq(Lines) /\ fg.req \in Requests
           /\ fg \in ForegroundType /\ fg.got \in Seq(Lines)
  <1>1. Open /\ fg.req # 0
    BY DEF StepInv
  <1>2. Current.queue \in Seq(Lines)
    BY <1>1, CurrentIsConsole
  <1>3. Line \in Lines /\ Tail(Current.queue) \in Seq(Lines)
    BY <1>2, HeadTailProperties DEF Line
  <1>4. fg.req \in Requests /\ fg \in ForegroundType /\ fg.got \in Seq(Lines)
    BY <1>1, SessionAssumption DEF SessionTypeOK, ForegroundType, Requests
  <1> QED BY <1>1, <1>3, <1>4

(* The wait for the prompt.                                                  *)
LEMMA AwaitPromptStep ==
    ASSUME SessionTypeOK, StepInv, AwaitPrompt
    PROVE  SessionTypeOK' /\ StepInv' /\ ForegroundStep
  <1>0. /\ fg.at = "prompt" /\ Current.queue # <<>> /\ SameOptions /\ NoMishap /\ ~Idle
        /\ faults' \in Nat
    BY DEF AwaitPrompt, Reads, Idle, SessionTypeOK, NoMishap
  <1>1. /\ Open /\ Line \in Lines /\ Tail(Current.queue) \in Seq(Lines) /\ fg.req \in Requests
        /\ fg \in ForegroundType /\ fg.got \in Seq(Lines)
    BY <1>0, ReadsALine
  <1>2. /\ console \in DOMAIN consoles /\ Current \in ConsoleType /\ Current.ready \in BOOLEAN
    BY <1>1, CurrentIsConsole
  <1>3. fg.req \in 0..MaxRequests /\ 0 \in 0..MaxRequests
    BY <1>1, SessionAssumption DEF Requests
  <1>4. CASE Line = Eof /\ GiveUp("failed")
    BY <1>0, <1>4, GiveUpGivesUp DEF ForegroundStep
  <1>5. CASE Line = Prompt /\ transport = "session" /\ Send(Taken, Connect, "connect")
    <2>1. /\ SessionTypeOK' /\ Posted(Tail(Current.queue), Current.ready) /\ NothingAnswered
          /\ fg' = [fg EXCEPT !.at = "connect", !.got = <<>>]
      <3>1. Connect \in 0..MaxRequests /\ Connect = IF "connect" = "ask" THEN fg.req ELSE Connect
        BY <1>3 DEF Connect
      <3>2. "connect" \in Waiting \ {"prompt"}
        BY DEF Waiting, Opening
      <3>3. Send(Taken, Connect, "connect")
        BY <1>5
      <3> QED BY <1>0, <1>1, <1>2, <3>1, <3>2, <3>3, TakingAndSending
    <2>2. fg'.at = "connect" /\ fg'.got = <<>> /\ fg'.req = fg.req /\ fg'.root = fg.root
      BY <1>1, <2>1 DEF ForegroundType
    <2>3. StepInv'
      BY <1>0, <1>1, <1>5, <2>1, <2>2 DEF StepInv, Idle, Exchanging, Open, Waiting, Opening, Posted,
         SameOptions, Requests
    <2>4. MovedOn
      BY <1>0, <1>2, <1>5, <2>1 DEF MovedOn, SameOptions
    <2> QED BY <2>1, <2>3, <2>4 DEF ForegroundStep
  <1>6. CASE /\ Line = Prompt /\ transport = "request"
             /\ Send([Taken EXCEPT ![console].ready = TRUE], fg.req, "ask")
    <2>1. /\ SessionTypeOK' /\ Posted(Tail(Current.queue), TRUE) /\ NothingAnswered
          /\ fg' = [fg EXCEPT !.at = "ask", !.got = <<>>]
      <3>1. fg.req = IF "ask" = "ask" THEN fg.req ELSE Connect
        OBVIOUS
      <3>2. "ask" \in Waiting \ {"prompt"}
        BY DEF Waiting, Opening
      <3>3. Send(ReadyTaken, fg.req, "ask")
        BY <1>6 DEF ReadyTaken
      <3> QED BY <1>0, <1>1, <1>3, <3>1, <3>2, <3>3, TakingAndSending
    <2>2. fg'.at = "ask" /\ fg'.got = <<>> /\ fg'.req = fg.req /\ fg'.root = fg.root
      BY <1>1, <2>1 DEF ForegroundType
    <2>3. Current'.root = Current.root /\ Current'.ready = TRUE
      BY <1>2, <2>1 DEF Posted, Current, Given, Renewed, ConsoleType
    <2>4. StepInv'
      BY <1>0, <1>1, <1>6, <2>1, <2>2, <2>3 DEF StepInv, Idle, Exchanging, Open, Waiting, Opening,
         Posted, SameOptions, Requests
    <2>5. MovedOn
      BY <1>0, <1>6, <2>1 DEF MovedOn, SameOptions
    <2> QED BY <2>1, <2>4, <2>5 DEF ForegroundStep
  <1>7. CASE /\ Line \notin {Prompt, Eof} /\ consoles' = Taken
             /\ UNCHANGED <<console, counter, fg, outcome, answer>>
    <2>1. TookLine /\ consoles' \in Seq(ConsoleType) /\ Len(consoles') = Len(consoles)
      BY <1>0, <1>1, <1>7, TakingTakes
    <2>2. SessionTypeOK'
      BY <1>0, <1>7, <2>1 DEF SessionTypeOK, SameOptions
    <2>3. Current'.root = Current.root
      BY <1>2, <1>7, <2>1 DEF TookLine, Current, ConsoleType
    <2>4. StepInv'
      BY <1>0, <1>7, <2>3 DEF StepInv, Idle, Exchanging, Open, SameOptions
    <2>5. Skipped
      BY <1>0, <1>7, <2>1 DEF Skipped, NothingAnswered
    <2> QED BY <2>2, <2>4, <2>5 DEF ForegroundStep
  <1> QED BY <1>4, <1>5, <1>6, <1>7 DEF AwaitPrompt

(* A line collected, and the end of the two exchanges of the opening.        *)
LEMMA OpeningExchangeStep ==
    ASSUME SessionTypeOK, StepInv, Collect \/ Connected \/ Prepared
    PROVE  SessionTypeOK' /\ StepInv' /\ ForegroundStep
  <1>0. /\ Exchanging /\ Current.queue # <<>> /\ SameOptions /\ NoMishap /\ ~Idle
        /\ faults' \in Nat
    BY DEF Collect, Connected, Prepared, Reads, Idle, SessionTypeOK, NoMishap, Exchanging, Waiting, Opening
  <1>1. /\ Open /\ Line \in Lines /\ Tail(Current.queue) \in Seq(Lines) /\ fg.req \in Requests
        /\ fg \in ForegroundType /\ fg.got \in Seq(Lines)
    BY <1>0, ReadsALine
  <1>2. /\ console \in DOMAIN consoles /\ Current \in ConsoleType /\ Current.ready \in BOOLEAN
    BY <1>1, CurrentIsConsole
  <1>3. fg.req \in 0..MaxRequests /\ 0 \in 0..MaxRequests
    BY <1>1, SessionAssumption DEF Requests
  <1>4. CASE Collect
    <2>1. /\ consoles' = Taken /\ UNCHANGED <<console, counter, outcome, answer>>
          /\ Line # Eof /\ Line # MarkerLine(counter)
          /\ fg' = IF Line.kind \in {"text", "refused"} THEN [fg EXCEPT !.got = Append(@, Line)] ELSE fg
      BY <1>4 DEF Collect
    <2>2. TookLine /\ consoles' \in Seq(ConsoleType) /\ Len(consoles') = Len(consoles)
      BY <1>0, <1>1, <2>1, TakingTakes
    <2>3. /\ Append(fg.got, Line) \in Seq(Lines) /\ Len(Append(fg.got, Line)) = Len(fg.got) + 1
          /\ Append(fg.got, Line)[Len(fg.got) + 1] = Line
          /\ \A i \in 1..Len(fg.got) : Append(fg.got, Line)[i] = fg.got[i]
          /\ DOMAIN fg.got = 1..Len(fg.got) /\ Len(fg.got) \in Nat
          /\ DOMAIN Append(fg.got, Line) = 1..(Len(fg.got) + 1)
      BY <1>1, AppendProperties, LenProperties
    <2>4. /\ fg' \in ForegroundType /\ fg'.at = fg.at /\ fg'.req = fg.req /\ fg'.root = fg.root
          /\ fg'.got = IF Line.kind \in {"text", "refused"} THEN Append(fg.got, Line) ELSE fg.got
      BY <1>1, <2>1, <2>3 DEF ForegroundType
    <2>5. SessionTypeOK'
      BY <1>0, <2>1, <2>2, <2>4 DEF SessionTypeOK, SameOptions
    <2>6. Current'.root = Current.root /\ Current'.ready = Current.ready
      BY <1>2, <2>2 DEF TookLine, Current, ConsoleType
    <2>7. \A i \in DOMAIN fg'.got : fg'.got[i].kind \in {"text", "refused"}
      <3>1. CASE Line.kind \in {"text", "refused"}
        <4>1. fg'.got = Append(fg.got, Line)
          BY <2>4, <3>1
        <4>2. ASSUME NEW i \in 1..(Len(fg.got) + 1) PROVE Append(fg.got, Line)[i].kind \in {"text", "refused"}
          <5>1. CASE i = Len(fg.got) + 1
            BY <2>3, <3>1, <5>1
          <5>2. CASE i \in 1..Len(fg.got)
            BY <2>3, <5>2 DEF StepInv
          <5> QED BY <2>3, <5>1, <5>2
        <4> QED BY <2>3, <4>1, <4>2
      <3>2. CASE Line.kind \notin {"text", "refused"}
        BY <2>4, <3>2 DEF StepInv
      <3> QED BY <3>1, <3>2
    <2>8. StepInv'
      <3>1. Open' /\ transport' = transport /\ (fg.at = "ask" => Current.ready)
        BY <1>0, <1>1, <2>1 DEF Open, SameOptions, StepInv
      <3>2. (transport = "request" => fg.at \notin {"connect", "prelude"} /\ Current.root = fg.root) /\ fg.req # 0
        BY <1>0 DEF StepInv
      <3>3. Exchanging' /\ ~Idle'
        BY <1>0, <2>4 DEF Exchanging, Idle
      <3> QED BY <1>0, <2>4, <2>6, <2>7, <3>1, <3>2, <3>3 DEF StepInv, Idle
    <2>9. Collected
      BY <1>0, <2>1, <2>2 DEF Collected, NothingAnswered
    <2> QED BY <2>5, <2>8, <2>9 DEF ForegroundStep
  <1>5. ASSUME RetryConnect PROVE SessionTypeOK' /\ StepInv' /\ ForegroundStep
    BY <1>0, <1>5, RetryGivesUpOrOpens DEF ForegroundStep
  <1>6. CASE /\ fg.at = "connect" /\ Line = MarkerLine(counter) /\ Send(Taken, Connect, "prelude")
    <2>1. /\ SessionTypeOK' /\ Posted(Tail(Current.queue), Current.ready) /\ NothingAnswered
          /\ fg' = [fg EXCEPT !.at = "prelude", !.got = <<>>]
      <3>1. Connect \in 0..MaxRequests /\ Connect = IF "prelude" = "ask" THEN fg.req ELSE Connect
        BY <1>3 DEF Connect
      <3>2. "prelude" \in Waiting \ {"prompt"}
        BY DEF Waiting, Opening
      <3>3. Send(Taken, Connect, "prelude")
        BY <1>6
      <3> QED BY <1>0, <1>1, <1>2, <3>1, <3>2, <3>3, TakingAndSending
    <2>2. fg'.at = "prelude" /\ fg'.got = <<>> /\ fg'.req = fg.req
      BY <1>1, <2>1 DEF ForegroundType
    <2>3. StepInv'
      BY <1>0, <1>1, <1>6, <2>1, <2>2 DEF StepInv, Idle, Exchanging, Open, Waiting, Opening, Posted,
         SameOptions, Requests
    <2>4. MovedOn
      BY <1>0, <1>2, <1>6, <2>1 DEF MovedOn, SameOptions
    <2> QED BY <2>1, <2>3, <2>4 DEF ForegroundStep
  <1>7. CASE Prepared
    <2>0. fg.at = "prelude" /\ Line = MarkerLine(counter)
      BY <1>7 DEF Prepared, Reads
    <2>1. /\ SessionTypeOK' /\ Posted(Tail(Current.queue), TRUE) /\ NothingAnswered
          /\ fg' = [fg EXCEPT !.at = "ask", !.got = <<>>]
      <3>1. fg.req = IF "ask" = "ask" THEN fg.req ELSE Connect
        OBVIOUS
      <3>2. "ask" \in Waiting \ {"prompt"}
        BY DEF Waiting, Opening
      <3>3. Send(ReadyTaken, fg.req, "ask")
        BY <1>7 DEF ReadyTaken, Prepared
      <3> QED BY <1>0, <1>1, <1>3, <3>1, <3>2, <3>3, TakingAndSending
    <2>2. fg'.at = "ask" /\ fg'.got = <<>> /\ fg'.req = fg.req
      BY <1>1, <2>1 DEF ForegroundType
    <2>3. Current'.ready = TRUE
      BY <1>2, <2>1 DEF Posted, Current, Given, Renewed, ConsoleType
    <2>4. transport # "request"
      BY <2>0 DEF StepInv
    <2>5. StepInv'
      BY <1>0, <1>1, <2>1, <2>2, <2>3, <2>4 DEF StepInv, Idle, Exchanging, Open, Waiting, Opening,
         Posted, SameOptions, Requests
    <2>6. MovedOn
      BY <1>0, <2>0, <2>1 DEF MovedOn, SameOptions
    <2> QED BY <2>1, <2>5, <2>6 DEF ForegroundStep
  <1>8. CASE Connected
    <2>1. fg.at = "connect" /\ Line = MarkerLine(counter)
      BY <1>8 DEF Connected, Reads
    <2>2. RetryConnect \/ Send(Taken, Connect, "prelude")
      BY <1>8 DEF Connected
    <2> QED BY <1>5, <1>6, <2>1, <2>2
  <1> QED BY <1>4, <1>7, <1>8

(* The answer, and the end of the process.                                   *)
LEMMA AnsweringStep ==
    ASSUME SessionTypeOK, StepInv, Answered \/ Ended
    PROVE  SessionTypeOK' /\ StepInv' /\ ForegroundStep
  <1>0. /\ Exchanging /\ Current.queue # <<>> /\ SameOptions /\ NoMishap /\ ~Idle
        /\ faults' \in Nat
    BY DEF Answered, Ended, Reads, Idle, SessionTypeOK, NoMishap, Exchanging, Waiting, Opening
  <1>1. /\ Open /\ Line \in Lines /\ Tail(Current.queue) \in Seq(Lines) /\ fg.req \in Requests
        /\ fg \in ForegroundType /\ fg.got \in Seq(Lines)
    BY <1>0, ReadsALine
  <1>2. /\ console \in DOMAIN consoles /\ Current \in ConsoleType
    BY <1>1, CurrentIsConsole
  <1>3. ASSUME NEW how \in {"answered", "failed"}, Finish(how, fg.got)
        PROVE  /\ fg' \in ForegroundType /\ fg'.at = "idle" /\ fg'.got = <<>>
               /\ outcome' = [outcome EXCEPT ![fg.req] = how]
               /\ answer' = [answer EXCEPT ![fg.req] = fg.got]
               /\ outcome' \in [Requests -> {"none", "answered", "failed", "interrupted"}]
               /\ answer' \in [Requests -> Seq(Lines)]
               /\ how = "failed" => NothingAnswered
    <2>1. <<>> \in Seq(Lines)
      BY EmptySeq
    <2>2. /\ fg' = [fg EXCEPT !.at = "idle", !.got = <<>>]
          /\ outcome' = [outcome EXCEPT ![fg.req] = how] /\ answer' = [answer EXCEPT ![fg.req] = fg.got]
      BY <1>3 DEF Finish
    <2>3. fg' \in ForegroundType /\ fg'.at = "idle" /\ fg'.got = <<>>
      BY <1>1, <2>1, <2>2 DEF ForegroundType
    <2>4. /\ outcome' \in [Requests -> {"none", "answered", "failed", "interrupted"}]
          /\ answer' \in [Requests -> Seq(Lines)]
      BY <1>1, <2>2 DEF SessionTypeOK
    <2>5. how = "failed" => NothingAnswered
      BY <2>2 DEF NothingAnswered, SessionTypeOK
    <2> QED BY <2>2, <2>3, <2>4, <2>5
  <1>4. CASE Answered
    <2>1. /\ fg.at = "ask" /\ Line = MarkerLine(counter) /\ consoles' = Taken
          /\ UNCHANGED <<console, counter>>
      BY <1>4 DEF Answered, Reads
    <2>2. PICK how \in {"answered", "failed"} :
             /\ Finish(how, fg.got)
             /\ how = "answered" => (transport = "request" => ~HasRefused)
      BY <1>4 DEF Answered
    <2>3. /\ fg' \in ForegroundType /\ fg'.at = "idle" /\ fg'.got = <<>>
          /\ outcome' = [outcome EXCEPT ![fg.req] = how]
          /\ answer' = [answer EXCEPT ![fg.req] = fg.got]
          /\ outcome' \in [Requests -> {"none", "answered", "failed", "interrupted"}]
          /\ answer' \in [Requests -> Seq(Lines)]
          /\ how = "failed" => NothingAnswered
      BY <1>3, <2>2
    <2>4. TookLine /\ consoles' \in Seq(ConsoleType) /\ Len(consoles') = Len(consoles)
      BY <1>0, <1>1, <2>1, TakingTakes
    <2>5. SessionTypeOK'
      BY <1>0, <2>1, <2>3, <2>4 DEF SessionTypeOK, SameOptions
    <2>6. StepInv'
      <3>1. Current'.ready = Current.ready /\ Current.ready
        <4>1. Current'.ready = Current.ready
          BY <1>2, <2>4 DEF TookLine, Current, ConsoleType
        <4> QED BY <1>1, <2>1, <4>1 DEF StepInv
      <3>2. \A i \in DOMAIN fg'.got : fg'.got[i].kind \in {"text", "refused"}
        BY <2>3
      <3> QED BY <2>3, <3>1, <3>2 DEF StepInv, Idle, Exchanging, Waiting, Opening
    <2>7. Replied
      BY <2>1, <2>2, <2>3, <2>4 DEF Replied
    <2> QED BY <2>5, <2>6, <2>7 DEF ForegroundStep
  <1>5. CASE Ended
    <2>0. Line = Eof
      BY <1>5 DEF Ended
    <2>1. CASE fg.at = "connect" /\ RetryConnect
      BY <1>0, <2>1, RetryGivesUpOrOpens DEF ForegroundStep
    <2>2. CASE GiveUp("failed")
      BY <1>0, <2>2, GiveUpGivesUp DEF ForegroundStep
    <2>3. CASE /\ fg.at = "ask" /\ transport = "request"
               /\ consoles' = Reaped(consoles) /\ console' = 0
               /\ IF Current.proc = "ended" /\ Current.zero /\ ~HasRefused
                  THEN Finish("answered", fg.got) ELSE Finish("failed", fg.got)
               /\ UNCHANGED counter
      <3>1. PICK how \in {"answered", "failed"} :
               /\ Finish(how, fg.got)
               /\ how = "answered" => Current.zero /\ ~HasRefused
        BY <2>3
      <3>2. /\ fg' \in ForegroundType /\ fg'.at = "idle" /\ fg'.got = <<>>
            /\ outcome' = [outcome EXCEPT ![fg.req] = how]
            /\ answer' = [answer EXCEPT ![fg.req] = fg.got]
            /\ outcome' \in [Requests -> {"none", "answered", "failed", "interrupted"}]
            /\ answer' \in [Requests -> Seq(Lines)]
            /\ how = "failed" => NothingAnswered
        BY <1>3, <3>1
      <3>3. /\ Reaped(consoles) \in Seq(ConsoleType)
            /\ DOMAIN Reaped(consoles) = DOMAIN consoles /\ Len(Reaped(consoles)) = Len(consoles)
            /\ Open => Reaped(consoles)[console] = Emptied(Current)
            /\ \A d \in DOMAIN consoles : d # console => Reaped(consoles)[d] = consoles[d]
        BY ReapedConsoles
      <3>4. SessionTypeOK'
        <4>1. console' \in 0..Len(consoles') /\ consoles' \in Seq(ConsoleType)
          BY <2>3, <3>3, LenProperties DEF SessionTypeOK
        <4> QED BY <1>0, <2>3, <3>2, <4>1 DEF SessionTypeOK, SameOptions
      <3>5. StepInv'
        <4>1. \A i \in DOMAIN fg'.got : fg'.got[i].kind \in {"text", "refused"}
          BY <3>2
        <4> QED BY <2>3, <3>2, <4>1 DEF StepInv, Idle, Exchanging, Waiting, Opening, Open
      <3>6. GaveUp
        BY <2>3, <3>2, <3>3 DEF GaveUp, SameBut
      <3>7. RepliedByEnding
        BY <1>0, <2>0, <2>3, <3>1, <3>2, <3>6 DEF RepliedByEnding
      <3> QED BY <3>4, <3>5, <3>7 DEF ForegroundStep
    <2> QED BY <1>5, <2>1, <2>2, <2>3 DEF Ended
  <1> QED BY <1>4, <1>5

-----------------------------------------------------------------------------
(* The steps of SQLcl and of the reader.                                     *)
SamePlace == UNCHANGED <<transport, console, counter, fg, outcome, answer>>
SameFields(c, fields) == \A field \in fields : consoles'[c][field] = consoles[c][field]
Boots(c) ==
    /\ consoles[c].proc = "booting" /\ consoles'[c].proc = "serving"
    /\ SameFields(c, {"zero", "inbox", "ran", "queue", "reader"})
    /\ consoles'[c].printed = Append(consoles[c].printed, Prompt)
Executes(c) ==
    /\ consoles[c].proc = "serving" /\ consoles[c].inbox # <<>> /\ ~consoles[c].ran /\ consoles'[c].ran
    /\ SameFields(c, {"proc", "zero", "inbox", "queue", "reader"})
    /\ \E line \in OutputOf(Head(consoles[c].inbox).body) :
          consoles'[c].printed = Append(consoles[c].printed, line)
PrintsMarker(c) ==
    /\ consoles[c].proc = "serving" /\ consoles[c].ran /\ ~consoles'[c].ran
    /\ SameFields(c, {"proc", "zero", "queue", "reader"})
    /\ consoles'[c].inbox = Tail(consoles[c].inbox)
    /\ consoles'[c].printed = Append(consoles[c].printed, MarkerLine(Head(consoles[c].inbox).marker))
Halts(c) ==
    /\ Live(c) /\ consoles'[c].proc = "ended"
    /\ consoles'[c].zero => consoles[c].zero \/ consoles[c].ran
    /\ SameFields(c, {"inbox", "ran", "printed", "queue", "reader"})
Hands(c) ==
    /\ consoles[c].reader = "reading"
    /\ SameFields(c, {"proc", "zero", "inbox", "ran", "reader"})
    /\ consoles'[c].queue = consoles[c].queue \o consoles[c].printed
    /\ consoles'[c].printed = <<>>
Closes(c) ==
    /\ consoles[c].reader = "reading"
    /\ SameFields(c, {"proc", "zero", "inbox", "ran", "printed"})
    /\ consoles'[c].queue = Append(consoles[c].queue, Eof)
    /\ \/ consoles'[c].reader = "failed"
       \/ consoles'[c].reader = "done" /\ ~Live(c) /\ consoles[c].printed = <<>>
ProcessStep(c) ==
    /\ SamePlace /\ SameBut(c) /\ SameFields(c, {"root", "ready", "cut"})
    /\ Boots(c) \/ Executes(c) \/ PrintsMarker(c) \/ Halts(c) \/ Hands(c) \/ Closes(c)

(* A process or a reader changes the record of its own console.              *)
LEMMA BecomingChanges ==
    ASSUME SessionTypeOK, StepInv, NEW c \in DOMAIN consoles, NEW record \in ConsoleType,
           consoles' = [consoles EXCEPT ![c] = record], SamePlace, SameOptions, faults' \in Nat,
           record.root = consoles[c].root, record.ready = consoles[c].ready
    PROVE  /\ SessionTypeOK' /\ StepInv' /\ SameBut(c) /\ NothingAnswered
           /\ consoles'[c] = record
  <1>1. /\ [consoles EXCEPT ![c] = record] \in Seq(ConsoleType)
        /\ DOMAIN [consoles EXCEPT ![c] = record] = DOMAIN consoles
        /\ Len([consoles EXCEPT ![c] = record]) = Len(consoles)
        /\ [consoles EXCEPT ![c] = record][c] = record
        /\ \A d \in DOMAIN consoles \ {c} : [consoles EXCEPT ![c] = record][d] = consoles[d]
    BY OneConsole DEF SessionTypeOK
  <1>2. /\ consoles' \in Seq(ConsoleType) /\ DOMAIN consoles' = DOMAIN consoles
        /\ Len(consoles') = Len(consoles) /\ consoles'[c] = record
        /\ \A d \in DOMAIN consoles \ {c} : consoles'[d] = consoles[d]
    BY <1>1, Zenon
  <1>3. SessionTypeOK'
    BY <1>2 DEF SessionTypeOK, SamePlace, SameOptions
  <1>4. StepInv'
    <2>1. CASE Open
      <3>1. console \in DOMAIN consoles
        BY <2>1, CurrentIsConsole
      <3>2. Current'.root = Current.root /\ Current'.ready = Current.ready
        BY <1>2, <3>1 DEF Current, SamePlace
      <3> QED BY <2>1, <3>2 DEF StepInv, Idle, Exchanging, Open, SamePlace
    <2>2. CASE ~Open
      BY <2>2 DEF StepInv, Idle, Exchanging, Open, SamePlace
    <2> QED BY <2>1, <2>2
  <1>5. NothingAnswered
    BY DEF NothingAnswered, SamePlace
  <1> QED BY <1>2, <1>3, <1>4, <1>5 DEF SameBut

(* Every step of a process.                                                  *)
LEMMA SqlclSteps ==
    ASSUME SessionTypeOK, StepInv, RunningInv, NEW c \in DOMAIN consoles, Sqlcl(c)
    PROVE  SessionTypeOK' /\ StepInv' /\ NothingAnswered /\ ProcessStep(c)
  <1>0. /\ consoles[c] \in ConsoleType /\ consoles[c].printed \in Seq(Lines)
        /\ consoles[c].inbox \in Seq(Statement)
    <2>1. consoles[c] \in ConsoleType
      BY LenProperties DEF SessionTypeOK
    <2> QED BY <2>1 DEF ConsoleType
  <1>1. ASSUME NEW line \in Lines PROVE Printing(c, line) \in Seq(Lines)
    BY <1>0, AppendProperties DEF Printing
  <1>2. ASSUME NEW record \in ConsoleType, Becomes(c, record),
               record.root = consoles[c].root, record.ready = consoles[c].ready
        PROVE  /\ SessionTypeOK' /\ StepInv' /\ SameBut(c) /\ NothingAnswered
               /\ consoles'[c] = record /\ SamePlace
    <2>1. /\ consoles' = [consoles EXCEPT ![c] = record] /\ SamePlace /\ SameOptions
          /\ faults' \in Nat
      BY <1>2 DEF Becomes, SamePlace, SameOptions, NoMishap, SessionTypeOK
    <2> QED BY <1>2, <2>1, BecomingChanges
  <1>3. CASE Boot(c)
    <2> DEFINE record == [consoles[c] EXCEPT !.proc = "serving", !.printed = Printing(c, Prompt)]
    <2>1. Prompt \in Lines
      BY DEF Prompt, Lines
    <2>2. record \in ConsoleType /\ record.root = consoles[c].root /\ record.ready = consoles[c].ready
      BY <1>0, <1>1, <2>1 DEF ConsoleType
    <2>3. Becomes(c, record) /\ consoles[c].proc = "booting"
      BY <1>3 DEF Boot
    <2>4. /\ record.proc = "serving" /\ record.printed = Append(consoles[c].printed, Prompt)
          /\ \A field \in {"zero", "inbox", "ran", "queue", "reader", "root", "ready", "cut"} :
                record[field] = consoles[c][field]
      BY <1>0 DEF ConsoleType, Printing
    <2> HIDE DEF record
    <2>5. /\ SessionTypeOK' /\ StepInv' /\ SameBut(c) /\ NothingAnswered
          /\ consoles'[c] = record /\ SamePlace
      BY <1>2, <2>2, <2>3
    <2> QED BY <2>3, <2>4, <2>5 DEF ProcessStep, Boots, SameFields
  <1>4. CASE Execute(c)
    <2>1. /\ consoles[c].proc = "serving" /\ consoles[c].inbox # <<>> /\ ~consoles[c].ran
      BY <1>4 DEF Execute
    <2>2. PICK line \in OutputOf(Head(consoles[c].inbox).body) :
             Becomes(c, [consoles[c] EXCEPT !.ran = TRUE, !.printed = Printing(c, line)])
      BY <1>4 DEF Execute, OutputOf
    <2> DEFINE record == [consoles[c] EXCEPT !.ran = TRUE, !.printed = Printing(c, line)]
    <2>3. line \in Lines
      <3>1. Head(consoles[c].inbox) \in Statement
        BY <1>0, <2>1, HeadTailProperties
      <3>2. Head(consoles[c].inbox).body \in Nat
        BY <3>1, SessionAssumption DEF Statement
      <3> QED BY <3>2 DEF OutputOf, Text, Refused, Lines
    <2>4. record \in ConsoleType /\ record.root = consoles[c].root /\ record.ready = consoles[c].ready
      BY <1>0, <1>1, <2>3 DEF ConsoleType
    <2>5. /\ record.ran = TRUE /\ record.printed = Append(consoles[c].printed, line)
          /\ \A field \in {"proc", "zero", "inbox", "queue", "reader", "root", "ready", "cut"} :
                record[field] = consoles[c][field]
      BY <1>0 DEF ConsoleType, Printing
    <2>6. Becomes(c, record)
      BY <2>2
    <2> HIDE DEF record
    <2>7. /\ SessionTypeOK' /\ StepInv' /\ SameBut(c) /\ NothingAnswered
          /\ consoles'[c] = record /\ SamePlace
      BY <1>2, <2>4, <2>6
    <2> QED BY <2>1, <2>5, <2>7 DEF ProcessStep, Executes, SameFields
  <1>5. CASE PrintMarker(c)
    <2>1. consoles[c].proc = "serving" /\ consoles[c].ran /\ consoles[c].inbox # <<>>
      BY <1>5 DEF PrintMarker, RunningInv
    <2> DEFINE line == MarkerLine(Head(consoles[c].inbox).marker)
               record == [consoles[c] EXCEPT !.ran = FALSE, !.inbox = Tail(consoles[c].inbox),
                              !.printed = Printing(c, line)]
    <2>2. Tail(consoles[c].inbox) \in Seq(Statement) /\ line \in Lines
      <3>1. Head(consoles[c].inbox) \in Statement /\ Tail(consoles[c].inbox) \in Seq(Statement)
        BY <1>0, <2>1, HeadTailProperties
      <3> QED BY <3>1 DEF Statement, MarkerLine, Lines
    <2>3. record \in ConsoleType /\ record.root = consoles[c].root /\ record.ready = consoles[c].ready
      BY <1>0, <1>1, <2>2 DEF ConsoleType
    <2>4. /\ record.ran = FALSE /\ record.printed = Append(consoles[c].printed, line)
          /\ record.inbox = Tail(consoles[c].inbox)
          /\ \A field \in {"proc", "zero", "queue", "reader", "root", "ready", "cut"} :
                record[field] = consoles[c][field]
      BY <1>0 DEF ConsoleType, Printing
    <2>5. Becomes(c, record)
      BY <1>5 DEF PrintMarker
    <2> HIDE DEF record
    <2>6. /\ SessionTypeOK' /\ StepInv' /\ SameBut(c) /\ NothingAnswered
          /\ consoles'[c] = record /\ SamePlace
      BY <1>2, <2>3, <2>5
    <2> QED BY <2>1, <2>4, <2>6 DEF ProcessStep, PrintsMarker, SameFields
  <1>6. CASE Exit(c) \/ Die(c)
    <2>1. PICK zero \in BOOLEAN :
             /\ Live(c) /\ (zero => consoles[c].zero \/ consoles[c].ran)
             /\ Becomes(c, [[consoles[c] EXCEPT !.proc = "ended"] EXCEPT !.zero = zero])
      <3>1. CASE Exit(c)
        <4>1. /\ consoles[c].proc = "serving" /\ consoles[c].ran
              /\ \E zero \in BOOLEAN : Becomes(c, [consoles[c] EXCEPT !.proc = "ended", !.zero = zero])
          BY <3>1 DEF Exit
        <4>2. PICK zero \in BOOLEAN : Becomes(c, [consoles[c] EXCEPT !.proc = "ended", !.zero = zero])
          BY <4>1
        <4>3. [consoles[c] EXCEPT !.proc = "ended", !.zero = zero]
                  = [[consoles[c] EXCEPT !.proc = "ended"] EXCEPT !.zero = zero]
          BY <1>0 DEF ConsoleType
        <4> WITNESS zero \in BOOLEAN
        <4> QED BY <4>1, <4>2, <4>3 DEF Live
      <3>2. CASE Die(c)
        <4>1. Live(c) /\ Becomes(c, [consoles[c] EXCEPT !.proc = "ended"])
          BY <3>2 DEF Die
        <4>2. consoles[c].zero \in BOOLEAN
          BY <1>0 DEF ConsoleType
        <4>3. [consoles[c] EXCEPT !.proc = "ended"]
                  = [[consoles[c] EXCEPT !.proc = "ended"] EXCEPT !.zero = consoles[c].zero]
          BY <1>0 DEF ConsoleType
        <4> WITNESS consoles[c].zero \in BOOLEAN
        <4> QED BY <4>1, <4>3
      <3> QED BY <1>6, <3>1, <3>2
    <2> DEFINE record == [[consoles[c] EXCEPT !.proc = "ended"] EXCEPT !.zero = zero]
    <2>2. record \in ConsoleType /\ record.root = consoles[c].root /\ record.ready = consoles[c].ready
      BY <1>0 DEF ConsoleType
    <2>3. /\ record.proc = "ended" /\ record.zero = zero
          /\ \A field \in {"inbox", "ran", "printed", "queue", "reader", "root", "ready", "cut"} :
                record[field] = consoles[c][field]
      BY <1>0 DEF ConsoleType
    <2>4. Becomes(c, record)
      BY <2>1
    <2> HIDE DEF record
    <2>5. /\ SessionTypeOK' /\ StepInv' /\ SameBut(c) /\ NothingAnswered
          /\ consoles'[c] = record /\ SamePlace
      BY <1>2, <2>2, <2>4
    <2>6. Halts(c)
      BY <2>1, <2>3, <2>5 DEF Halts, SameFields
    <2> QED BY <2>3, <2>5, <2>6 DEF ProcessStep, SameFields
  <1> QED BY <1>3, <1>4, <1>5, <1>6 DEF Sqlcl

(* Every step of a reader.                                                   *)
LEMMA ReaderSteps ==
    ASSUME SessionTypeOK, StepInv, NEW c \in DOMAIN consoles, Reader(c) \/ PumpFails(c)
    PROVE  SessionTypeOK' /\ StepInv' /\ NothingAnswered /\ ProcessStep(c)
  <1>0. /\ consoles[c] \in ConsoleType /\ consoles[c].printed \in Seq(Lines)
        /\ consoles[c].queue \in Seq(Lines) /\ consoles \in Seq(ConsoleType)
    <2>1. consoles[c] \in ConsoleType /\ consoles \in Seq(ConsoleType)
      BY LenProperties DEF SessionTypeOK
    <2> QED BY <2>1 DEF ConsoleType
  <1>1. CASE Pump(c)
    <2> DEFINE record == [consoles[c] EXCEPT !.queue = consoles[c].queue \o consoles[c].printed,
                                             !.printed = <<>>]
    <2>1. consoles[c].queue \o consoles[c].printed \in Seq(Lines) /\ <<>> \in Seq(Lines)
      BY <1>0, ConcatProperties, EmptySeq
    <2>2. record \in ConsoleType /\ record.root = consoles[c].root /\ record.ready = consoles[c].ready
      BY <1>0, <2>1 DEF ConsoleType
    <2>3. /\ record.queue = consoles[c].queue \o consoles[c].printed /\ record.printed = <<>>
          /\ \A field \in {"proc", "zero", "inbox", "ran", "reader", "root", "ready", "cut"} :
                record[field] = consoles[c][field]
      BY <1>0 DEF ConsoleType
    <2>4. /\ consoles[c].reader = "reading" /\ consoles' = [consoles EXCEPT ![c] = record]
          /\ SamePlace /\ SameOptions /\ faults' \in Nat
      BY <1>1 DEF Pump, Becomes, SamePlace, SameOptions, NoMishap, SessionTypeOK
    <2> HIDE DEF record
    <2>5. /\ SessionTypeOK' /\ StepInv' /\ SameBut(c) /\ NothingAnswered /\ consoles'[c] = record
      BY <2>2, <2>4, BecomingChanges
    <2>6. Hands(c)
      BY <2>3, <2>4, <2>5 DEF Hands, SameFields
    <2> QED BY <2>3, <2>4, <2>5, <2>6 DEF ProcessStep, SameFields
  <1>2. CASE PumpEnd(c) \/ PumpFails(c)
    <2>1. PICK how \in {"done", "failed"} :
             /\ consoles' = Leaves(c, how)
             /\ how = "done" => ~Live(c) /\ consoles[c].printed = <<>>
      BY <1>2 DEF PumpEnd, PumpFails
    <2> DEFINE reading == [consoles[c] EXCEPT !.reader = how]
               record == [reading EXCEPT !.queue = Append(consoles[c].queue, Eof)]
    <2>2. Append(consoles[c].queue, Eof) \in Seq(Lines)
      <3>1. Eof \in Lines
        BY DEF Eof, Lines
      <3> QED BY <1>0, <3>1, AppendProperties
    <2>3. reading \in ConsoleType /\ reading.queue = consoles[c].queue
      BY <1>0 DEF ConsoleType
    <2>4. record \in ConsoleType /\ record.root = consoles[c].root /\ record.ready = consoles[c].ready
      BY <1>0, <2>2 DEF ConsoleType
    <2>5. /\ record.queue = Append(consoles[c].queue, Eof) /\ record.reader = how
          /\ \A field \in {"proc", "zero", "inbox", "ran", "printed", "root", "ready", "cut"} :
                record[field] = consoles[c][field]
      BY <1>0 DEF ConsoleType
    <2>6. consoles' = [consoles EXCEPT ![c] = record]
      <3> DEFINE cs == [consoles EXCEPT ![c] = reading]
      <3>1. consoles' = [cs EXCEPT ![c].queue = Append(@, Eof)]
        BY <2>1 DEF Leaves, Noticed, Bound
      <3> HIDE DEF reading
      <3>2. /\ cs \in Seq(ConsoleType) /\ DOMAIN cs = DOMAIN consoles
            /\ cs[c] = reading /\ \A d \in DOMAIN consoles \ {c} : cs[d] = consoles[d]
        BY <1>0, <2>3, OneConsole
      <3>3. consoles' = [cs EXCEPT ![c] = [reading EXCEPT !.queue = Append(reading.queue, Eof)]]
        BY <3>1, <3>2
      <3> QED BY <2>3, <3>3
    <2>7. /\ consoles[c].reader = "reading" /\ SamePlace /\ SameOptions /\ faults' \in Nat
      BY <1>2 DEF PumpEnd, PumpFails, SamePlace, SameOptions, NoMishap, SessionTypeOK
    <2> HIDE DEF record
    <2>8. /\ SessionTypeOK' /\ StepInv' /\ SameBut(c) /\ NothingAnswered /\ consoles'[c] = record
      BY <2>4, <2>6, <2>7, BecomingChanges
    <2>9. Closes(c)
      BY <2>1, <2>5, <2>7, <2>8 DEF Closes, SameFields
    <2> QED BY <2>5, <2>7, <2>8, <2>9 DEF ProcessStep, SameFields
  <1> QED BY <1>1, <1>2 DEF Reader

(* So every step is one of these, and keeps the types.                       *)
LEMMA EveryStep ==
    ASSUME SessionTypeOK, StepInv, RunningInv, SessionNext
    PROVE  /\ SessionTypeOK' /\ StepInv'
           /\ \/ ForegroundStep
              \/ NothingAnswered /\ \E c \in DOMAIN consoles : ProcessStep(c)
  <1>1. CASE Foreground
    BY <1>1, AskingStep, StoppingStep DEF Foreground
  <1>2. CASE Reading
    BY <1>2, AwaitPromptStep, OpeningExchangeStep, AnsweringStep DEF Reading
  <1>3. CASE \E c \in DOMAIN consoles : Sqlcl(c) \/ Reader(c) \/ PumpFails(c)
    BY <1>3, SqlclSteps, ReaderSteps
  <1> QED BY <1>1, <1>2, <1>3 DEF SessionNext

-----------------------------------------------------------------------------
(* What holds of every console, the abandoned ones too.                      *)
RestOf(c) == /\ consoles[c] \in ConsoleType /\ consoles[c].queue \in Seq(Lines)
             /\ consoles[c].printed \in Seq(Lines) /\ consoles[c].inbox \in Seq(Statement)

(* A line appended adds no end marker but itself.                            *)
LEMMA AppendedLine ==
    ASSUME NEW s \in Seq(Lines), NEW l \in Lines
    PROVE  \A i \in DOMAIN Append(s, l) : Append(s, l)[i] = l \/ (i \in DOMAIN s /\ Append(s, l)[i] = s[i])
  <1>1. /\ DOMAIN s = 1..Len(s) /\ Len(s) \in Nat
        /\ Append(s, l) \in Seq(Lines) /\ Len(Append(s, l)) = Len(s) + 1
        /\ \A i \in 1..Len(s) : Append(s, l)[i] = s[i]
        /\ Append(s, l)[Len(s) + 1] = l
    BY LenProperties, AppendProperties
  <1>2. DOMAIN Append(s, l) = 1..(Len(s) + 1)
    BY <1>1, LenProperties
  <1> QED BY <1>1, <1>2

(* A line taken leaves the others.                                           *)
LEMMA TakenLine ==
    ASSUME NEW s \in Seq(Lines), s # <<>>
    PROVE  \A i \in DOMAIN Tail(s) : i + 1 \in DOMAIN s /\ Tail(s)[i] = s[i + 1]
  <1>1. /\ DOMAIN s = 1..Len(s) /\ Len(s) \in Nat
        /\ Tail(s) \in Seq(Lines) /\ Len(Tail(s)) = Len(s) - 1
        /\ \A i \in 1..Len(Tail(s)) : Tail(s)[i] = s[i + 1]
    BY LenProperties, HeadTailProperties
  <1>2. DOMAIN Tail(s) = 1..(Len(s) - 1)
    BY <1>1, LenProperties
  <1> QED BY <1>1, <1>2

(* Lines handed over are lines of one or the other.                          *)
LEMMA JoinedLines ==
    ASSUME NEW s \in Seq(Lines), NEW t \in Seq(Lines)
    PROVE  \A i \in DOMAIN (s \o t) :
              \/ i \in DOMAIN s /\ (s \o t)[i] = s[i]
              \/ i - Len(s) \in DOMAIN t /\ (s \o t)[i] = t[i - Len(s)]
  <1>1. /\ DOMAIN s = 1..Len(s) /\ Len(s) \in Nat /\ DOMAIN t = 1..Len(t) /\ Len(t) \in Nat
        /\ s \o t \in Seq(Lines) /\ Len(s \o t) = Len(s) + Len(t)
        /\ \A i \in 1..Len(s) + Len(t) : (s \o t)[i] = IF i <= Len(s) THEN s[i] ELSE t[i - Len(s)]
    BY LenProperties, ConcatProperties
  <1>2. DOMAIN (s \o t) = 1..(Len(s) + Len(t))
    BY <1>1, LenProperties
  <1> QED BY <1>1, <1>2

(* What a step may do to one console that was there.                         *)
Reaps(c) == c = console /\ consoles'[c] = Emptied(consoles[c]) /\ console' # c
Feeds(c) == /\ c = console /\ c = console'
            /\ SameFields(c, {"proc", "zero", "printed", "reader"})
            /\ consoles[c].cut => consoles'[c].cut
            /\ \/ SameFields(c, {"inbox", "ran", "queue"})
               \/ /\ consoles'[c].inbox # <<>> /\ SameFields(c, {"ran", "queue"})
               \/ /\ consoles[c].queue # <<>> /\ consoles'[c].queue = Tail(consoles[c].queue)
                  /\ SameFields(c, {"ran"})
                  /\ consoles'[c].inbox = consoles[c].inbox \/ consoles'[c].inbox # <<>>
Remains(queue) ==
    \/ queue = Current.queue
    \/ Current.queue # <<>> /\ queue = Tail(Current.queue)
Works(c) == Boots(c) \/ Executes(c) \/ PrintsMarker(c) \/ Halts(c) \/ Hands(c) \/ Closes(c)

(* Every step takes one of these for every console: it is left alone, reaped,
   fed or read by the foreground, or it works.  A console that is left alone
   is named by the session as before.                                        *)
LEMMA EveryConsole ==
    ASSUME SessionTypeOK, StepInv, RunningInv, SessionNext
    PROVE  /\ \A c \in DOMAIN consoles :
                 \/ consoles'[c] = consoles[c] /\ (c = console => c = console')
                 \/ Reaps(c)
                 \/ Feeds(c)
                 \/ Works(c) /\ SameFields(c, {"cut"}) /\ console' = console
           /\ \/ DOMAIN consoles' = DOMAIN consoles
              \/ Opened
  <1>0. /\ \A c \in DOMAIN consoles : RestOf(c)
        /\ Open => console \in DOMAIN consoles /\ Current = consoles[console]
        /\ console # Len(consoles) + 1
        /\ ~Open => console \notin DOMAIN consoles
    <2>1. \A c \in DOMAIN consoles : consoles[c] \in ConsoleType
      BY LenProperties DEF SessionTypeOK
    <2>2. Len(consoles) \in Nat /\ DOMAIN consoles = 1..Len(consoles)
      BY LenProperties DEF SessionTypeOK
    <2> QED BY <2>1, <2>2, CurrentIsConsole DEF RestOf, ConsoleType, SessionTypeOK, Open
  <1>1. ASSUME GaveUp
        PROVE  /\ \A c \in DOMAIN consoles :
                     \/ consoles'[c] = consoles[c] /\ (c = console => c = console')
                     \/ Reaps(c)
               /\ DOMAIN consoles' = DOMAIN consoles
    BY <1>0, <1>1 DEF GaveUp, SameBut, Reaps, Open
  <1>2. ASSUME Opened
        PROVE  \A c \in DOMAIN consoles :
                     \/ consoles'[c] = consoles[c] /\ (c = console => c = console')
                     \/ Reaps(c)
    BY <1>0, <1>2 DEF Opened, Reaps, Open
  <1>3. ASSUME NEW queue, NEW ready, Posted(queue, ready), Remains(queue)
        PROVE  /\ \A c \in DOMAIN consoles : (consoles'[c] = consoles[c] /\ c # console) \/ Feeds(c)
               /\ DOMAIN consoles' = DOMAIN consoles
    <2>1. /\ Open /\ console' = console /\ SameBut(console)
          /\ consoles'[console] = Given(Renewed(Current, queue, ready), Asked')
      BY <1>3 DEF Posted
    <2> DEFINE record == Given(Renewed(Current, queue, ready), Asked')
    <2>2. /\ Current \in ConsoleType /\ Current = consoles[console] /\ Current.inbox \in Seq(Statement)
      BY <2>1, CurrentIsConsole
    <2>3. Asked' \in 0..MaxRequests /\ counter + 1 \in Nat
      <3>1. SessionTypeOK'
        BY EveryStep
      <3> QED BY <3>1, SessionAssumption DEF SessionTypeOK, ForegroundType, Asked, Connect
    <2>4. Append(Current.inbox, [body |-> Asked', marker |-> counter + 1]) # <<>>
      <3> DEFINE statement == [body |-> Asked', marker |-> counter + 1]
      <3>1. statement \in Statement
        BY <2>3 DEF Statement
      <3> HIDE DEF statement
      <3>2. Append(Current.inbox, statement) # <<>>
        BY <2>2, <3>1, AppendProperties
      <3> QED BY <3>2 DEF statement
    <2>5. /\ record.inbox = Append(Current.inbox, [body |-> Asked', marker |-> counter + 1])
          /\ record.queue = queue
          /\ \A field \in {"proc", "zero", "printed", "reader", "ran", "cut"} : record[field] = Current[field]
      BY <2>2 DEF Given, Renewed, ConsoleType
    <2> HIDE DEF record
    <2>6. Feeds(console)
      BY <1>3, <2>1, <2>2, <2>4, <2>5 DEF Feeds, SameFields, record, Remains
    <2> QED BY <2>1, <2>6 DEF SameBut
  <1>4. ASSUME TookLine
        PROVE  /\ \A c \in DOMAIN consoles : (consoles'[c] = consoles[c] /\ c # console) \/ Feeds(c)
               /\ DOMAIN consoles' = DOMAIN consoles
    <2>1. /\ Open /\ console' = console /\ SameBut(console) /\ Current.queue # <<>>
          /\ consoles'[console] = [Current EXCEPT !.queue = Tail(Current.queue)]
      BY <1>4 DEF TookLine
    <2>2. Current \in ConsoleType /\ Current = consoles[console]
      BY <2>1, CurrentIsConsole
    <2>3. Feeds(console)
      BY <2>1, <2>2 DEF Feeds, SameFields, ConsoleType
    <2> QED BY <2>1, <2>3 DEF SameBut
  <1>5. ASSUME CutOff
        PROVE  /\ \A c \in DOMAIN consoles : (consoles'[c] = consoles[c] /\ c # console) \/ Feeds(c)
               /\ DOMAIN consoles' = DOMAIN consoles
    <2>1. /\ Open /\ console' = console /\ SameBut(console)
          /\ consoles'[console] = [Current EXCEPT !.cut = TRUE]
      BY <1>5 DEF CutOff
    <2>2. Current \in ConsoleType /\ Current = consoles[console]
      BY <2>1, CurrentIsConsole
    <2>3. Feeds(console)
      BY <2>1, <2>2 DEF Feeds, SameFields, ConsoleType
    <2> QED BY <2>1, <2>3 DEF SameBut
  <1>6. CASE ForegroundStep
    <2>1. CASE GaveUp \/ RepliedByEnding
      BY <1>1, <2>1 DEF RepliedByEnding
    <2>2. CASE Opened
      BY <1>2, <2>2
    <2>3. CASE Posted(Current.queue, Current.ready) \/ MovedOn
      <3>1. CASE Posted(Current.queue, Current.ready)
        <4>1. PICK queue, ready : Posted(queue, ready) /\ Remains(queue)
          <5> WITNESS Current.queue, Current.ready
          <5> QED BY <3>1 DEF Remains
        <4>2. /\ \A c \in DOMAIN consoles : (consoles'[c] = consoles[c] /\ c # console) \/ Feeds(c)
              /\ DOMAIN consoles' = DOMAIN consoles
          BY <1>3, <4>1
        <4> QED BY <4>2
      <3>2. CASE MovedOn
        <4>1. PICK ready \in BOOLEAN : Posted(Tail(Current.queue), ready) /\ Current.queue # <<>>
          BY <3>2 DEF MovedOn
        <4>2. Remains(Tail(Current.queue))
          BY <4>1 DEF Remains
        <4> QED BY <1>3, <4>1, <4>2
      <3> QED BY <2>3, <3>1, <3>2
    <2>4. CASE Skipped \/ Collected \/ Replied
      BY <1>4, <2>4 DEF Skipped, Collected, Replied
    <2>5. CASE CutOff
      BY <1>5, <2>5
    <2>6. CASE WroteInVain
      BY <2>6 DEF WroteInVain
    <2> QED BY <1>6, <2>1, <2>2, <2>3, <2>4, <2>5, <2>6 DEF ForegroundStep
  <1>7. CASE \E c \in DOMAIN consoles : ProcessStep(c)
    BY <1>7 DEF ProcessStep, SameBut, Works, SamePlace, SameFields
  <1> QED BY <1>6, <1>7, EveryStep

(* What runs has something to run, a console that ended says nothing more,
   and only the one the session names is alive.                              *)
LEMMA ConsolesKept ==
    ASSUME SessionTypeOK, StepInv, RunningInv, EndInv, NoOrphan, SessionNext
    PROVE  RunningInv' /\ EndInv' /\ NoOrphan'
  <1>0. /\ \A c \in DOMAIN consoles : RestOf(c)
        /\ \A c \in DOMAIN consoles' : RestOf(c)'
        /\ \A c \in DOMAIN consoles :
              \/ consoles'[c] = consoles[c] /\ (c = console => c = console')
              \/ Reaps(c)
              \/ Feeds(c)
              \/ Works(c) /\ console' = console
        /\ DOMAIN consoles' = DOMAIN consoles \/ Opened
    <2>1. SessionTypeOK'
      BY EveryStep
    <2>2. \A c \in DOMAIN consoles : consoles[c] \in ConsoleType
      BY LenProperties DEF SessionTypeOK
    <2>3. \A c \in DOMAIN consoles' : consoles'[c] \in ConsoleType
      BY <2>1, LenProperties DEF SessionTypeOK
    <2> QED BY <2>2, <2>3, EveryConsole DEF RestOf, ConsoleType
  <1> DEFINE RunningOf(c) == /\ consoles[c].ran => consoles[c].inbox # <<>>
                             /\ consoles[c].proc = "booting" => ~consoles[c].ran
                             /\ consoles[c].zero => consoles[c].proc = "ended"
             EndOf(c) == /\ \A i \in DOMAIN consoles[c].printed : consoles[c].printed[i] # Eof
                         /\ \A i \in DOMAIN consoles[c].queue :
                               consoles[c].queue[i] = Eof => consoles[c].reader # "reading"
                         /\ consoles[c].reader = "done" => ~Live(c)
             KeptOf(c) == RunningOf(c) /\ EndOf(c) /\ (Live(c) => c = console)
  <1>1. \A c \in DOMAIN consoles : KeptOf(c)
    BY DEF RunningInv, EndInv, NoOrphan
  <1>2. ASSUME NEW c \in DOMAIN consoles, c \in DOMAIN consoles' PROVE KeptOf(c)'
    <2>0. /\ RestOf(c) /\ RestOf(c)' /\ KeptOf(c)
      BY <1>0, <1>1, <1>2
    <2>1. CASE consoles'[c] = consoles[c] /\ (c = console => c = console')
      BY <2>0, <2>1 DEF Live
    <2>2. CASE Reaps(c)
      <3>1. /\ consoles'[c].proc = "ended" /\ consoles'[c].ran = FALSE /\ consoles'[c].printed = <<>>
            /\ consoles'[c].queue = consoles[c].queue /\ consoles'[c].reader = consoles[c].reader
        BY <2>0, <2>2 DEF Reaps, Emptied, RestOf, ConsoleType
      <3> QED BY <2>0, <3>1 DEF Live
    <2>3. CASE Feeds(c)
      <3>1. /\ consoles'[c].proc = consoles[c].proc /\ consoles'[c].zero = consoles[c].zero
            /\ consoles'[c].printed = consoles[c].printed /\ consoles'[c].reader = consoles[c].reader
            /\ consoles'[c].ran = consoles[c].ran
            /\ consoles'[c].inbox = consoles[c].inbox \/ consoles'[c].inbox # <<>>
            /\ \/ consoles'[c].queue = consoles[c].queue
               \/ consoles[c].queue # <<>> /\ consoles'[c].queue = Tail(consoles[c].queue)
            /\ c = console /\ c = console'
        BY <2>3 DEF Feeds, SameFields
      <3>2. RunningOf(c)'
        BY <2>0, <3>1
      <3>3. \A i \in DOMAIN consoles'[c].queue : \E j \in DOMAIN consoles[c].queue :
                consoles'[c].queue[i] = consoles[c].queue[j]
        <4>1. CASE consoles'[c].queue = consoles[c].queue
          BY <4>1
        <4>2. CASE consoles[c].queue # <<>> /\ consoles'[c].queue = Tail(consoles[c].queue)
          <5>1. consoles[c].queue \in Seq(Lines)
            BY <2>0 DEF RestOf
          <5>2. \A i \in DOMAIN Tail(consoles[c].queue) :
                   i + 1 \in DOMAIN consoles[c].queue /\ Tail(consoles[c].queue)[i] = consoles[c].queue[i + 1]
            BY <4>2, <5>1, TakenLine
          <5> QED BY <4>2, <5>2
        <4> QED BY <3>1, <4>1, <4>2
      <3>4. EndOf(c)'
        BY <2>0, <3>1, <3>3 DEF Live
      <3> QED BY <3>1, <3>2, <3>4
    <2>4. CASE Works(c) /\ console' = console
      <3>1. CASE Boots(c)
        <4>1. Prompt \in Lines /\ Prompt # Eof
          BY DEF Prompt, Lines, Eof
        <4>2. \A i \in DOMAIN consoles'[c].printed : consoles'[c].printed[i] # Eof
          BY <2>0, <3>1, <4>1, AppendedLine DEF Boots, RestOf
        <4> QED BY <2>0, <2>4, <3>1, <4>2 DEF Boots, SameFields, Live
      <3>2. CASE Executes(c)
        <4>1. PICK line \in OutputOf(Head(consoles[c].inbox).body) :
                 consoles'[c].printed = Append(consoles[c].printed, line)
          BY <3>2 DEF Executes
        <4>2. line \in Lines /\ line # Eof
          <5>1. Head(consoles[c].inbox) \in Statement
            BY <2>0, <3>2, HeadTailProperties DEF RestOf, Executes
          <5>2. Head(consoles[c].inbox).body \in Nat
            BY <5>1, SessionAssumption DEF Statement
          <5> QED BY <5>2 DEF OutputOf, Text, Refused, Lines, Eof
        <4>3. \A i \in DOMAIN consoles'[c].printed : consoles'[c].printed[i] # Eof
          BY <2>0, <4>1, <4>2, AppendedLine DEF RestOf
        <4> QED BY <2>0, <2>4, <3>2, <4>3 DEF Executes, SameFields, Live
      <3>3. CASE PrintsMarker(c)
        <4>1. MarkerLine(Head(consoles[c].inbox).marker) \in Lines
          <5>1. Head(consoles[c].inbox) \in Statement
            BY <2>0, <3>3, HeadTailProperties DEF RestOf, PrintsMarker
          <5> QED BY <5>1 DEF Statement, MarkerLine, Lines
        <4>2. MarkerLine(Head(consoles[c].inbox).marker) # Eof
          BY DEF MarkerLine, Eof
        <4>3. \A i \in DOMAIN consoles'[c].printed : consoles'[c].printed[i] # Eof
          BY <2>0, <3>3, <4>1, <4>2, AppendedLine DEF PrintsMarker, RestOf
        <4> QED BY <2>0, <2>4, <3>3, <4>3 DEF PrintsMarker, SameFields, Live
      <3>4. CASE Halts(c)
        BY <2>0, <2>4, <3>4 DEF Halts, SameFields, Live
      <3>5. CASE Hands(c)
        <4>1. \A i \in DOMAIN consoles'[c].queue : consoles'[c].queue[i] # Eof
          <5>1. consoles[c].queue \in Seq(Lines) /\ consoles[c].printed \in Seq(Lines)
            BY <2>0 DEF RestOf
          <5>2. /\ \A i \in DOMAIN consoles[c].queue : consoles[c].queue[i] # Eof
                /\ \A i \in DOMAIN consoles[c].printed : consoles[c].printed[i] # Eof
            BY <2>0, <3>5 DEF Hands
          <5>3. consoles'[c].queue = consoles[c].queue \o consoles[c].printed
            BY <3>5 DEF Hands
          <5> DEFINE q == consoles[c].queue p == consoles[c].printed
          <5>4. \A i \in DOMAIN (q \o p) :
                   \/ i \in DOMAIN q /\ (q \o p)[i] = q[i]
                   \/ i - Len(q) \in DOMAIN p /\ (q \o p)[i] = p[i - Len(q)]
            BY <5>1, JoinedLines
          <5>5. \A i \in DOMAIN (q \o p) : (q \o p)[i] # Eof
            BY <5>2, <5>4
          <5> QED BY <5>3, <5>5
        <4>2. /\ consoles'[c].proc = consoles[c].proc /\ consoles'[c].zero = consoles[c].zero
              /\ consoles'[c].ran = consoles[c].ran /\ consoles'[c].inbox = consoles[c].inbox
              /\ consoles'[c].reader = consoles[c].reader /\ consoles'[c].printed = <<>>
          BY <3>5 DEF Hands, SameFields
        <4>3. RunningOf(c)' /\ (Live(c) => c = console)'
          BY <2>0, <2>4, <4>2 DEF Live
        <4>4. EndOf(c)'
          BY <2>0, <4>1, <4>2 DEF Live
        <4> QED BY <4>3, <4>4
      <3>6. CASE Closes(c)
        BY <2>0, <2>4, <3>6 DEF Closes, SameFields, Live
      <3> QED BY <2>4, <3>1, <3>2, <3>3, <3>4, <3>5, <3>6 DEF Works
    <2> QED BY <1>0, <2>1, <2>2, <2>3, <2>4
  <1>3. ASSUME Opened, NEW c \in DOMAIN consoles', c = console' PROVE KeptOf(c)'
    <2>1. PICK root \in Roots : consoles'[c] = NewConsole(root)
      BY <1>3 DEF Opened
    <2>2. /\ consoles'[c].ran = FALSE /\ consoles'[c].printed = <<>>
          /\ consoles'[c].queue = <<>> /\ consoles'[c].reader = "reading"
          /\ consoles'[c].zero = FALSE
      BY <2>1 DEF NewConsole, FreshQueue
    <2> QED BY <1>3, <2>2
  <1>4. ASSUME NEW c \in DOMAIN consoles' PROVE KeptOf(c)'
    <2>1. CASE c \in DOMAIN consoles
      BY <1>2, <2>1
    <2>2. CASE c \notin DOMAIN consoles
      <3>1. Opened /\ c = console'
        BY <1>0, <2>2 DEF Opened
      <3> QED BY <1>3, <3>1
    <2> QED BY <2>1, <2>2
  <1> QED BY <1>4 DEF RunningInv, EndInv, NoOrphan

-----------------------------------------------------------------------------
(* The lines still to be read of the console a session names.                *)

(* A process that speaks, and a reader that hands over or reports the end.    *)
LEMMA StillToRead ==
    ASSUME SessionTypeOK, SessionTypeOK', Open, console' = console
    PROVE  /\ ToRead(console) \in Seq(Lines) /\ ToRead(console)' \in Seq(Lines)
           /\ \A line \in Lines :
                 consoles'[console].printed = Append(Current.printed, line)
                 /\ consoles'[console].queue = Current.queue
                    => ToRead(console)' = Append(ToRead(console), line)
           /\ consoles'[console].printed = Current.printed /\ consoles'[console].queue = Current.queue
              => ToRead(console)' = ToRead(console)
           /\ Hands(console) => ToRead(console)' = ToRead(console)
           /\ Closes(console) /\ Current.printed = <<>>
              => ToRead(console)' = Append(ToRead(console), Eof)
  <1> DEFINE q == Current.queue p == Current.printed
  <1>1. q \in Seq(Lines) /\ p \in Seq(Lines) /\ consoles[console] = Current
    BY CurrentIsConsole
  <1>2. consoles'[console].queue \in Seq(Lines) /\ consoles'[console].printed \in Seq(Lines)
    <2>1. console \in DOMAIN consoles'
      BY LenProperties DEF SessionTypeOK, Open
    <2>2. consoles'[console] \in ConsoleType
      BY <2>1, LenProperties DEF SessionTypeOK
    <2> QED BY <2>2 DEF ConsoleType
  <1>3. /\ ToRead(console) = q \o p
        /\ ToRead(console)' = consoles'[console].queue \o consoles'[console].printed
    BY <1>1 DEF ToRead
  <1>4. ToRead(console) \in Seq(Lines) /\ ToRead(console)' \in Seq(Lines)
    BY <1>1, <1>2, <1>3, ConcatProperties
  <1> HIDE DEF q, p
  <1>5. ASSUME NEW line \in Lines, consoles'[console].printed = Append(p, line),
               consoles'[console].queue = q
        PROVE  ToRead(console)' = Append(ToRead(console), line)
    BY <1>1, <1>3, <1>5, LastOfAll
  <1>6. ASSUME consoles'[console].printed = p, consoles'[console].queue = q
        PROVE  ToRead(console)' = ToRead(console)
    BY <1>3, <1>6
  <1>7. ASSUME Hands(console) PROVE ToRead(console)' = ToRead(console)
    <2>1. consoles'[console].queue = q \o p /\ consoles'[console].printed = <<>>
      BY <1>1, <1>7 DEF Hands, q, p
    <2>2. q \o p \in Seq(Lines)
      BY <1>1, ConcatProperties
    <2>3. (q \o p) \o <<>> = q \o p
      BY <2>2, ConcatEmptySeq
    <2> QED BY <1>3, <2>1, <2>3
  <1>8. ASSUME Closes(console), p = <<>> PROVE ToRead(console)' = Append(ToRead(console), Eof)
    <2>1. consoles'[console].queue = Append(q, Eof) /\ consoles'[console].printed = <<>>
      BY <1>1, <1>8 DEF Closes, SameFields, q, p
    <2>2. Eof \in Lines
      BY DEF Eof, Lines
    <2>3. Append(q, Eof) \in Seq(Lines)
      BY <1>1, <2>2, AppendProperties
    <2>4. Append(q, Eof) \o <<>> = Append(q, Eof) /\ q \o <<>> = q
      BY <1>1, <2>3, ConcatEmptySeq
    <2> QED BY <1>3, <1>8, <2>1, <2>4
  <1> QED BY <1>4, <1>5, <1>6, <1>7, <1>8 DEF q, p

(* A line that is taken was the first to be read.                            *)
LEMMA FirstToRead ==
    ASSUME SessionTypeOK, TookLine
    PROVE  /\ ToRead(console) \in Seq(Lines) /\ ToRead(console) # <<>>
           /\ Line = ToRead(console)[1] /\ Line = Head(ToRead(console)) /\ Line \in Lines
           /\ ToRead(console)' = Tail(ToRead(console))
           /\ console' = console /\ Open /\ Open' /\ counter' = counter /\ transport' = transport
           /\ \A field \in {"proc", "zero", "inbox", "ran", "printed", "reader", "cut"} :
                 Current'[field] = Current[field]
  <1> DEFINE q == Current.queue p == Current.printed
  <1>1. /\ Open /\ console' = console /\ q # <<>> /\ counter' = counter /\ transport' = transport
        /\ consoles'[console] = [Current EXCEPT !.queue = Tail(q)]
    BY DEF TookLine
  <1>2. q \in Seq(Lines) /\ p \in Seq(Lines) /\ consoles[console] = Current /\ Current \in ConsoleType
    BY <1>1, CurrentIsConsole
  <1>3. /\ consoles'[console].queue = Tail(q) /\ consoles'[console].printed = p
        /\ \A field \in {"proc", "zero", "inbox", "ran", "printed", "reader", "cut"} :
              consoles'[console][field] = Current[field]
    BY <1>1, <1>2 DEF ConsoleType
  <1>4. ToRead(console) = q \o p /\ ToRead(console)' = Tail(q) \o p
    BY <1>1, <1>2, <1>3 DEF ToRead
  <1>5. Line = Head(q) /\ Line \in Lines
    BY <1>1, <1>2, HeadTailProperties DEF Line
  <1> HIDE DEF q, p
  <1>6. q \o p \in Seq(Lines)
    BY <1>2, ConcatProperties
  <1>7. /\ q \o p # <<>> /\ Head(q \o p) = Head(q) /\ Tail(q) \o p = Tail(q \o p)
        /\ Head(q) = (q \o p)[1]
    BY <1>1, <1>2, FirstOfAll
  <1> QED BY <1>1, <1>3, <1>4, <1>5, <1>6, <1>7 DEF Current, Open

(* What garbles the output of a console garbles it for good.                 *)
LEMMA GarbledForGood ==
    ASSUME SessionTypeOK, StepInv, RunningInv, SessionNext, Garbled
    PROVE  Garbled'
  <1>1. PICK c \in DOMAIN consoles : consoles[c].reader = "failed" \/ consoles[c].zero
    BY DEF Garbled
  <1>2. c \in DOMAIN consoles'
    BY EveryConsole DEF Opened
  <1>3. consoles[c] \in ConsoleType
    BY LenProperties DEF SessionTypeOK
  <1>4. consoles'[c].reader = "failed" \/ consoles'[c].zero
    <2>1. CASE consoles'[c] = consoles[c]
      BY <1>1, <2>1
    <2>2. CASE Reaps(c)
      BY <1>1, <1>3, <2>2 DEF Reaps, Emptied, ConsoleType
    <2>3. CASE Feeds(c)
      BY <1>1, <2>3 DEF Feeds, SameFields
    <2>4. CASE Works(c)
      BY <1>1, <2>4 DEF Works, Boots, Executes, PrintsMarker, Halts, Hands, Closes, SameFields,
         RunningInv, Live
    <2> QED BY <2>1, <2>2, <2>3, <2>4, EveryConsole
  <1> QED BY <1>2, <1>4 DEF Garbled

-----------------------------------------------------------------------------
(* The marker a wait is for comes behind the output of its own statement.    *)
MarkerOrder == ~Garbled => MarkersInv /\ PromptInv /\ MarkerInv

(* What a line appended leaves, in the form the steps below need it.          *)
LEMMA AppendedFacts ==
    ASSUME NEW s \in Seq(Lines), NEW l \in Lines
    PROVE  /\ DOMAIN s = 1..Len(s) /\ Len(s) \in Nat
           /\ Append(s, l) \in Seq(Lines) /\ Len(Append(s, l)) = Len(s) + 1
           /\ DOMAIN Append(s, l) = 1..(Len(s) + 1)
           /\ \A i \in 1..Len(s) : Append(s, l)[i] = s[i]
           /\ Append(s, l)[Len(s) + 1] = l
  <1>1. Append(s, l) \in Seq(Lines) /\ Len(Append(s, l)) = Len(s) + 1
    BY AppendProperties
  <1> QED BY <1>1, AppendProperties, LenProperties

(* And an element taken.                                                     *)
LEMMA TailFacts ==
    ASSUME NEW S, NEW s \in Seq(S), s # <<>>
    PROVE  /\ DOMAIN s = 1..Len(s) /\ Len(s) \in Nat \ {0} /\ Head(s) = s[1] /\ Head(s) \in S
           /\ Tail(s) \in Seq(S) /\ Len(Tail(s)) = Len(s) - 1
           /\ DOMAIN Tail(s) = 1..(Len(s) - 1)
           /\ \A i \in 1..(Len(s) - 1) : Tail(s)[i] = s[i + 1]
  <1>1. /\ Tail(s) \in Seq(S) /\ Len(Tail(s)) = Len(s) - 1 /\ Head(s) \in S
        /\ \A i \in 1..Len(Tail(s)) : Tail(s)[i] = s[i + 1]
    BY HeadTailProperties
  <1>2. Len(s) \in Nat \ {0} /\ DOMAIN s = 1..Len(s)
    BY EmptySeq, LenProperties
  <1>3. DOMAIN Tail(s) = 1..Len(Tail(s))
    BY <1>1, LenProperties
  <1> QED BY <1>1, <1>2, <1>3

(* A statement that was posted.                                              *)
LEMMA PostedFacts ==
    ASSUME SessionTypeOK, SessionTypeOK', NEW queue, NEW ready, Posted(queue, ready), Remains(queue)
    PROVE  /\ Open /\ Open' /\ counter \in Nat /\ counter' = counter + 1 /\ fg'.got = <<>>
           /\ Exchanging' /\ ~Idle' /\ fg'.at # "prompt"
           /\ \A field \in {"proc", "zero", "ran", "printed", "reader", "cut"} :
                 Current'[field] = Current[field]
           /\ Current.inbox \in Seq(Statement) /\ DOMAIN Current.inbox = 1..Len(Current.inbox)
           /\ Len(Current.inbox) \in Nat
           /\ Current'.inbox \in Seq(Statement) /\ Len(Current'.inbox) = Len(Current.inbox) + 1
           /\ DOMAIN Current'.inbox = 1..(Len(Current.inbox) + 1)
           /\ \A i \in 1..Len(Current.inbox) : Current'.inbox[i] = Current.inbox[i]
           /\ Current'.inbox[Len(Current.inbox) + 1] = [body |-> Asked', marker |-> counter']
           /\ ToRead(console) \in Seq(Lines)
           /\ queue = Current.queue => ToRead(console)' = ToRead(console)
           /\ Current.queue # <<>> /\ queue = Tail(Current.queue) =>
                 /\ ToRead(console) # <<>> /\ Line = ToRead(console)[1]
                 /\ ToRead(console)' = Tail(ToRead(console))
  <1>1. /\ Open /\ console' = console /\ counter' = counter + 1 /\ fg'.got = <<>>
        /\ fg'.at \in Waiting \ {"prompt"}
        /\ consoles'[console] = Given(Renewed(Current, queue, ready), Asked')
    BY DEF Posted
  <1>2. /\ Current \in ConsoleType /\ Current.inbox \in Seq(Statement) /\ counter \in Nat
        /\ Current.queue \in Seq(Lines) /\ Current.printed \in Seq(Lines)
        /\ Current = consoles[console]
    BY <1>1, CurrentIsConsole DEF SessionTypeOK
  <1> DEFINE statement == [body |-> Asked', marker |-> counter + 1]
  <1>3. statement \in Statement
    <2>1. Asked' \in 0..MaxRequests
      BY SessionAssumption DEF SessionTypeOK, ForegroundType, Asked, Connect
    <2> QED BY <1>2, <2>1 DEF Statement
  <1>4. /\ Current'.inbox = Append(Current.inbox, statement)
        /\ Current'.queue = queue
        /\ \A field \in {"proc", "zero", "ran", "printed", "reader", "cut"} :
              Current'[field] = Current[field]
    BY <1>1, <1>2 DEF Given, Renewed, ConsoleType, Current
  <1>5. statement = [body |-> Asked', marker |-> counter']
    BY <1>1
  <1> HIDE DEF statement
  <1>6. /\ Append(Current.inbox, statement) \in Seq(Statement)
        /\ Len(Append(Current.inbox, statement)) = Len(Current.inbox) + 1
        /\ \A i \in 1..Len(Current.inbox) : Append(Current.inbox, statement)[i] = Current.inbox[i]
        /\ Append(Current.inbox, statement)[Len(Current.inbox) + 1] = statement
        /\ DOMAIN Current.inbox = 1..Len(Current.inbox) /\ Len(Current.inbox) \in Nat
    BY <1>2, <1>3, AppendProperties, LenProperties
  <1>7. DOMAIN Append(Current.inbox, statement) = 1..(Len(Current.inbox) + 1)
    BY <1>6, LenProperties
  <1>8. /\ ToRead(console) = Current.queue \o Current.printed
        /\ ToRead(console)' = queue \o Current.printed
        /\ ToRead(console) \in Seq(Lines)
    <2>1. ToRead(console)' = consoles'[console].queue \o consoles'[console].printed
      BY <1>1 DEF ToRead
    <2>2. consoles'[console] = Current'
      BY <1>1 DEF Current
    <2> QED BY <1>2, <1>4, <2>1, <2>2, ConcatProperties DEF ToRead
  <1>9. /\ queue = Current.queue => ToRead(console)' = ToRead(console)
        /\ Current.queue # <<>> /\ queue = Tail(Current.queue) =>
              /\ ToRead(console) # <<>> /\ Line = ToRead(console)[1]
              /\ ToRead(console)' = Tail(ToRead(console))
    <2> DEFINE q == Current.queue p == Current.printed
    <2>1. q \in Seq(Lines) /\ p \in Seq(Lines) /\ Line = Head(q)
      BY <1>2 DEF Line
    <2>2. ASSUME q # <<>>, queue = Tail(q)
          PROVE  /\ ToRead(console) # <<>> /\ Line = ToRead(console)[1]
                 /\ ToRead(console)' = Tail(ToRead(console))
      <3> HIDE DEF q, p
      <3>1. /\ q \o p # <<>> /\ Head(q \o p) = Head(q) /\ Tail(q) \o p = Tail(q \o p)
            /\ Head(q) = (q \o p)[1]
        BY <2>1, <2>2, FirstOfAll
      <3> QED BY <1>8, <2>1, <2>2, <3>1 DEF q, p
    <2> QED BY <1>8, <2>2
  <1>10. Exchanging' /\ ~Idle' /\ Open'
    BY <1>1 DEF Exchanging, Idle, Waiting, Opening, Open
  <1> QED BY <1>1, <1>2, <1>4, <1>5, <1>6, <1>7, <1>8, <1>9, <1>10

(* A new statement: its marker is younger than every other.                  *)
LEMMA MarkerOrderPosted ==
    ASSUME SessionTypeOK, SessionTypeOK', RunningInv, MarkersInv,
           NEW queue, NEW ready, Posted(queue, ready), Remains(queue)
    PROVE  MarkersInv' /\ PromptInv' /\ MarkerInv'
  <1> DEFINE S == ToRead(console)
             inbox == Current.inbox
             newer == Current'.inbox
  <1>1. /\ Open /\ Open' /\ counter \in Nat /\ counter' = counter + 1 /\ fg'.at # "prompt"
        /\ Exchanging' /\ Current'.ran = Current.ran
        /\ inbox \in Seq(Statement) /\ DOMAIN inbox = 1..Len(inbox) /\ Len(inbox) \in Nat
        /\ newer \in Seq(Statement) /\ Len(newer) = Len(inbox) + 1
        /\ DOMAIN newer = 1..(Len(inbox) + 1)
        /\ \A i \in 1..Len(inbox) : newer[i] = inbox[i]
        /\ newer[Len(inbox) + 1] = [body |-> Asked', marker |-> counter']
        /\ S \in Seq(Lines)
        /\ \/ S' = S
           \/ S # <<>> /\ S' = Tail(S)
    BY PostedFacts DEF Remains
  <1>2. /\ \A i \in DOMAIN inbox : inbox[i].marker <= counter
        /\ \A i \in DOMAIN S : S[i].kind = "marker" => S[i].of <= counter
    BY <1>1 DEF MarkersInv
  <1>3. Current.ran => inbox # <<>>
    <2>1. console \in DOMAIN consoles /\ Current = consoles[console]
      BY <1>1, CurrentIsConsole
    <2> QED BY <2>1 DEF RunningInv
  <1>4. ASSUME NEW i \in DOMAIN S' PROVE \E j \in DOMAIN S : S'[i] = S[j]
    <2>1. CASE S' = S
      BY <2>1
    <2>2. CASE S # <<>> /\ S' = Tail(S)
      <3> HIDE DEF S
      <3>1. /\ DOMAIN S = 1..Len(S) /\ Len(S) \in Nat \ {0}
            /\ DOMAIN Tail(S) = 1..(Len(S) - 1)
            /\ \A k \in 1..(Len(S) - 1) : Tail(S)[k] = S[k + 1]
        BY <1>1, <2>2, TailFacts
      <3>2. i + 1 \in DOMAIN S /\ S'[i] = S[i + 1]
        BY <2>2, <3>1
      <3> QED BY <3>2
    <2> QED BY <1>1, <2>1, <2>2
  <1> HIDE DEF S, inbox, newer
  <1>5. \A i \in DOMAIN inbox : inbox[i].marker \in Nat
    <2>1. \A i \in DOMAIN inbox : inbox[i] \in Statement
      BY <1>1, ElementOfSeq
    <2> QED BY <2>1 DEF Statement
  <1>6. \A i \in DOMAIN S' : S'[i].kind = "marker" => S'[i].of <= counter
    BY <1>2, <1>4
  <1>7. \A i \in DOMAIN S' : S'[i] # MarkerLine(counter')
    <2> SUFFICES ASSUME NEW i \in DOMAIN S', S'[i] = MarkerLine(counter') PROVE FALSE
      OBVIOUS
    <2>1. S'[i].kind = "marker" /\ S'[i].of = counter'
      BY DEF MarkerLine
    <2> QED BY <1>1, <1>6, <2>1
  <1>8. \A i \in DOMAIN newer : newer[i].marker <= counter' /\ (newer[i].marker = counter' => newer[i].body = Asked')
    <2> SUFFICES ASSUME NEW i \in 1..(Len(inbox) + 1)
                 PROVE  newer[i].marker <= counter' /\ (newer[i].marker = counter' => newer[i].body = Asked')
      BY <1>1
    <2>1. CASE i \in 1..Len(inbox)
      BY <1>1, <1>2, <1>5, <2>1
    <2>2. CASE i = Len(inbox) + 1
      BY <1>1, <2>2
    <2> QED BY <1>1, <2>1, <2>2
  <1>9. Current.ran => Head(newer).marker # counter'
    <2> SUFFICES ASSUME Current.ran PROVE Head(newer).marker # counter'
      OBVIOUS
    <2>1. Len(inbox) # 0
      BY <1>1, <1>3, EmptySeq
    <2>2. newer # <<>> /\ Head(newer) = newer[1]
      BY <1>1, EmptySeq
    <2>3. Head(newer) = inbox[1] /\ 1 \in DOMAIN inbox
      BY <1>1, <2>1, <2>2
    <2> QED BY <1>1, <1>2, <1>5, <2>3
  <1>10. MarkersInv'
    <2>1. counter' \in Nat /\ counter <= counter'
      BY <1>1
    <2>2. \A i \in DOMAIN S' : S'[i].kind = "marker" => S'[i].of <= counter'
      <3>1. \A i \in DOMAIN S' : S'[i] \in Lines
        BY <1>1, <1>4, ElementOfSeq, LenProperties
      <3> QED BY <1>1, <1>6, <2>1, <3>1 DEF Lines
    <2> QED BY <1>8, <2>2 DEF MarkersInv, S, newer
  <1>11. PromptInv'
    BY <1>1 DEF PromptInv
  <1>12. MarkerInv'
    BY <1>1, <1>7, <1>8, <1>9 DEF MarkerInv, S, newer
  <1> QED BY <1>10, <1>11, <1>12

(* A line taken: what was before a line is still before it.                  *)
LEMMA MarkerOrderTaken ==
    ASSUME SessionTypeOK, StepInv, MarkersInv, PromptInv, MarkerInv, TookLine,
           Skipped \/ Collected \/ (Replied /\ fg'.at = "idle")
    PROVE  MarkersInv' /\ PromptInv' /\ MarkerInv'
  <1> DEFINE S == ToRead(console)
  <1>1. /\ S \in Seq(Lines) /\ S # <<>> /\ Line = S[1] /\ Line \in Lines /\ S' = Tail(S)
        /\ console' = console /\ Open /\ Open' /\ counter' = counter /\ transport' = transport
        /\ \A field \in {"proc", "zero", "inbox", "ran", "printed", "reader", "cut"} :
              Current'[field] = Current[field]
    BY FirstToRead
  <1> HIDE DEF S
  <1>2. /\ DOMAIN S = 1..Len(S) /\ Len(S) \in Nat \ {0} /\ Len(Tail(S)) = Len(S) - 1
        /\ DOMAIN Tail(S) = 1..(Len(S) - 1)
        /\ \A i \in 1..(Len(S) - 1) : Tail(S)[i] = S[i + 1]
    BY <1>1, TailFacts
  <1>3. Live(console)' = Live(console)
    BY <1>1 DEF Live, Current
  <1>4. MarkersInv'
    <2>1. \A i \in DOMAIN S' : S'[i].kind = "marker" => S'[i].of <= counter
      BY <1>1, <1>2 DEF MarkersInv, S
    <2> QED BY <1>1, <2>1 DEF MarkersInv, S
  <1>5. PromptInv'
    <2>1. fg'.at = "prompt" => fg.at = "prompt"
      BY DEF Skipped, Collected, Replied, Exchanging, StepInv, Waiting, Opening, SessionTypeOK, ForegroundType
    <2> QED BY <1>1, <2>1 DEF PromptInv
  <1>6. MarkerInv'
    <2> SUFFICES ASSUME Exchanging' PROVE MarkerInv'
      BY DEF MarkerInv
    <2>1. Collected /\ Exchanging
      BY DEF Exchanging, Skipped, Replied, Waiting, Opening, Collected
    <2>2. /\ fg.got \in Seq(Lines) /\ fg \in ForegroundType
      BY DEF SessionTypeOK, ForegroundType
    <2>3. /\ Append(fg.got, Line) \in Seq(Lines) /\ Len(Append(fg.got, Line)) = Len(fg.got) + 1
          /\ Append(fg.got, Line)[Len(fg.got) + 1] = Line /\ Append(fg.got, Line) # <<>>
      BY <1>1, <2>2, AppendProperties
    <2>4. /\ Asked' = Asked
          /\ Line.kind \in {"text", "refused"} => fg'.got = Append(fg.got, Line)
      BY <2>1, <2>2 DEF Collected, Asked, ForegroundType
    <2>5. OutputOf(Asked)' = OutputOf(Asked)
      BY <1>1, <2>4 DEF OutputOf
    <2>6. ASSUME NEW i \in Nat \ {0}, Before(i + 1), i <= Len(S) PROVE Before(i)'
      <3>1. S[i] \in OutputOf(Asked)
        BY <2>6 DEF Before, S
      <3>2. CASE i = 1
        <4>1. Line.kind \in {"text", "refused"}
          BY <1>1, <3>1, <3>2 DEF OutputOf, Text, Refused
        <4>2. fg'.got # <<>> /\ fg'.got[Len(fg'.got)] = Line
          BY <2>3, <2>4, <4>1
        <4> QED BY <1>1, <2>5, <3>1, <3>2, <4>2 DEF Before
      <3>3. CASE i # 1
        <4>1. S'[i - 1] = S[i]
          BY <1>1, <1>2, <2>6, <3>3
        <4> QED BY <2>5, <3>1, <3>3, <4>1 DEF Before, S
      <3> QED BY <3>2, <3>3
    <2>7. \A i \in DOMAIN Current'.inbox : Current'.inbox[i].marker = counter' => Current'.inbox[i].body = Asked'
      BY <1>1, <2>1, <2>4 DEF MarkerInv
    <2>8. (Current.ran /\ Live(console) /\ Head(Current.inbox).marker = counter)' => OutputIsLast'
      <3> SUFFICES ASSUME (Current.ran /\ Live(console) /\ Head(Current.inbox).marker = counter)'
                   PROVE  OutputIsLast'
        OBVIOUS
      <3>1. Before(Len(S) + 1)
        BY <1>1, <1>3, <2>1 DEF MarkerInv, S, OutputIsLast
      <3>2. PICK n \in Nat : n = Len(S) /\ n # 0
        BY <1>2
      <3>3. Before(n)'
        BY <1>2, <2>6, <3>1, <3>2
      <3>4. n = Len(S') + 1
        BY <1>1, <1>2, <3>2
      <3> QED BY <3>3, <3>4 DEF OutputIsLast, S
    <2>9. \A i \in DOMAIN S' : S'[i] = MarkerLine(counter') => Before(i)'
      <3> SUFFICES ASSUME NEW i \in 1..(Len(S) - 1), S'[i] = MarkerLine(counter) PROVE Before(i)'
        BY <1>1, <1>2
      <3>1. i + 1 \in DOMAIN S /\ S[i + 1] = MarkerLine(counter)
        BY <1>1, <1>2
      <3>2. Before(i + 1)
        BY <2>1, <3>1 DEF MarkerInv, S
      <3> QED BY <1>2, <2>6, <3>2
    <2> QED BY <2>7, <2>8, <2>9 DEF MarkerInv, S
  <1> QED BY <1>4, <1>5, <1>6

(* A process that works, and the reader of its output.                       *)
LEMMA MarkerOrderWorked ==
    ASSUME SessionTypeOK, SessionTypeOK', StepInv, RunningInv, MarkersInv, PromptInv, MarkerInv, Open,
           NEW c \in DOMAIN consoles, ProcessStep(c), consoles'[c].reader # "failed"
    PROVE  MarkersInv' /\ PromptInv' /\ MarkerInv'
  <1> DEFINE S == ToRead(console)
  <1>0. /\ transport' = transport /\ console' = console /\ counter' = counter /\ fg' = fg
        /\ Open' /\ SameBut(c)
        /\ console \in DOMAIN consoles /\ Current = consoles[console] /\ Current' = consoles'[console]
    BY CurrentIsConsole DEF ProcessStep, SamePlace, Open, Current
  <1>1. Asked' = Asked /\ OutputOf(Asked)' = OutputOf(Asked) /\ Exchanging' = Exchanging /\ fg'.got = fg.got
    BY <1>0 DEF Asked, OutputOf, Exchanging
  <1>2. ASSUME S' = S, SameFields(console, {"inbox"}),
               consoles'[console].ran = consoles[console].ran,
               Live(console)' => Live(console)
        PROVE  MarkersInv' /\ PromptInv' /\ MarkerInv'
    <2>1. Current'.inbox = Current.inbox /\ Current'.ran = Current.ran
      BY <1>0, <1>2 DEF SameFields
    <2>2. \A i \in Nat : Before(i)' = Before(i)
      BY <1>0, <1>1, <1>2 DEF Before, S
    <2>3. /\ OutputIsLast' = OutputIsLast
          /\ S \in Seq(Lines)
      BY <1>0, <1>1, <1>2, StillToRead DEF Before, OutputIsLast, S
    <2>4. \A i \in DOMAIN S : i \in Nat
      BY <2>3, LenProperties
    <2> HIDE DEF S
    <2>5. MarkersInv' /\ PromptInv'
      BY <1>0, <1>2, <2>1 DEF MarkersInv, PromptInv, S
    <2>6. MarkerInv'
      BY <1>0, <1>1, <1>2, <2>1, <2>2, <2>3, <2>4 DEF MarkerInv, S
    <2> QED BY <2>5, <2>6
  <1>3. ASSUME NEW line \in Lines, S' = Append(S, line),
               line.kind = "marker" => line.of <= counter,
               \A i \in DOMAIN Current'.inbox : \E j \in DOMAIN Current.inbox :
                     Current'.inbox[i] = Current.inbox[j],
               fg.at = "prompt" => Current'.inbox = <<>> /\ Current'.ran = FALSE,
               Exchanging => /\ line = MarkerLine(counter) => OutputIsLast
                             /\ Current'.ran /\ Live(console)' /\ Head(Current'.inbox).marker = counter
                                   => line \in OutputOf(Asked)
        PROVE  MarkersInv' /\ PromptInv' /\ MarkerInv'
    <2>1. S \in Seq(Lines)
      BY <1>0, StillToRead
    <2> HIDE DEF S
    <2>2. /\ DOMAIN S = 1..Len(S) /\ Len(S) \in Nat /\ Len(S') = Len(S) + 1
          /\ DOMAIN S' = 1..(Len(S) + 1)
          /\ \A i \in 1..Len(S) : S'[i] = S[i]
          /\ S'[Len(S) + 1] = line
      BY <1>3, <2>1, AppendedFacts
    <2>3. \A i \in 1..(Len(S) + 1) : Before(i)' = Before(i)
      BY <1>0, <1>1, <2>2 DEF Before, S
    <2>4. MarkersInv'
      <3>1. \A i \in DOMAIN S' : S'[i].kind = "marker" => S'[i].of <= counter
        BY <1>3, <2>2 DEF MarkersInv, S
      <3>2. \A i \in DOMAIN Current'.inbox : Current'.inbox[i].marker <= counter
        BY <1>3 DEF MarkersInv
      <3> QED BY <1>0, <3>1, <3>2 DEF MarkersInv, S
    <2>5. PromptInv'
      BY <1>0, <1>3 DEF PromptInv
    <2>6. MarkerInv'
      <3> SUFFICES ASSUME Exchanging PROVE MarkerInv'
        BY <1>1 DEF MarkerInv
      <3>1. \A i \in DOMAIN Current'.inbox : Current'.inbox[i].marker = counter' => Current'.inbox[i].body = Asked'
        BY <1>0, <1>1, <1>3 DEF MarkerInv
      <3>2. (Current.ran /\ Live(console) /\ Head(Current.inbox).marker = counter)' => OutputIsLast'
        <4> SUFFICES ASSUME (Current.ran /\ Live(console) /\ Head(Current.inbox).marker = counter)'
                     PROVE  OutputIsLast'
          OBVIOUS
        <4>1. line \in OutputOf(Asked)
          BY <1>0, <1>3
        <4>2. S'[Len(S) + 1] \in OutputOf(Asked)' /\ Len(S') + 1 # 1 /\ Len(S') + 1 - 1 = Len(S) + 1
          BY <1>1, <2>2, <4>1
        <4> QED BY <4>2 DEF OutputIsLast, Before, S
      <3>3. \A i \in DOMAIN S' : S'[i] = MarkerLine(counter') => Before(i)'
        <4> SUFFICES ASSUME NEW i \in 1..(Len(S) + 1), S'[i] = MarkerLine(counter) PROVE Before(i)
          BY <1>0, <2>2, <2>3
        <4>1. CASE i = Len(S) + 1
          BY <1>3, <2>2, <4>1 DEF OutputIsLast, S
        <4>2. CASE i \in 1..Len(S)
          BY <2>2, <4>2 DEF MarkerInv, S
        <4> QED BY <2>2, <4>1, <4>2
      <3> QED BY <3>1, <3>2, <3>3 DEF MarkerInv, S
    <2> QED BY <2>4, <2>5, <2>6
  <1>4. CASE c # console
    <2>1. consoles'[console] = consoles[console]
      BY <1>0, <1>4 DEF SameBut
    <2>2. S' = S /\ (Live(console)' => Live(console))
      BY <1>0, <2>1 DEF ToRead, Live
    <2> QED BY <1>2, <2>1, <2>2 DEF SameFields
  <1>5. CASE c = console
    <2>0. /\ Current.ran => Current.inbox # <<>>
          /\ Current.proc = "booting" => ~Current.ran
          /\ Current.inbox \in Seq(Statement) /\ S \in Seq(Lines) /\ counter \in Nat
      BY <1>0, CurrentIsConsole, StillToRead DEF RunningInv, SessionTypeOK
    <2>1. CASE Boots(c)
      <3>1. Prompt \in Lines /\ Prompt.kind # "marker" /\ Prompt # MarkerLine(counter)
        BY DEF Prompt, Lines, MarkerLine
      <3>2. S' = Append(S, Prompt)
        BY <1>0, <1>5, <2>1, <3>1, StillToRead DEF Boots, SameFields
      <3>3. Current'.inbox = Current.inbox /\ Current'.ran = Current.ran /\ ~Current'.ran
        BY <1>0, <1>5, <2>0, <2>1 DEF Boots, SameFields
      <3> QED BY <1>0, <1>3, <3>1, <3>2, <3>3 DEF PromptInv
    <2>2. CASE Executes(c)
      <3>1. PICK line \in OutputOf(Head(Current.inbox).body) :
               consoles'[console].printed = Append(Current.printed, line)
        BY <1>0, <1>5, <2>2 DEF Executes
      <3>2. /\ Current.inbox # <<>> /\ Current'.inbox = Current.inbox
            /\ consoles'[console].queue = Current.queue
        BY <1>0, <1>5, <2>2 DEF Executes, SameFields
      <3>3. Head(Current.inbox) \in Statement /\ Head(Current.inbox) = Current.inbox[1]
            /\ 1 \in DOMAIN Current.inbox
        BY <2>0, <3>2, TailFacts
      <3>4. line \in Lines /\ line.kind # "marker" /\ line # MarkerLine(counter)
        <4>1. Head(Current.inbox).body \in Nat
          BY <3>3, SessionAssumption DEF Statement
        <4> QED BY <3>1, <4>1 DEF OutputOf, Text, Refused, Lines, MarkerLine
      <3>5. S' = Append(S, line)
        BY <1>0, <3>1, <3>2, <3>4, StillToRead
      <3>6. Exchanging /\ Head(Current.inbox).marker = counter => line \in OutputOf(Asked)
        BY <3>1, <3>3 DEF MarkerInv
      <3> QED BY <1>0, <1>3, <3>2, <3>4, <3>5, <3>6 DEF PromptInv
    <2>3. CASE PrintsMarker(c)
      <3> DEFINE line == MarkerLine(Head(Current.inbox).marker)
      <3>1. /\ Current.ran /\ ~Current'.ran /\ Current.inbox # <<>> /\ Live(console)
            /\ Current'.inbox = Tail(Current.inbox) /\ consoles'[console].queue = Current.queue
            /\ consoles'[console].printed = Append(Current.printed, line)
        BY <1>0, <1>5, <2>0, <2>3 DEF PrintsMarker, SameFields, Live
      <3>2. /\ Head(Current.inbox) \in Statement /\ Head(Current.inbox) = Current.inbox[1]
            /\ 1 \in DOMAIN Current.inbox
            /\ \A i \in DOMAIN Tail(Current.inbox) :
                  i + 1 \in DOMAIN Current.inbox /\ Tail(Current.inbox)[i] = Current.inbox[i + 1]
        BY <2>0, <3>1, TailFacts
      <3>3. /\ line \in Lines /\ line.of = Head(Current.inbox).marker
            /\ line = MarkerLine(counter) => Head(Current.inbox).marker = counter
        BY <3>2 DEF Statement, MarkerLine, Lines
      <3>4. S' = Append(S, line)
        BY <1>0, <3>1, <3>3, StillToRead
      <3>5. line.of <= counter
        BY <3>2, <3>3 DEF MarkersInv
      <3>6. \A i \in DOMAIN Current'.inbox : \E j \in DOMAIN Current.inbox :
                Current'.inbox[i] = Current.inbox[j]
        BY <3>1, <3>2
      <3>7. fg.at # "prompt"
        BY <3>1 DEF PromptInv
      <3>8. Exchanging /\ line = MarkerLine(counter) => OutputIsLast
        BY <3>1, <3>3 DEF MarkerInv
      <3> HIDE DEF line
      <3> QED BY <1>3, <3>1, <3>3, <3>4, <3>5, <3>6, <3>7, <3>8
    <2>4. CASE Halts(c)
      <3>1. S' = S /\ SameFields(console, {"inbox"}) /\ consoles'[console].ran = consoles[console].ran
            /\ ~Live(console)'
        BY <1>0, <1>5, <2>4, StillToRead DEF Halts, SameFields, Live
      <3> QED BY <1>2, <3>1
    <2>5. CASE Hands(c)
      <3>1. S' = S /\ SameFields(console, {"inbox"}) /\ consoles'[console].ran = consoles[console].ran
            /\ (Live(console)' => Live(console))
        BY <1>0, <1>5, <2>5, StillToRead DEF Hands, SameFields, Live
      <3> QED BY <1>2, <3>1
    <2>6. CASE Closes(c)
      <3>1. /\ ~Live(console) /\ Current.printed = <<>> /\ Current'.inbox = Current.inbox
            /\ Current'.ran = Current.ran /\ ~Live(console)'
        BY <1>0, <1>5, <2>6 DEF Closes, SameFields, Live
      <3>2. S' = Append(S, Eof)
        BY <1>0, <1>5, <2>6, <3>1, StillToRead
      <3>3. Eof \in Lines /\ Eof.kind # "marker" /\ Eof # MarkerLine(counter)
        BY DEF Eof, Lines, MarkerLine
      <3> QED BY <1>0, <1>3, <3>1, <3>2, <3>3 DEF PromptInv
    <2> QED BY <1>5, <2>1, <2>2, <2>3, <2>4, <2>5, <2>6 DEF ProcessStep
  <1> QED BY <1>4, <1>5

(* The order of the markers is kept by every step.                           *)
LEMMA MarkerOrderKept ==
    ASSUME SessionTypeOK, StepInv, RunningInv, MarkerOrder, SessionNext
    PROVE  MarkerOrder'
  <1> SUFFICES ASSUME ~Garbled' PROVE MarkersInv' /\ PromptInv' /\ MarkerInv'
    BY DEF MarkerOrder
  <1>1. MarkersInv /\ PromptInv /\ MarkerInv
    BY GarbledForGood DEF MarkerOrder
  <1>2. /\ SessionTypeOK' /\ StepInv'
        /\ \/ ForegroundStep
           \/ NothingAnswered /\ \E c \in DOMAIN consoles : ProcessStep(c)
    BY EveryStep
  <1>3. CASE GaveUp
    <2>1. ~Open' /\ fg'.at = "idle"
      BY <1>3 DEF GaveUp, Open
    <2> QED BY <2>1 DEF MarkersInv, PromptInv, MarkerInv, Exchanging, Waiting, Opening
  <1>4. CASE Opened
    <2>1. /\ fg'.at = "prompt" /\ Current'.inbox = <<>> /\ Current'.ran = FALSE
          /\ consoles'[console'].queue = <<>> /\ consoles'[console'].printed = <<>>
      BY <1>4 DEF Opened, NewConsole, FreshQueue, Current
    <2>2. ToRead(console)' = <<>> \o <<>>
      BY <2>1 DEF ToRead
    <2>3. <<>> \o <<>> = <<>>
      <3>1. <<>> \in Seq(Lines)
        BY EmptySeq
      <3> QED BY <3>1, ConcatEmptySeq
    <2>4. \A i \in DOMAIN ToRead(console)' : FALSE
      BY <2>2, <2>3
    <2> QED BY <2>1, <2>4 DEF MarkersInv, PromptInv, MarkerInv, Exchanging, Waiting, Opening
  <1>5. CASE Posted(Current.queue, Current.ready) \/ MovedOn
    <2>1. PICK queue, ready : Posted(queue, ready) /\ Remains(queue)
      <3>1. CASE Posted(Current.queue, Current.ready)
        <4> WITNESS Current.queue, Current.ready
        <4> QED BY <3>1 DEF Remains
      <3>2. CASE MovedOn
        BY <3>2 DEF Remains, MovedOn
      <3> QED BY <1>5, <3>1, <3>2
    <2> QED BY <1>1, <1>2, <2>1, MarkerOrderPosted
  <1>6. CASE WroteInVain \/ CutOff
    <2>1. /\ fg'.at = "idle" /\ Open /\ console' = console /\ counter <= counter'
          /\ counter \in Nat /\ counter' \in Nat
      BY <1>6, <1>2 DEF WroteInVain, CutOff, SessionTypeOK
    <2>2. /\ Current = consoles[console] /\ Current' = consoles'[console] /\ Current \in ConsoleType
          /\ Current.inbox \in Seq(Statement)
      BY <2>1, CurrentIsConsole DEF Current
    <2>3. /\ Current'.inbox = Current.inbox /\ consoles'[console].queue = consoles[console].queue
          /\ consoles'[console].printed = consoles[console].printed
      BY <1>6, <2>2 DEF WroteInVain, CutOff, ConsoleType
    <2>4. ToRead(console)' = ToRead(console)
      BY <2>1, <2>3 DEF ToRead
    <2>5. ToRead(console) \in Seq(Lines)
      BY <1>2, <2>1, StillToRead
    <2>6. /\ \A i \in DOMAIN Current.inbox : Current.inbox[i].marker <= counter'
          /\ \A i \in DOMAIN ToRead(console) :
                ToRead(console)[i].kind = "marker" => ToRead(console)[i].of <= counter'
      <3>1. \A i \in DOMAIN Current.inbox : Current.inbox[i].marker \in Nat
        <4>1. \A i \in DOMAIN Current.inbox : Current.inbox[i] \in Statement
          BY <2>2, ElementOfSeq, LenProperties
        <4> QED BY <4>1 DEF Statement
      <3>2. \A i \in DOMAIN ToRead(console) : ToRead(console)[i].of \in Nat
        <4>1. \A i \in DOMAIN ToRead(console) : ToRead(console)[i] \in Lines
          BY <2>5, ElementOfSeq, LenProperties
        <4> QED BY <4>1 DEF Lines
      <3> QED BY <1>1, <2>1, <3>1, <3>2 DEF MarkersInv
    <2>7. MarkersInv'
      BY <2>3, <2>4, <2>6 DEF MarkersInv
    <2> QED BY <2>1, <2>7 DEF PromptInv, MarkerInv, Exchanging, Waiting, Opening
  <1>7. CASE Skipped \/ Collected \/ Replied
    BY <1>1, <1>7, MarkerOrderTaken DEF Skipped, Collected, Replied
  <1>8. ASSUME NEW c \in DOMAIN consoles, ProcessStep(c)
        PROVE  MarkersInv' /\ PromptInv' /\ MarkerInv'
    <2>1. CASE Open
      <3>1. c \in DOMAIN consoles'
        BY <1>8 DEF ProcessStep, SameBut
      <3>2. consoles'[c].reader # "failed"
        BY <3>1 DEF Garbled
      <3> QED BY <1>1, <1>2, <1>8, <2>1, <3>2, MarkerOrderWorked
    <2>2. CASE ~Open
      <3>1. ~Open' /\ ~Exchanging' /\ fg'.at # "prompt"
        BY <1>8, <2>2 DEF ProcessStep, SamePlace, Open, Exchanging, StepInv, Idle, Waiting, Opening
      <3> QED BY <3>1 DEF MarkersInv, PromptInv, MarkerInv
    <2> QED BY <2>1, <2>2
  <1> QED BY <1>2, <1>3, <1>4, <1>5, <1>6, <1>7, <1>8 DEF ForegroundStep, RepliedByEnding

(* An answer that a marker ends was behind the request's own output.         *)
LEMMA MarkerIsOwnKept ==
    ASSUME SessionTypeOK, StepInv, RunningInv, MarkerOrder, MarkerIsOwn, SessionNext
    PROVE  MarkerIsOwn'
  <1>1. CASE Garbled
    <2>1. Garbled'
      BY <1>1, GarbledForGood
    <2> QED BY <2>1 DEF MarkerIsOwn, Garbled
  <1>2. CASE ~Garbled
    <2>1. MarkerInv
      BY <1>2 DEF MarkerOrder
    <2>2. CASE NothingAnswered
      BY <1>2, <2>2 DEF NothingAnswered, MarkerIsOwn, Garbled
    <2>3. CASE Replied /\ ~NothingAnswered
      <3>1. /\ fg.at = "ask" /\ Line = MarkerLine(counter) /\ TookLine
            /\ transport = "request" => ~HasRefused
            /\ outcome' = [outcome EXCEPT ![fg.req] = "answered"]
            /\ answer' = [answer EXCEPT ![fg.req] = fg.got]
        BY <2>3 DEF Replied
      <3>2. /\ ToRead(console) \in Seq(Lines) /\ ToRead(console) # <<>>
            /\ Line = ToRead(console)[1]
        BY <3>1, FirstToRead
      <3>3. 1 \in DOMAIN ToRead(console)
        BY <3>2, TailFacts
      <3>4. fg.req # 0 /\ Exchanging /\ Asked = fg.req /\ fg.got \in Seq(Lines)
        BY <3>1 DEF StepInv, Idle, Exchanging, Waiting, Opening, Asked, SessionTypeOK, ForegroundType
      <3>5. Before(1)
        BY <2>1, <3>1, <3>2, <3>3, <3>4 DEF MarkerInv
      <3>6. fg.got # <<>> /\ fg.got[Len(fg.got)] \in OutputOf(fg.req)
        BY <3>4, <3>5 DEF Before
      <3>7. Len(fg.got) \in DOMAIN fg.got
        BY <3>4, <3>6, EmptySeq, LenProperties
      <3>8. fg.got[Len(fg.got)] = Text(fg.req)
        <4>1. CASE transport = "request"
          <5>1. fg.got[Len(fg.got)].kind # "refused"
            BY <3>1, <3>7, <4>1 DEF HasRefused
          <5> QED BY <3>6, <5>1 DEF OutputOf, Refused
        <4>2. CASE transport # "request"
          BY <3>4, <3>6, <4>2 DEF OutputOf, Connect
        <4> QED BY <4>1, <4>2
      <3>9. ASSUME NEW r \in Requests, outcome'[r] = "answered"
            PROVE  answer'[r] # <<>> /\ answer'[r][Len(answer'[r])] = Text(r)
        <4>1. CASE r = fg.req
          BY <3>1, <3>6, <3>8, <3>9, <4>1 DEF SessionTypeOK
        <4>2. CASE r # fg.req
          <5>1. outcome[r] = "answered" /\ answer'[r] = answer[r]
            BY <3>1, <3>9, <4>2 DEF SessionTypeOK
          <5> QED BY <1>2, <5>1 DEF MarkerIsOwn, Garbled
        <4> QED BY <4>1, <4>2
      <3> QED BY <3>9 DEF MarkerIsOwn
    <2>4. CASE RepliedByEnding /\ ~NothingAnswered
      <3>1. Current.zero /\ Open
        BY <2>4 DEF RepliedByEnding, StepInv, Idle
      <3> QED BY <1>2, <3>1, CurrentIsConsole DEF Garbled
    <2> QED BY <2>2, <2>3, <2>4, EveryStep DEF ForegroundStep, Skipped, Collected, MovedOn
  <1> QED BY <1>1, <1>2

-----------------------------------------------------------------------------
(* The answer is the statement's own.                                        *)
OwnOrder == ~Spoiled => OwnInv

(* What was collected and what is still to be read, as one reply.            *)
LEMMA ReplyFacts ==
    ASSUME SessionTypeOK, Open
    PROVE  /\ fg.got \in Seq(Lines) /\ ToRead(console) \in Seq(Lines) /\ Reply \in Seq(Lines)
           /\ Len(fg.got) \in Nat /\ Len(ToRead(console)) \in Nat
           /\ Len(Reply) = Len(fg.got) + Len(ToRead(console))
           /\ DOMAIN fg.got = 1..Len(fg.got)
           /\ \A i \in 1..Len(fg.got) : Reply[i] = fg.got[i]
           /\ ToRead(console) # <<>> => /\ Len(ToRead(console)) > 0
                                        /\ Reply[Len(fg.got) + 1] = ToRead(console)[1]
           /\ \A i \in 1..Len(ToRead(console)) : Reply[Len(fg.got) + i] = ToRead(console)[i]
           /\ fg.got = <<>> => Reply = ToRead(console) /\ Len(fg.got) = 0
           /\ Printed = IF Current.reader = "done" THEN Len(Reply) - 1 ELSE Len(Reply)
  <1> DEFINE g == fg.got s == ToRead(console)
  <1>1. g \in Seq(Lines)
    BY DEF SessionTypeOK, ForegroundType
  <1>2. s \in Seq(Lines)
    <2>1. Current.queue \in Seq(Lines) /\ Current.printed \in Seq(Lines) /\ Current = consoles[console]
      BY CurrentIsConsole
    <2> QED BY <2>1, ConcatProperties DEF ToRead
  <1>3. Reply = g \o s /\ Printed = IF Current.reader = "done" THEN Len(Reply) - 1 ELSE Len(Reply)
    BY DEF Reply, Printed
  <1> HIDE DEF g, s
  <1>4. /\ g \o s \in Seq(Lines) /\ Len(g \o s) = Len(g) + Len(s)
        /\ \A i \in 1..Len(g) + Len(s) : (g \o s)[i] = IF i <= Len(g) THEN g[i] ELSE s[i - Len(g)]
    BY <1>1, <1>2, ConcatProperties
  <1>5. Len(g) \in Nat /\ Len(s) \in Nat /\ DOMAIN g = 1..Len(g)
    BY <1>1, <1>2, LenProperties
  <1>6. s # <<>> => Len(s) > 0
    BY <1>2, <1>5, EmptySeq
  <1>7. s # <<>> => (g \o s)[Len(g) + 1] = s[1]
    BY <1>4, <1>5, <1>6
  <1>8. g = <<>> => g \o s = s /\ Len(g) = 0
    BY <1>2, ConcatEmptySeq, EmptySeq
  <1>9. \A i \in 1..Len(g) : (g \o s)[i] = g[i]
    BY <1>4, <1>5
  <1>10. \A i \in 1..Len(s) : (g \o s)[Len(g) + i] = s[i]
    BY <1>4, <1>5
  <1> QED BY <1>1, <1>2, <1>3, <1>4, <1>5, <1>6, <1>7, <1>8, <1>9, <1>10 DEF g, s

(* Which line is read next: at the prompt the prompt or the end, and in an
   exchange the output, then the marker, or the end.                         *)
LEMMA NextLine ==
    ASSUME SessionTypeOK, StepInv, Open, OwnInv, ToRead(console) # <<>>
    PROVE  /\ fg.at = "prompt" =>
                 \/ ToRead(console)[1] = Prompt /\ Printed = 1
                 \/ ToRead(console)[1] = Eof
           /\ Exchanging =>
                 \/ Len(fg.got) = 0 /\ Printed > 0 /\ ToRead(console)[1] \in OutputOf(Asked)
                 \/ Len(fg.got) = 1 /\ Printed = 2 /\ ToRead(console)[1] = MarkerLine(counter)
                 \/ Len(fg.got) = Printed /\ Printed < 2 /\ ToRead(console)[1] = Eof
  <1>1. /\ Len(fg.got) \in Nat /\ Len(ToRead(console)) \in Nat /\ Len(ToRead(console)) > 0
        /\ Len(Reply) = Len(fg.got) + Len(ToRead(console))
        /\ \A i \in 1..Len(fg.got) : Reply[i] = fg.got[i]
        /\ Reply[Len(fg.got) + 1] = ToRead(console)[1]
        /\ DOMAIN fg.got = 1..Len(fg.got)
        /\ Printed = IF Current.reader = "done" THEN Len(Reply) - 1 ELSE Len(Reply)
    BY ReplyFacts
  <1>2. Current.reader = "done" => Reply[Printed + 1] = Eof
    BY DEF OwnInv
  <1>3. CASE fg.at = "prompt"
    <2>1. fg.got = <<>> /\ Printed \in {0, 1} /\ (Printed = 1 => Reply[1] = Prompt)
      BY <1>3 DEF OwnInv, StepInv, Exchanging
    <2>2. Len(fg.got) = 0
      BY <2>1, EmptySeq
    <2>3. ToRead(console)[1] = Reply[1]
      BY <1>1, <2>2
    <2>4. CASE Printed = 1
      BY <1>3, <2>1, <2>3, <2>4 DEF Exchanging
    <2>5. CASE Printed = 0
      <3>1. Current.reader = "done"
        BY <1>1, <2>2, <2>5
      <3>2. Reply[1] = Eof
        BY <1>2, <2>5, <3>1
      <3> QED BY <1>3, <2>3, <3>2 DEF Exchanging
    <2> QED BY <2>1, <2>4, <2>5
  <1>4. CASE Exchanging
    <2>1. /\ Printed \in {0, 1, 2}
          /\ Printed = 2 => Reply[2] = MarkerLine(counter)
          /\ Printed > 0 => Reply[1] \in OutputOf(Asked)
      BY <1>4 DEF OwnInv
    <2>2. \A i \in 1..Len(fg.got) : fg.got[i].kind \in {"text", "refused"}
      BY <1>1 DEF StepInv
    <2>3. Printed = 2 => Len(fg.got) < 2
      <3>1. MarkerLine(counter).kind = "marker"
        BY DEF MarkerLine
      <3> QED BY <1>1, <2>1, <2>2, <3>1
    <2>4. Len(fg.got) <= Printed
      <3>1. Eof.kind = "eof"
        BY DEF Eof
      <3> QED BY <1>1, <1>2, <2>1, <2>2, <3>1
    <2>5. CASE Len(fg.got) = Printed
      BY <1>1, <1>2, <1>4, <2>1, <2>3, <2>5 DEF Exchanging
    <2>6. CASE Len(fg.got) < Printed
      <3>1. \/ Len(fg.got) = 0
            \/ Len(fg.got) = 1 /\ Printed = 2
        <4>1. Len(fg.got) \in Nat
          BY <1>1
        <4>2. CASE Printed = 1
          BY <2>6, <4>1, <4>2
        <4>3. CASE Printed = 2
          <5>1. Len(fg.got) < 2
            BY <2>6, <4>3
          <5> DEFINE n == Len(fg.got)
          <5>2. n \in Nat /\ n < 2
            BY <4>1, <5>1
          <5> HIDE DEF n
          <5>3. n = 0 \/ n = 1
            BY <5>2
          <5>4. Len(fg.got) = 0 \/ Len(fg.got) = 1
            BY <5>3 DEF n
          <5> QED BY <4>3, <5>4
        <4>4. CASE Printed = 0
          BY <2>6, <4>1, <4>4
        <4> QED BY <2>1, <4>2, <4>3, <4>4
      <3>2. CASE Len(fg.got) = 0
        <4>1. Printed > 0 /\ ToRead(console)[1] = Reply[1]
          BY <1>1, <2>6, <3>2
        <4> QED BY <1>4, <2>1, <3>2, <4>1 DEF Exchanging
      <3>3. CASE Len(fg.got) = 1 /\ Printed = 2
        <4>1. ToRead(console)[1] = Reply[2]
          BY <1>1, <3>3
        <4> QED BY <1>4, <2>1, <3>3, <4>1 DEF Exchanging
      <3> QED BY <3>1, <3>2, <3>3
    <2> QED BY <1>1, <2>1, <2>4, <2>5, <2>6
  <1> QED BY <1>3, <1>4 DEF Exchanging

(* What spoils a console spoils it for good.                                 *)
LEMMA SpoiledForGood ==
    ASSUME SessionTypeOK, StepInv, RunningInv, SessionNext, Spoiled
    PROVE  Spoiled'
  <1>1. PICK c \in DOMAIN consoles : consoles[c].cut \/ consoles[c].reader = "failed"
    BY DEF Spoiled
  <1>2. c \in DOMAIN consoles'
    BY EveryConsole DEF Opened
  <1>3. consoles[c] \in ConsoleType
    BY LenProperties DEF SessionTypeOK
  <1>4. consoles'[c].cut \/ consoles'[c].reader = "failed"
    <2>1. CASE consoles'[c] = consoles[c]
      BY <1>1, <2>1
    <2>2. CASE Reaps(c)
      BY <1>1, <1>3, <2>2 DEF Reaps, Emptied, ConsoleType
    <2>3. CASE Feeds(c)
      BY <1>1, <2>3 DEF Feeds, SameFields
    <2>4. CASE Works(c) /\ SameFields(c, {"cut"})
      BY <1>1, <2>4 DEF Works, Boots, Executes, PrintsMarker, Halts, Hands, Closes, SameFields
    <2> QED BY <2>1, <2>2, <2>3, <2>4, EveryConsole
  <1> QED BY <1>2, <1>4 DEF Spoiled

(* Nothing is left of a reply but the end of the process, if that was noticed. *)
Drained ==
    IF Current.reader = "done"
    THEN Len(ToRead(console)) = 1 /\ ToRead(console)[1] = Eof
    ELSE ToRead(console) = <<>>

(* Where a reply begins on a drained console, nothing of it is printed.       *)
LEMMA DrainedIsUnprinted ==
    ASSUME fg'.got = <<>>, ToRead(console)' \in Seq(Lines), Drained'
    PROVE  /\ Printed' = 0 /\ Printed' >= 0
           /\ Current'.reader = "done" => Reply'[Printed' + 1] = Eof
  <1>1. Reply' = <<>> \o ToRead(console)'
    BY DEF Reply
  <1> DEFINE s == ToRead(console)'
  <1> HIDE DEF s
  <1>2. <<>> \o s = s
    BY ConcatEmptySeq DEF s
  <1>3. Reply' = s
    BY <1>1, <1>2 DEF s
  <1>4. CASE Current'.reader = "done"
    <2>1. Len(s) = 1 /\ s[1] = Eof
      BY <1>4 DEF Drained, s
    <2>2. Printed' = Len(s) - 1
      BY <1>3, <1>4 DEF Printed
    <2>3. Printed' = 0
      BY <2>1, <2>2
    <2> QED BY <1>3, <2>1, <2>3
  <1>5. CASE Current'.reader # "done"
    <2>1. s = <<>>
      BY <1>5 DEF Drained, s
    <2>2. Printed' = Len(s)
      BY <1>3, <1>5 DEF Printed
    <2> QED BY <1>5, <2>1, <2>2, EmptySeq
  <1> QED BY <1>4, <1>5

(* And a console is drained when the last line that was printed is read.      *)
LEMMA LastLineRead ==
    ASSUME SessionTypeOK, Open, OwnInv, ToRead(console) # <<>>, Printed = Len(fg.got) + 1,
           ToRead(console)' = Tail(ToRead(console)), Current'.reader = Current.reader
    PROVE  Drained' /\ ToRead(console)' \in Seq(Lines)
  <1>1. /\ Len(fg.got) \in Nat /\ Len(ToRead(console)) \in Nat
        /\ ToRead(console) \in Seq(Lines)
        /\ Len(Reply) = Len(fg.got) + Len(ToRead(console))
        /\ \A i \in 1..Len(ToRead(console)) : Reply[Len(fg.got) + i] = ToRead(console)[i]
        /\ Printed = IF Current.reader = "done" THEN Len(Reply) - 1 ELSE Len(Reply)
    BY ReplyFacts
  <1> DEFINE s == ToRead(console)
  <1>2. /\ Tail(s) \in Seq(Lines) /\ Len(Tail(s)) = Len(s) - 1
        /\ \A i \in 1..(Len(s) - 1) : Tail(s)[i] = s[i + 1]
    <2>1. s \in Seq(Lines) /\ s # <<>>
      BY <1>1
    <2> HIDE DEF s
    <2> QED BY <2>1, TailFacts
  <1> DEFINE a == Len(fg.got) b == Len(s)
  <1> HIDE DEF a, b
  <1>0. /\ a \in Nat /\ b \in Nat /\ Printed = a + 1
        /\ Current.reader = "done" => a + 1 = (a + b) - 1
        /\ Current.reader # "done" => a + 1 = a + b
    BY <1>1 DEF a, b
  <1>3. CASE Current.reader = "done"
    <2>1. Len(s) = 2
      <3>1. b = 2
        BY <1>0, <1>3
      <3> QED BY <3>1 DEF b
    <2>2. Reply[Printed + 1] = Eof
      BY <1>3 DEF OwnInv
    <2>3. Reply[Len(fg.got) + 2] = s[2]
      BY <1>1, <2>1
    <2>4. s[2] = Eof
      <3>1. Printed + 1 = Len(fg.got) + 2
        BY <1>1
      <3> QED BY <2>2, <2>3, <3>1
    <2>5. Len(Tail(s)) = 1 /\ Tail(s)[1] = Eof
      <3>1. 1 \in 1..(Len(s) - 1) /\ Len(s) - 1 = 1 /\ 1 + 1 = 2
        BY <2>1
      <3> HIDE DEF s
      <3>2. Tail(s)[1] = s[1 + 1]
        BY <1>2, <3>1
      <3>3. Len(Tail(s)) = 1
        BY <1>2, <3>1
      <3> QED BY <2>4, <3>1, <3>2, <3>3
    <2> QED BY <1>2, <1>3, <2>5 DEF Drained
  <1>4. CASE Current.reader # "done"
    <2>1. Len(s) = 1
      <3>1. b = 1
        BY <1>0, <1>4
      <3> QED BY <3>1 DEF b
    <2>2. Len(Tail(s)) = 0
      BY <1>2, <2>1
    <2>3. Tail(s) = <<>>
      BY <1>2, <2>2, EmptySeq
    <2> QED BY <1>2, <1>4, <2>3 DEF Drained
  <1> QED BY <1>3, <1>4

(* When no exchange is under way there is nothing to be printed, and when one
   is there is its own statement.                                            *)
LEMMA OwnUnprinted ==
    ASSUME SessionTypeOK', StepInv', Open', fg'.got = <<>>, ToRead(console)' \in Seq(Lines), Drained',
           ~Current'.zero, ~Current'.ran,
           fg'.at # "prompt" => Current'.proc # "booting",
           ~Exchanging' => Current'.inbox = <<>>,
           Exchanging' => Pending'
    PROVE  OwnInv'
  <1>1. /\ Printed' = 0 /\ Printed' >= 0
        /\ Current'.reader = "done" => Reply'[Printed' + 1] = Eof
    BY DrainedIsUnprinted
  <1> QED BY <1>1 DEF OwnInv, Idle

(* A statement is asked, after a line was read or with none.                  *)
LEMMA OwnPosted ==
    ASSUME SessionTypeOK, SessionTypeOK', StepInv, StepInv', RunningInv, OwnInv,
           NEW queue, NEW ready, Posted(queue, ready),
           \/ Idle /\ queue = Current.queue
           \/ /\ Current.queue # <<>> /\ queue = Tail(Current.queue)
              /\ \/ fg.at = "prompt" /\ Line = Prompt
                 \/ fg.at \in {"connect", "prelude"} /\ Line = MarkerLine(counter)
    PROVE  OwnInv'
  <1>1. /\ Open /\ Open' /\ fg'.got = <<>> /\ Exchanging' /\ fg'.at # "prompt"
        /\ \A field \in {"proc", "zero", "ran", "printed", "reader", "cut"} :
              Current'[field] = Current[field]
        /\ Current.inbox \in Seq(Statement)
        /\ Len(Current'.inbox) = Len(Current.inbox) + 1
        /\ Current'.inbox[Len(Current.inbox) + 1] = [body |-> Asked', marker |-> counter']
        /\ ToRead(console) \in Seq(Lines)
        /\ queue = Current.queue => ToRead(console)' = ToRead(console)
        /\ Current.queue # <<>> /\ queue = Tail(Current.queue) =>
              /\ ToRead(console) # <<>> /\ Line = ToRead(console)[1]
              /\ ToRead(console)' = Tail(ToRead(console))
    BY PostedFacts DEF Remains
  <1>2. Current.inbox = <<>> /\ ~Current.zero /\ Current.proc # "booting"
        /\ Drained' /\ ToRead(console)' \in Seq(Lines)
    <2>1. CASE Idle /\ queue = Current.queue
      <3>1. ~Exchanging /\ fg.at # "prompt"
        BY <2>1 DEF Idle, Exchanging, Waiting, Opening
      <3>2. /\ Current.inbox = <<>> /\ ~Current.zero /\ Current.proc # "booting" /\ Printed = 0
            /\ Current.reader = "done" => Reply[Printed + 1] = Eof
        BY <1>1, <2>1, <3>1 DEF OwnInv
      <3>3. fg.got = <<>> /\ Reply = ToRead(console)
        BY <1>1, <3>1, ReplyFacts DEF StepInv
      <3>4. Printed = IF Current.reader = "done" THEN Len(ToRead(console)) - 1 ELSE Len(ToRead(console))
        BY <3>3 DEF Printed
      <3>5. Drained
        <4> DEFINE s == ToRead(console)
        <4>1. s \in Seq(Lines) /\ Len(s) \in Nat
          BY <1>1, LenProperties
        <4> HIDE DEF s
        <4>2. CASE Current.reader = "done"
          <5>1. Len(s) = 1
            BY <3>2, <3>4, <4>1, <4>2 DEF s
          <5>2. s[1] = Eof
            BY <3>2, <3>3, <4>2 DEF s
          <5> QED BY <4>2, <5>1, <5>2 DEF Drained, s
        <4>3. CASE Current.reader # "done"
          <5>1. Len(s) = 0
            BY <3>2, <3>4, <4>3 DEF s
          <5>2. s = <<>>
            BY <4>1, <5>1, EmptySeq
          <5> QED BY <4>3, <5>2 DEF Drained, s
        <4> QED BY <4>2, <4>3
      <3>6. Drained'
        BY <1>1, <2>1, <3>5 DEF Drained
      <3> QED BY <1>1, <2>1, <3>2, <3>6
    <2>2. ASSUME Current.queue # <<>>, queue = Tail(Current.queue), fg.at = "prompt", Line = Prompt
          PROVE  /\ Current.inbox = <<>> /\ ~Current.zero /\ Current.proc # "booting"
                 /\ Drained' /\ ToRead(console)' \in Seq(Lines)
      <3>1. ~Exchanging /\ fg.got = <<>>
        BY <2>2 DEF Exchanging, StepInv
      <3>2. Prompt # Eof
        BY DEF Prompt, Eof
      <3>3. Printed = 1
        BY <1>1, <2>2, <3>2, NextLine
      <3>4. Current.inbox = <<>> /\ ~Current.zero /\ Current.proc # "booting"
        BY <1>1, <2>2, <3>1, <3>3 DEF OwnInv
      <3>5. Printed = Len(fg.got) + 1
        BY <1>1, <3>1, <3>3, ReplyFacts
      <3>6. Drained' /\ ToRead(console)' \in Seq(Lines)
        BY <1>1, <2>2, <3>5, LastLineRead
      <3> QED BY <3>4, <3>6
    <2>3. ASSUME Current.queue # <<>>, queue = Tail(Current.queue), fg.at \in {"connect", "prelude"},
                 Line = MarkerLine(counter)
          PROVE  /\ Current.inbox = <<>> /\ ~Current.zero /\ Current.proc # "booting"
                 /\ Drained' /\ ToRead(console)' \in Seq(Lines)
      <3>1. Exchanging /\ fg.at # "prompt"
        BY <2>3 DEF Exchanging, Waiting, Opening
      <3>2. MarkerLine(counter) # Eof /\ MarkerLine(counter) \notin OutputOf(Asked)
        BY DEF MarkerLine, Eof, OutputOf, Text, Refused
      <3>3. Len(fg.got) = 1 /\ Printed = 2
        BY <1>1, <2>3, <3>1, <3>2, NextLine
      <3>4. Current.inbox = <<>> /\ ~Current.zero /\ Current.proc # "booting"
        BY <1>1, <3>1, <3>3 DEF OwnInv
      <3>5. Printed = Len(fg.got) + 1
        BY <3>3
      <3>6. Drained' /\ ToRead(console)' \in Seq(Lines)
        BY <1>1, <2>3, <3>5, LastLineRead
      <3> QED BY <3>4, <3>6
    <2> QED BY <2>1, <2>2, <2>3
  <1>3. ~Current.ran
    <2>1. console \in DOMAIN consoles /\ Current = consoles[console]
      BY <1>1, CurrentIsConsole
    <2> QED BY <1>2, <2>1 DEF RunningInv
  <1>4. Pending'
    <2>1. Len(Current.inbox) = 0
      BY <1>2, EmptySeq
    <2>2. Len(Current'.inbox) = 1 /\ Current'.inbox[1] = [body |-> Asked', marker |-> counter']
      BY <1>1, <2>1
    <2> QED BY <2>2 DEF Pending
  <1>5. ~Current'.zero /\ ~Current'.ran /\ Current'.proc # "booting"
    BY <1>1, <1>2, <1>3
  <1> QED BY <1>1, <1>2, <1>4, <1>5, OwnUnprinted

(* Nothing is printed and nothing is asked: the reply and what it is for are
   the same, though a line of it may have been collected or handed over.      *)
LEMMA OwnSame ==
    ASSUME OwnInv, Open, Reply' = Reply, fg'.at = fg.at, fg'.req = fg.req, counter' = counter,
           transport' = transport,
           \A field \in {"proc", "zero", "inbox", "ran", "reader"} : Current'[field] = Current[field]
    PROVE  OwnInv'
  <1>1. Asked' = Asked /\ OutputOf(Asked)' = OutputOf(Asked)
    BY DEF Asked, OutputOf
  <1>2. Printed' = Printed
    BY DEF Printed
  <1>3. /\ Current'.proc = Current.proc /\ Current'.zero = Current.zero /\ Current'.ran = Current.ran
        /\ Current'.inbox = Current.inbox /\ Current'.reader = Current.reader
    OBVIOUS
  <1>4. Pending' = Pending /\ Idle' = Idle /\ Exchanging' = Exchanging
    BY <1>1, <1>3 DEF Pending, Idle, Exchanging
  <1> QED BY <1>1, <1>2, <1>3, <1>4 DEF OwnInv

(* A line is read and no statement is asked.                                  *)
LEMMA OwnRead ==
    ASSUME SessionTypeOK, SessionTypeOK', StepInv, StepInv', RunningInv, OwnInv,
           Skipped \/ Collected \/ Replied
    PROVE  OwnInv'
  <1>0. TookLine
    BY DEF Skipped, Collected, Replied
  <1>1. /\ ToRead(console) \in Seq(Lines) /\ ToRead(console) # <<>>
        /\ Line = ToRead(console)[1] /\ Line = Head(ToRead(console)) /\ Line \in Lines
        /\ ToRead(console)' = Tail(ToRead(console))
        /\ console' = console /\ Open /\ Open' /\ counter' = counter /\ transport' = transport
        /\ \A field \in {"proc", "zero", "inbox", "ran", "printed", "reader", "cut"} :
              Current'[field] = Current[field]
    BY <1>0, FirstToRead
  <1>2. ASSUME Skipped PROVE FALSE
    <2>1. fg.at = "prompt" /\ Line # Prompt /\ Line # Eof
      BY <1>2 DEF Skipped
    <2> QED BY <1>1, <2>1, NextLine
  <1>3. CASE Collected
    <2>1. /\ Exchanging /\ Line # Eof /\ Line # MarkerLine(counter)
          /\ fg' = IF Line.kind \in {"text", "refused"} THEN [fg EXCEPT !.got = Append(@, Line)] ELSE fg
      BY <1>3 DEF Collected
    <2>2. Line \in OutputOf(Asked)
      BY <1>1, <2>1, NextLine
    <2>3. Line.kind \in {"text", "refused"}
      BY <2>2 DEF OutputOf, Text, Refused
    <2>4. fg \in ForegroundType /\ fg.got \in Seq(Lines)
      BY DEF SessionTypeOK, ForegroundType
    <2>5. fg'.at = fg.at /\ fg'.req = fg.req /\ fg'.got = Append(fg.got, Line)
      BY <2>1, <2>3, <2>4 DEF ForegroundType
    <2> DEFINE s == ToRead(console)
    <2>6. s \in Seq(Lines) /\ s # <<>> /\ Line = Head(s)
      BY <1>1
    <2>7. Reply' = Append(fg.got, Line) \o Tail(s) /\ Reply = fg.got \o s
      BY <1>1, <2>5 DEF Reply
    <2> HIDE DEF s
    <2>8. Append(fg.got, Head(s)) \o Tail(s) = fg.got \o s
      BY <2>4, <2>6, CollectedOfAll
    <2>9. Reply' = Reply
      BY <2>6, <2>7, <2>8
    <2> QED BY <1>1, <2>5, <2>9, OwnSame
  <1>4. CASE Replied
    <2>1. fg.at = "ask" /\ Line = MarkerLine(counter) /\ fg'.at = "idle" /\ fg'.got = <<>>
      BY <1>4 DEF Replied
    <2>2. Exchanging /\ fg.at # "prompt"
      BY <2>1 DEF Exchanging, Waiting, Opening
    <2>3. MarkerLine(counter) # Eof /\ MarkerLine(counter) \notin OutputOf(Asked)
      BY DEF MarkerLine, Eof, OutputOf, Text, Refused
    <2>4. Len(fg.got) = 1 /\ Printed = 2
      BY <1>1, <2>1, <2>2, <2>3, NextLine
    <2>5. Current.inbox = <<>> /\ ~Current.zero /\ Current.proc # "booting"
      BY <1>1, <2>2, <2>4 DEF OwnInv
    <2>6. Printed = Len(fg.got) + 1
      BY <2>4
    <2>7. Drained' /\ ToRead(console)' \in Seq(Lines)
      BY <1>1, <2>6, LastLineRead
    <2>8. ~Current.ran
      <3>1. console \in DOMAIN consoles /\ Current = consoles[console]
        BY <1>1, CurrentIsConsole
      <3> QED BY <2>5, <3>1 DEF RunningInv
    <2>9. ~Exchanging' /\ ~Current'.zero /\ ~Current'.ran /\ Current'.proc # "booting" /\ Current'.inbox = <<>>
      BY <1>1, <2>1, <2>5, <2>8 DEF Exchanging, Waiting, Opening
    <2> QED BY <1>1, <2>1, <2>7, <2>9, OwnUnprinted
  <1> QED BY <1>2, <1>3, <1>4

(* A process prints one line more.                                           *)
LEMMA PrintedOneMore ==
    ASSUME SessionTypeOK, SessionTypeOK', Open, console' = console, fg' = fg, NEW line \in Lines,
           ToRead(console)' = Append(ToRead(console), line)
    PROVE  /\ Len(Reply') = Len(Reply) + 1 /\ Len(Reply) \in Nat
           /\ \A i \in 1..Len(Reply) : Reply'[i] = Reply[i]
           /\ Reply'[Len(Reply) + 1] = line
  <1>1. /\ fg.got \in Seq(Lines) /\ ToRead(console) \in Seq(Lines) /\ Reply \in Seq(Lines)
    BY ReplyFacts
  <1> DEFINE g == fg.got s == ToRead(console)
  <1>2. Reply' = g \o Append(s, line) /\ Reply = g \o s
    BY DEF Reply
  <1>3. g \in Seq(Lines) /\ s \in Seq(Lines)
    BY <1>1
  <1> HIDE DEF g, s
  <1>4. g \o Append(s, line) = Append(g \o s, line)
    BY <1>3, LastOfAll
  <1>5. Reply' = Append(Reply, line)
    BY <1>2, <1>4
  <1> QED BY <1>1, <1>5, AppendedFacts

(* SQLcl works on the statement, or its reader on what it printed.            *)
LEMMA OwnWorked ==
    ASSUME SessionTypeOK, SessionTypeOK', RunningInv, EndInv, OwnInv, Open,
           NEW c \in DOMAIN consoles, ProcessStep(c), consoles'[c].reader # "failed"
    PROVE  OwnInv'
  <1>0. /\ console' = console /\ fg' = fg /\ counter' = counter /\ transport' = transport
        /\ console \in DOMAIN consoles /\ Current = consoles[console] /\ Current' = consoles'[console]
        /\ Current \in ConsoleType /\ Current.inbox \in Seq(Statement)
        /\ SameBut(c) /\ Open' /\ fg \in ForegroundType
    BY CurrentIsConsole DEF ProcessStep, SamePlace, Current, Open, SessionTypeOK
  <1>1. Asked' = Asked /\ OutputOf(Asked)' = OutputOf(Asked) /\ Idle' = Idle /\ Exchanging' = Exchanging
    BY <1>0 DEF Asked, OutputOf, Idle, Exchanging
  <1>2. CASE c # console
    <2>1. Current' = Current
      BY <1>0, <1>2 DEF SameBut
    <2>2. Reply' = Reply
      BY <1>0, <2>1 DEF Reply, ToRead
    <2> QED BY <1>0, <2>1, <2>2, OwnSame
  <1>3. CASE c = console
    <2>1. /\ Current.ran => Current.inbox # <<>>
          /\ Current.proc = "booting" => ~Current.ran
          /\ Current.zero => Current.proc = "ended"
          /\ Current.reader = "done" => Current.proc = "ended"
          /\ Live(console) = (Current.proc \in {"booting", "serving"})
      BY <1>0 DEF RunningInv, EndInv, Live, ConsoleType
    <2>2. /\ Len(Reply) \in Nat
          /\ Printed = IF Current.reader = "done" THEN Len(Reply) - 1 ELSE Len(Reply)
          /\ Reply \in Seq(Lines) /\ ToRead(console) \in Seq(Lines) /\ fg.got \in Seq(Lines)
      <3>1. /\ Reply \in Seq(Lines) /\ ToRead(console) \in Seq(Lines) /\ fg.got \in Seq(Lines)
            /\ Printed = IF Current.reader = "done" THEN Len(Reply) - 1 ELSE Len(Reply)
        BY ReplyFacts
      <3> QED BY <3>1, LenProperties
    <2>3. /\ \A line \in Lines :
                consoles'[console].printed = Append(Current.printed, line)
                /\ consoles'[console].queue = Current.queue
                   => ToRead(console)' = Append(ToRead(console), line)
          /\ consoles'[console].printed = Current.printed /\ consoles'[console].queue = Current.queue
             => ToRead(console)' = ToRead(console)
          /\ Hands(console) => ToRead(console)' = ToRead(console)
          /\ Closes(console) /\ Current.printed = <<>>
             => ToRead(console)' = Append(ToRead(console), Eof)
      BY <1>0, StillToRead
    <2>4. CASE Boots(c)
      <3>1. /\ Current.proc = "booting" /\ Current'.proc = "serving"
            /\ Current'.zero = Current.zero /\ Current'.inbox = Current.inbox /\ Current'.ran = Current.ran
            /\ Current'.reader = Current.reader /\ Current'.queue = Current.queue
            /\ Current'.printed = Append(Current.printed, Prompt)
        BY <1>0, <1>3, <2>4 DEF Boots, SameFields
      <3>2. /\ fg.at = "prompt" /\ ~Exchanging /\ ~Idle /\ Printed = 0 /\ Current.reader # "done"
            /\ Current.inbox = <<>> /\ ~Current.zero
        BY <2>1, <3>1 DEF OwnInv, Exchanging, Idle
      <3>3. Prompt \in Lines
        BY DEF Prompt, Lines
      <3>4. ToRead(console)' = Append(ToRead(console), Prompt)
        BY <1>0, <2>3, <3>1, <3>3
      <3>5. Len(Reply') = Len(Reply) + 1 /\ Reply'[Len(Reply) + 1] = Prompt
        BY <1>0, <3>3, <3>4, PrintedOneMore
      <3>6. Len(Reply) = 0
        BY <2>2, <3>2
      <3>7. Printed' = 1 /\ Reply'[1] = Prompt
        BY <3>1, <3>2, <3>5, <3>6 DEF Printed
      <3> QED BY <1>0, <1>1, <3>1, <3>2, <3>7 DEF OwnInv
    <2>5. CASE Executes(c)
      <3>1. /\ Current.proc = "serving" /\ Current.inbox # <<>> /\ ~Current.ran /\ Current'.ran
            /\ Current'.proc = Current.proc /\ Current'.zero = Current.zero
            /\ Current'.inbox = Current.inbox /\ Current'.reader = Current.reader
            /\ Current'.queue = Current.queue
        BY <1>0, <1>3, <2>5 DEF Executes, SameFields
      <3>2. PICK line \in OutputOf(Head(Current.inbox).body) :
               consoles'[console].printed = Append(Current.printed, line)
        BY <1>0, <1>3, <2>5 DEF Executes
      <3>3. Exchanging /\ Printed = 0 /\ Pending /\ Current.reader # "done" /\ ~Current.zero
        BY <2>1, <3>1 DEF OwnInv
      <3>4. Head(Current.inbox) = [body |-> Asked, marker |-> counter] /\ Asked \in Nat
        <4>1. Head(Current.inbox) = Current.inbox[1]
          BY <1>0, <3>1, TailFacts
        <4>2. Asked \in Nat
          BY <1>0, SessionAssumption DEF Asked, ForegroundType, Connect
        <4> QED BY <3>3, <4>1, <4>2 DEF Pending
      <3>5. line \in OutputOf(Asked)
        BY <3>2, <3>4
      <3>6. line \in Lines
        BY <3>4, <3>5 DEF OutputOf, Text, Refused, Lines
      <3>7. ToRead(console)' = Append(ToRead(console), line)
        BY <1>0, <2>3, <3>1, <3>2, <3>6
      <3>8. Len(Reply') = Len(Reply) + 1 /\ Reply'[Len(Reply) + 1] = line
        BY <1>0, <3>6, <3>7, PrintedOneMore
      <3>9. Len(Reply) = 0
        BY <2>2, <3>3
      <3>10. Printed' = 1 /\ Reply'[1] = line
        BY <3>1, <3>3, <3>8, <3>9 DEF Printed
      <3>11. Pending'
        BY <1>0, <1>1, <3>1, <3>3 DEF Pending
      <3>12. fg.at # "prompt" /\ fg.at # "idle"
        BY <3>3 DEF Exchanging, Waiting, Opening
      <3> QED BY <1>0, <1>1, <3>1, <3>3, <3>5, <3>10, <3>11, <3>12 DEF OwnInv, Idle
    <2>6. CASE PrintsMarker(c)
      <3> DEFINE line == MarkerLine(Head(Current.inbox).marker)
      <3>1. /\ Current.proc = "serving" /\ Current.ran /\ ~Current'.ran /\ Current.inbox # <<>>
            /\ Current'.proc = Current.proc /\ Current'.zero = Current.zero
            /\ Current'.inbox = Tail(Current.inbox) /\ Current'.reader = Current.reader
            /\ Current'.queue = Current.queue
            /\ consoles'[console].printed = Append(Current.printed, line)
        BY <1>0, <1>3, <2>1, <2>6 DEF PrintsMarker, SameFields
      <3>2. Exchanging /\ Printed = 1 /\ Pending /\ Current.reader # "done" /\ ~Current.zero
        BY <2>1, <3>1 DEF OwnInv
      <3>3. /\ Head(Current.inbox) = Current.inbox[1] /\ Current.inbox[1].marker = counter
            /\ Len(Tail(Current.inbox)) = 0 /\ Tail(Current.inbox) \in Seq(Statement)
        <4>1. /\ Head(Current.inbox) = Current.inbox[1] /\ Len(Tail(Current.inbox)) = Len(Current.inbox) - 1
              /\ Tail(Current.inbox) \in Seq(Statement)
          BY <1>0, <3>1, TailFacts
        <4> QED BY <3>2, <4>1 DEF Pending
      <3>4. line = MarkerLine(counter) /\ line \in Lines
        BY <1>0, <3>3 DEF MarkerLine, Lines, SessionTypeOK
      <3>5. ToRead(console)' = Append(ToRead(console), line)
        BY <1>0, <2>3, <3>1, <3>4
      <3>6. /\ Len(Reply') = Len(Reply) + 1 /\ Reply'[Len(Reply) + 1] = line
            /\ \A i \in 1..Len(Reply) : Reply'[i] = Reply[i]
        BY <1>0, <3>4, <3>5, PrintedOneMore
      <3> HIDE DEF line
      <3>7. Len(Reply) = 1
        BY <2>2, <3>2
      <3>8. Printed' = 2 /\ Reply'[2] = MarkerLine(counter) /\ Reply'[1] = Reply[1]
        BY <3>1, <3>2, <3>4, <3>6, <3>7 DEF Printed
      <3>9. Current'.inbox = <<>>
        BY <3>1, <3>3, EmptySeq
      <3>10. Reply'[1] \in OutputOf(Asked)
        BY <3>2, <3>8 DEF OwnInv
      <3>11. fg.at # "prompt" /\ fg.at # "idle"
        BY <3>2 DEF Exchanging, Waiting, Opening
      <3>12. /\ fg'.at # "prompt" /\ ~Idle' /\ Exchanging' /\ Current'.reader # "done"
             /\ Current'.proc # "booting" /\ ~Current'.zero /\ Reply'[2] = MarkerLine(counter')
             /\ Reply'[1] \in OutputOf(Asked)'
        BY <1>0, <1>1, <3>1, <3>2, <3>8, <3>10, <3>11 DEF Idle
      <3> QED BY <3>8, <3>9, <3>12 DEF OwnInv
    <2>7. CASE Halts(c)
      <3>1. /\ Current'.proc = "ended" /\ Current'.inbox = Current.inbox /\ Current'.ran = Current.ran
            /\ Current'.reader = Current.reader
            /\ Current'.zero => Current.zero \/ Current.ran
            /\ ToRead(console)' = ToRead(console)
        BY <1>0, <1>3, <2>3, <2>7 DEF Halts, SameFields
      <3>2. Reply' = Reply /\ Printed' = Printed
        BY <1>0, <3>1 DEF Reply, Printed
      <3>3. Pending' = Pending
        BY <1>0, <1>1, <3>1 DEF Pending
      <3> QED BY <1>0, <1>1, <2>1, <3>1, <3>2, <3>3 DEF OwnInv
    <2>8. CASE Hands(c)
      <3>1. /\ \A field \in {"proc", "zero", "inbox", "ran", "reader"} : Current'[field] = Current[field]
            /\ ToRead(console)' = ToRead(console)
        BY <1>0, <1>3, <2>3, <2>8 DEF Hands, SameFields
      <3>2. Reply' = Reply
        BY <1>0, <3>1 DEF Reply
      <3> QED BY <1>0, <3>1, <3>2, OwnSame
    <2>9. CASE Closes(c)
      <3>1. /\ Current'.proc = Current.proc /\ Current'.zero = Current.zero
            /\ Current'.inbox = Current.inbox /\ Current'.ran = Current.ran
            /\ Current.reader = "reading" /\ Current'.reader = "done" /\ Current.printed = <<>>
        BY <1>0, <1>3, <2>9 DEF Closes, SameFields
      <3>2. ToRead(console)' = Append(ToRead(console), Eof) /\ Eof \in Lines
        BY <1>3, <2>3, <2>9, <3>1 DEF Eof, Lines
      <3>3. /\ Len(Reply') = Len(Reply) + 1 /\ Reply'[Len(Reply) + 1] = Eof
            /\ \A i \in 1..Len(Reply) : Reply'[i] = Reply[i]
        BY <1>0, <3>2, PrintedOneMore
      <3>4. Printed = Len(Reply) /\ Printed' = Len(Reply)
        BY <2>2, <3>1, <3>3 DEF Printed
      <3>5. \A i \in 1..Printed : Reply'[i] = Reply[i]
        BY <3>3, <3>4
      <3>6. Reply'[Printed' + 1] = Eof
        BY <3>3, <3>4
      <3>7. Pending' = Pending
        BY <1>0, <1>1, <3>1 DEF Pending
      <3> QED BY <1>0, <1>1, <3>1, <3>4, <3>5, <3>6, <3>7 DEF OwnInv
    <2> QED BY <1>3, <2>4, <2>5, <2>6, <2>7, <2>8, <2>9 DEF ProcessStep
  <1> QED BY <1>2, <1>3

(* So the statement under way is alone in its console, unless it is spoiled.  *)
LEMMA OwnKept ==
    ASSUME SessionTypeOK, StepInv, RunningInv, EndInv, OwnOrder, SessionNext
    PROVE  OwnOrder'
  <1> SUFFICES ASSUME ~Spoiled', Open' PROVE OwnInv'
    BY DEF OwnOrder, OwnInv
  <1>1. OwnInv
    BY SpoiledForGood DEF OwnOrder
  <1>2. /\ SessionTypeOK' /\ StepInv'
        /\ \/ ForegroundStep
           \/ NothingAnswered /\ \E c \in DOMAIN consoles : ProcessStep(c)
    BY EveryStep
  <1>3. CASE GaveUp
    BY <1>3 DEF GaveUp, Open
  <1>4. CASE Opened
    <2>1. /\ fg'.at = "prompt" /\ fg'.got = <<>>
          /\ Current'.inbox = <<>> /\ ~Current'.ran /\ ~Current'.zero /\ Current'.reader # "done"
          /\ consoles'[console'].queue = <<>> /\ consoles'[console'].printed = <<>>
      BY <1>4 DEF Opened, NewConsole, FreshQueue, Current
    <2>2. ToRead(console)' = <<>> /\ ToRead(console)' \in Seq(Lines)
      <3>1. <<>> \in Seq(Lines)
        BY EmptySeq
      <3>2. <<>> \o <<>> = <<>>
        BY <3>1, ConcatEmptySeq
      <3>3. ToRead(console)' = <<>> \o <<>>
        BY <2>1 DEF ToRead
      <3> QED BY <3>1, <3>2, <3>3
    <2>3. Drained'
      BY <2>1, <2>2 DEF Drained
    <2>4. ~Exchanging'
      BY <2>1 DEF Exchanging
    <2> QED BY <1>2, <2>1, <2>2, <2>3, <2>4, OwnUnprinted
  <1>5. CASE Idle /\ Posted(Current.queue, Current.ready)
    <2>1. PICK queue, ready : Posted(queue, ready) /\ queue = Current.queue
      <3> WITNESS Current.queue, Current.ready
      <3> QED BY <1>5
    <2> QED BY <1>1, <1>2, <1>5, <2>1, OwnPosted
  <1>6. CASE MovedOn
    BY <1>1, <1>2, <1>6, OwnPosted DEF MovedOn
  <1>7. CASE WroteInVain
    <2>1. /\ Idle /\ fg'.at = "idle" /\ Open /\ console' = console /\ consoles' = consoles
      BY <1>7 DEF WroteInVain
    <2>2. /\ ~Exchanging /\ ~Exchanging' /\ fg.got = <<>> /\ fg'.got = <<>> /\ fg.at # "prompt"
      BY <1>2, <2>1 DEF Idle, Exchanging, Waiting, Opening, StepInv
    <2>3. Reply' = Reply /\ Current' = Current
      BY <2>1, <2>2 DEF Reply, ToRead, Current
    <2>4. Printed' = Printed
      BY <2>3 DEF Printed
    <2> QED BY <1>1, <2>1, <2>2, <2>3, <2>4 DEF OwnInv, Idle
  <1>8. CASE CutOff
    <2>1. console \in DOMAIN consoles' /\ consoles'[console].cut
      <3>1. Open /\ console \in DOMAIN consoles /\ Current \in ConsoleType
        BY <1>8, CurrentIsConsole DEF CutOff
      <3> QED BY <1>8, <3>1 DEF CutOff, SameBut, ConsoleType
    <2> QED BY <2>1 DEF Spoiled
  <1>9. CASE Skipped \/ Collected \/ Replied
    BY <1>1, <1>2, <1>9, OwnRead
  <1>10. ASSUME NEW c \in DOMAIN consoles, ProcessStep(c) PROVE OwnInv'
    <2>1. c \in DOMAIN consoles' /\ Open
      BY <1>10 DEF ProcessStep, SameBut, SamePlace, Open
    <2>2. consoles'[c].reader # "failed"
      BY <2>1 DEF Spoiled
    <2> QED BY <1>1, <1>2, <1>10, <2>1, <2>2, OwnWorked
  <1> QED BY <1>2, <1>3, <1>4, <1>5, <1>6, <1>7, <1>8, <1>9, <1>10 DEF ForegroundStep, RepliedByEnding

(* One line that is output of a request, and says no refusal, is its text.    *)
LEMMA OneLineOfOutput ==
    ASSUME SessionTypeOK, NEW r \in Requests, fg.got \in Seq(Lines), Len(fg.got) = 1,
           fg.got[1] \in OutputOf(r), transport = "request" => ~HasRefused
    PROVE  fg.got = <<Text(r)>>
  <1>1. fg.got[1] = Text(r)
    <2>1. CASE transport = "request"
      <3>1. 1 \in DOMAIN fg.got
        <4>1. DOMAIN fg.got = 1..Len(fg.got)
          BY LenProperties
        <4> QED BY <4>1
      <3>2. fg.got[1].kind # "refused"
        BY <2>1, <3>1 DEF HasRefused
      <3> QED BY <3>2 DEF OutputOf, Refused
    <2>2. CASE transport # "request"
      <3>1. r # Connect
        BY DEF Requests, Connect
      <3> QED BY <2>2, <3>1 DEF OutputOf
    <2> QED BY <2>1, <2>2
  <1> DEFINE g == fg.got
  <1>2. g \in Seq(Lines) /\ Len(g) = 1 /\ g[1] = Text(r)
    BY <1>1
  <1>3. r \in Nat
    BY SessionAssumption DEF Requests
  <1>4. <<Text(r)>> \in Seq(Lines) /\ Len(<<Text(r)>>) = 1 /\ <<Text(r)>>[1] = Text(r)
    <2>1. Text(r) \in Lines
      BY <1>3 DEF Text, Lines
    <2> QED BY <2>1
  <1> DEFINE t == <<Text(r)>>
  <1>5. t \in Seq(Lines) /\ Len(t) = 1 /\ t[1] = Text(r)
    BY <1>4
  <1> HIDE DEF g, t
  <1>6. \A i \in 1..Len(g) : g[i] = t[i]
    BY <1>2, <1>5
  <1>7. g = t
    BY <1>2, <1>5, <1>6, SeqEqual
  <1> QED BY <1>7 DEF g, t

(* And that is what a caller is handed.                                      *)
LEMMA AnswerIsOwnKept ==
    ASSUME SessionTypeOK, StepInv, RunningInv, OwnOrder, AnswerIsOwn, SessionNext
    PROVE  AnswerIsOwn'
  <1>1. CASE Spoiled
    <2>1. Spoiled'
      BY <1>1, SpoiledForGood
    <2> QED BY <2>1 DEF AnswerIsOwn, Spoiled
  <1>2. CASE ~Spoiled
    <2>0. OwnInv
      BY <1>2 DEF OwnOrder
    <2>1. ASSUME outcome' = [outcome EXCEPT ![fg.req] = "answered"],
                 answer' = [answer EXCEPT ![fg.req] = fg.got], fg.got = <<Text(fg.req)>>
          PROVE  AnswerIsOwn'
      <3> SUFFICES ASSUME NEW r \in Requests, outcome'[r] = "answered" PROVE answer'[r] = <<Text(r)>>
        BY DEF AnswerIsOwn
      <3>1. CASE r = fg.req
        BY <2>1, <3>1 DEF SessionTypeOK
      <3>2. CASE r # fg.req
        <4>1. outcome[r] = "answered" /\ answer'[r] = answer[r]
          BY <2>1, <3>2 DEF SessionTypeOK
        <4> QED BY <1>2, <4>1 DEF AnswerIsOwn, Spoiled
      <3> QED BY <3>1, <3>2
    <2>2. ASSUME NothingAnswered PROVE AnswerIsOwn'
      BY <1>2, <2>2 DEF NothingAnswered, AnswerIsOwn, Spoiled
    <2>3. ASSUME fg.at = "ask", Current.queue # <<>>
          PROVE  /\ Open /\ Exchanging /\ Asked = fg.req /\ fg.req \in Requests /\ fg.got \in Seq(Lines)
                 /\ ToRead(console) # <<>> /\ Line = ToRead(console)[1]
      <3>1. ~Idle
        BY <2>3 DEF Idle
      <3>2. Open /\ fg.req \in Requests /\ fg.got \in Seq(Lines)
        BY <2>3, <3>1, ReadsALine
      <3>3. ToRead(console) # <<>> /\ Line = ToRead(console)[1]
        <4> DEFINE q == Current.queue p == Current.printed
        <4>1. /\ q \in Seq(Lines) /\ p \in Seq(Lines) /\ q # <<>> /\ Line = Head(q)
              /\ ToRead(console) = q \o p
          BY <2>3, <3>2, CurrentIsConsole DEF ToRead, Line
        <4> HIDE DEF q, p
        <4>2. q \o p # <<>> /\ Head(q) = (q \o p)[1]
          BY <4>1, FirstOfAll
        <4> QED BY <4>1, <4>2
      <3> QED BY <2>3, <3>2, <3>3 DEF Exchanging, Waiting, Opening, Asked
    <2>4. CASE Replied /\ ~NothingAnswered
      <3>1. /\ fg.at = "ask" /\ Line = MarkerLine(counter) /\ Current.queue # <<>>
            /\ transport = "request" => ~HasRefused
            /\ outcome' = [outcome EXCEPT ![fg.req] = "answered"]
            /\ answer' = [answer EXCEPT ![fg.req] = fg.got]
        BY <2>4 DEF Replied, TookLine
      <3>2. MarkerLine(counter) # Eof /\ MarkerLine(counter) \notin OutputOf(Asked)
        BY DEF MarkerLine, Eof, OutputOf, Text, Refused
      <3>3. Len(fg.got) = 1 /\ Printed = 2
        BY <2>0, <2>3, <3>1, <3>2, NextLine
      <3>4. Reply[1] \in OutputOf(fg.req)
        BY <2>0, <2>3, <3>1, <3>3 DEF OwnInv
      <3>5. fg.got[1] = Reply[1]
        BY <2>3, <3>1, <3>3, ReplyFacts
      <3>6. fg.got = <<Text(fg.req)>>
        BY <2>3, <3>1, <3>3, <3>4, <3>5, OneLineOfOutput
      <3> QED BY <2>1, <3>1, <3>6
    <2>5. CASE RepliedByEnding /\ ~NothingAnswered
      <3>1. /\ fg.at = "ask" /\ Line = Eof /\ Current.queue # <<>> /\ Current.zero /\ ~HasRefused
            /\ outcome' = [outcome EXCEPT ![fg.req] = "answered"]
            /\ answer' = [answer EXCEPT ![fg.req] = fg.got]
        BY <2>5 DEF RepliedByEnding
      <3>2. MarkerLine(counter) # Eof /\ Eof \notin OutputOf(Asked)
        BY DEF MarkerLine, Eof, OutputOf, Text, Refused
      <3>3. Len(fg.got) = Printed
        BY <2>0, <2>3, <3>1, <3>2, NextLine
      <3>4. Printed = 1 /\ Reply[1] \in OutputOf(fg.req)
        BY <2>0, <2>3, <3>1 DEF OwnInv
      <3>5. Len(fg.got) = 1 /\ fg.got[1] = Reply[1]
        BY <2>3, <3>1, <3>3, <3>4, ReplyFacts
      <3>6. fg.got = <<Text(fg.req)>>
        BY <2>3, <3>1, <3>4, <3>5, OneLineOfOutput
      <3> QED BY <2>1, <3>1, <3>6
    <2> QED BY <2>2, <2>4, <2>5, EveryStep DEF ForegroundStep, Skipped, Collected, MovedOn
  <1> QED BY <1>1, <1>2

-----------------------------------------------------------------------------
(* The invariant of a session, and what follows from it.                      *)
SessionInv ==
    /\ SessionTypeOK /\ StepInv
    /\ RunningInv /\ EndInv /\ NoOrphan
    /\ MarkerOrder /\ OwnOrder
    /\ MarkerIsOwn /\ AnswerIsOwn

(* A session begins without a console and without a request.                 *)
LEMMA SessionStarts == SessionInit => SessionInv
  <1> SUFFICES ASSUME SessionInit PROVE SessionInv
    OBVIOUS
  <1>1. /\ transport \in {"session", "request"} /\ registrable \in BOOLEAN
        /\ consoles = <<>> /\ console = 0 /\ counter = 0 /\ faults = 0
        /\ fg = [at |-> "idle", req |-> 0, root |-> NoRoot, again |-> FALSE, got |-> <<>>]
        /\ outcome = [r \in Requests |-> "none"] /\ answer = [r \in Requests |-> <<>>]
    BY DEF SessionInit
  <1>2. /\ consoles \in Seq(ConsoleType) /\ Len(consoles) = 0 /\ <<>> \in Seq(Lines)
        /\ \A c \in DOMAIN consoles : FALSE
    BY <1>1, EmptySeq
  <1>3. SessionTypeOK
    <2>1. NoRoot \in Roots
      BY SessionAssumption DEF NoRoot
    <2>2. fg \in ForegroundType
      BY <1>1, <1>2, <2>1, SessionAssumption DEF ForegroundType
    <2>3. /\ outcome \in [Requests -> {"none", "answered", "failed", "interrupted"}]
          /\ answer \in [Requests -> Seq(Lines)]
      BY <1>1, <1>2
    <2> QED BY <1>1, <1>2, <2>2, <2>3 DEF SessionTypeOK
  <1>4. ~Open /\ Idle /\ ~Exchanging /\ fg.at # "prompt" /\ fg.at # "ask" /\ fg.got = <<>>
    BY <1>1 DEF Open, Idle, Exchanging, Waiting, Opening
  <1>5. StepInv
    <2>1. fg.at \notin {"connect", "prelude"} /\ \A i \in DOMAIN fg.got : FALSE
      BY <1>1
    <2> QED BY <1>4, <2>1 DEF StepInv
  <1>6. RunningInv /\ EndInv /\ NoOrphan
    BY <1>2 DEF RunningInv, EndInv, NoOrphan
  <1>7. MarkerOrder /\ OwnOrder
    BY <1>4 DEF MarkerOrder, MarkersInv, PromptInv, MarkerInv, OwnOrder, OwnInv
  <1>8. MarkerIsOwn /\ AnswerIsOwn
    BY <1>1 DEF MarkerIsOwn, AnswerIsOwn
  <1> QED BY <1>3, <1>5, <1>6, <1>7, <1>8 DEF SessionInv

(* Every step keeps it, and so does no step.                                  *)
LEMMA SessionKept == SessionInv /\ [SessionNext]_sessionVars => SessionInv'
  <1> SUFFICES ASSUME SessionInv, [SessionNext]_sessionVars PROVE SessionInv'
    OBVIOUS
  <1>1. CASE SessionNext
    <2>1. SessionTypeOK' /\ StepInv'
      BY <1>1, EveryStep DEF SessionInv
    <2>2. RunningInv' /\ EndInv' /\ NoOrphan'
      BY <1>1, ConsolesKept DEF SessionInv
    <2>3. MarkerOrder' /\ OwnOrder'
      BY <1>1, MarkerOrderKept, OwnKept DEF SessionInv
    <2>4. MarkerIsOwn' /\ AnswerIsOwn'
      BY <1>1, MarkerIsOwnKept, AnswerIsOwnKept DEF SessionInv
    <2> QED BY <2>1, <2>2, <2>3, <2>4 DEF SessionInv
  <1>2. CASE UNCHANGED sessionVars
    <2>1. /\ transport' = transport /\ registrable' = registrable /\ consoles' = consoles
          /\ console' = console /\ counter' = counter /\ fg' = fg /\ outcome' = outcome
          /\ answer' = answer /\ faults' = faults
      BY <1>2 DEF sessionVars
    <2>2. SessionTypeOK' /\ StepInv'
      BY <2>1 DEF SessionInv, SessionTypeOK, StepInv, Idle, Exchanging, Open, Current
    <2>3. RunningInv' /\ EndInv' /\ NoOrphan'
      BY <2>1 DEF SessionInv, RunningInv, EndInv, NoOrphan, Live
    <2>4. Open' = Open /\ Current' = Current /\ Asked' = Asked /\ OutputOf(Asked)' = OutputOf(Asked)
          /\ ToRead(console)' = ToRead(console) /\ Reply' = Reply /\ Live(console)' = Live(console)
          /\ Exchanging' = Exchanging /\ Idle' = Idle
      BY <2>1 DEF Open, Current, Asked, OutputOf, ToRead, Reply, Live, Exchanging, Idle
    <2>5. MarkerOrder'
      BY <2>1, <2>4 DEF SessionInv, MarkerOrder, Garbled, MarkersInv, PromptInv, MarkerInv, OutputIsLast, Before
    <2>6. OwnOrder'
      BY <2>1, <2>4 DEF SessionInv, OwnOrder, Spoiled, OwnInv, Printed, Pending
    <2>7. MarkerIsOwn' /\ AnswerIsOwn'
      BY <2>1 DEF SessionInv, MarkerIsOwn, AnswerIsOwn
    <2> QED BY <2>2, <2>3, <2>5, <2>6, <2>7 DEF SessionInv
  <1> QED BY <1>1, <1>2

(* So a session keeps it.                                                    *)
LEMMA SessionHolds == SessionSpec => []SessionInv
  <1> QED BY SessionStarts, SessionKept, PTL DEF SessionSpec

(* Only the process a session still names is alive: a failed start, a timeout,
   a retried connect and an interrupt each end the process they give up.       *)
THEOREM NoProcessIsLeftBehind == SessionSpec => []NoOrphan
  <1>1. SessionInv => NoOrphan
    BY DEF SessionInv
  <1> QED BY <1>1, SessionHolds, PTL

(* The end a queue tells of is the end of its own process, whatever readers of
   earlier consoles are still there.                                          *)
THEOREM TheEndIsItsOwn == SessionSpec => []EofIsReal
  <1>1. SessionInv => EofIsReal
    <2> SUFFICES ASSUME SessionInv, NEW c \in DOMAIN consoles, NEW i \in DOMAIN consoles[c].queue,
                        consoles[c].queue[i] = Eof
                 PROVE  ~Live(c) \/ consoles[c].reader = "failed"
      BY DEF EofIsReal
    <2>1. consoles[c].reader # "reading" /\ (consoles[c].reader = "done" => ~Live(c))
      BY DEF SessionInv, EndInv
    <2>2. consoles[c] \in ConsoleType
      BY LenProperties DEF SessionInv, SessionTypeOK
    <2>3. consoles[c].reader \in {"reading", "done", "failed"}
      BY <2>2 DEF ConsoleType
    <2> QED BY <2>1, <2>3
  <1> QED BY <1>1, SessionHolds, PTL

(* A statement goes only to a console that was opened to the end, and a script
   to one whose process works in the script's root.                           *)
THEOREM TheRightProcessIsAsked == SessionSpec => []AsksTheRightProcess
  <1>1. SessionInv => AsksTheRightProcess
    BY DEF SessionInv, StepInv, AsksTheRightProcess, Idle
  <1> QED BY <1>1, SessionHolds, PTL

(* An answer ends with the output of the request it is given to, also when an
   earlier statement was cut off and its output is still to come: unless a
   reader failed or a script ended the process.                               *)
THEOREM TheMarkerIsItsOwn == SessionSpec => []MarkerIsOwn
  <1>1. SessionInv => MarkerIsOwn
    BY DEF SessionInv
  <1> QED BY <1>1, SessionHolds, PTL

(* An answer is the output of its own request and nothing else, through any
   number of requests, retries, timeouts and reopened consoles: unless a
   statement was cut off before, or a reader failed.                          *)
THEOREM TheAnswerIsItsOwn == SessionSpec => []AnswerIsOwn
  <1>1. SessionInv => AnswerIsOwn
    BY DEF SessionInv
  <1> QED BY <1>1, SessionHolds, PTL
=============================================================================
