------------------------ MODULE CodexProposerProofs ------------------------
(***************************************************************************)
(* What holds of CodexProposer for every set of jobs and evidence, every    *)
(* number of attempts, messages and faults.                                 *)
(*                                                                          *)
(* The three properties come from one invariant.  A call's place in the     *)
(* code says which substrate it runs on and whether its server may live     *)
(* (PlaceInv, ServerInv).  The messages of a turn form one stream, whatever *)
(* part of it is deferred, put back, in the channel or still to be sent:    *)
(* of one turn, the message that ends it last (Stream); between turns there *)
(* is none of them (Quiet), so that a wait reads its own turn's end.  The   *)
(* manifest and the login are followed through the places they are copied   *)
(* to (DiskInv, HomeInv), and so is what a failing call leaves (LeftInv).   *)
(***************************************************************************)
EXTENDS CodexProposer, TLAPS
-----------------------------------------------------------------------------
(* The invariant *)

LaunchPc == {"pool", "chat", "stage", "prepare", "spawn", "provision"}
OpenPc   == {"initialize", "initialize_wait", "thread", "thread_wait", "turn", "exec", "exec_wait"}
FlowPc   == {"started_wait", "turn_wait"}
NanoPc   == {"record", "drop", "orphan", "interrupt", "interrupt_wait"}
LocalPc  == {"persist", "terminate", "join", "joining"}
RemotePc == {"auth_sync", "output_sync", "close"}
AfterPc  == {"sync", "cleanup"}
EndPc    == {"idle", "returned", "done"}
Pc == LaunchPc \cup OpenPc \cup FlowPc \cup NanoPc \cup LocalPc \cup RemotePc \cup AfterPc \cup EndPc

Clients(t) == [next : Nat \ {0}, buffer : Seq(Message), deferred : Seq(Message),
               wait : Nat, turn : 0..t]
Servers    == [proc : {"none", "up", "wedged", "dead"}, resp : Seq(Message), notes : Seq(Message)]
Watches    == [at : {"gone", "asleep", "marking", "killing"}, done : BOOLEAN, killed : BOOLEAN]
Homes(t)   == [source : 0..t, staged : 0..t \cup {Missing, Invalid}, latest : 0..t \cup {Invalid}]
Disks(t)   == [orig : 0..t, staged : 0..t, remote : 0..t, latest : 0..t]
Lefts      == [staging : BOOLEAN, sandbox : BOOLEAN, warned : BOOLEAN, orphan : BOOLEAN]

Types ==
    /\ job \in Jobs /\ input \in Inputs /\ pc \in Pc
    /\ ask \in {"proposal", "review", "command"}
    /\ client \in Clients(turns) /\ srv \in Servers /\ chan \in Seq(Message)
    /\ session \in 0..MaxTurnsPerSession \cup {NoSession}
    /\ wd \in Watches /\ home \in Homes(turns) /\ disk \in Disks(turns) /\ left \in Lefts
    /\ turns \in Nat /\ own \in 0..turns /\ got \in 0..turns
    /\ accepted \in 0..turns \cup {NoManifest}
    /\ seen \subseteq 1..turns
    /\ attempt \in 0..MaxAttempts /\ faults \in 0..MaxFaults

\* What is asked goes with the call, and a place in the code with both.
PlaceInv ==
    /\ (ask = "command") <=> (job.call = "exec")
    /\ pc = "idle" => attempt < MaxAttempts
    /\ pc = "chat" => job.call = "chat"
    /\ job.call = "chat" => pc \in {"chat"} \cup EndPc
    /\ pc = "pool" \/ pc \in NanoPc => job.call = "nano"
    /\ pc \in {"exec", "exec_wait"} => job.call = "exec"
    /\ pc \in {"thread", "thread_wait", "turn"} \cup FlowPc => job.call \in {"turn", "nano"}
    /\ pc \in {"provision"} \cup RemotePc => Remote
    /\ pc = "spawn" => ~Remote
    /\ pc \in LocalPc => ~Remote /\ job.call \in {"turn", "exec"}
    /\ pc = "stage" \/ pc \in AfterPc => Staged
    /\ session # NoSession => job.call = "nano" /\ pc \notin {"prepare", "spawn", "orphan"} \cup Starting
    /\ job.call = "nano" /\ pc \in {"turn", "record"} \cup FlowPc => session \in 0..(MaxTurnsPerSession - 1)

Early == LaunchPc \cup OpenPc \cup FlowPc

\* The server is gone where a call on this host ends.
ServerInv ==
    /\ wd.at # "gone" => OneShot /\ ~Remote /\ pc \in OpenPc \cup FlowPc \cup LocalPc
    /\ (~Remote /\ job.call \in {"turn", "exec"} /\ pc \notin EndPc) =>
         (Alive => pc \in OpenPc \cup FlowPc \cup {"persist", "terminate"})
    /\ (~Remote /\ job.call \in {"turn", "exec"} /\ pc = "returned") => ~Alive
    /\ (Remote /\ pc \in LaunchPc) => ~Alive
    /\ (Remote /\ pc \in AfterPc \cup {"returned"}) => ~Alive \/ job.keep \/ left.warned
    /\ pc \in Early => result = "none"

\* Messages.
Noted(m) == m.type \in {"started", "item", "completed", "failed", "interrupted"}
Ends(m)  == m.type \in {"completed", "failed"}

Clean(s)   == \A k \in DOMAIN s : ~Noted(s[k])
AllNoted(s) == \A k \in DOMAIN s : Noted(s[k])
EndsIn(s)  == \E k \in DOMAIN s : Ends(s[k])
LastEnd(s) == \A k, l \in DOMAIN s : k < l /\ Ends(s[k]) => ~Noted(s[l])
Below(s, n) == \A k \in DOMAIN s : s[k].type \in {"response", "error"} => s[k].id < n
OfTurn(s, t) == \A k \in DOMAIN s : Noted(s[k]) => s[k].turn \in {0, t} /\ s[k].type # "interrupted"
Answered(s, n, t) == \A k \in DOMAIN s : s[k].type = "response" /\ s[k].id = n => s[k].turn = t

\* No notification of a turn is on its way.
Quiet == Clean(client.deferred) /\ Clean(client.buffer) /\ Clean(chan) /\ srv.notes = <<>>

\* The notifications on their way, deferred, put back, sent and to be sent, are
\* of turn t, and the one that ends it comes last.
Stream(d, b, c, n, t) ==
    /\ OfTurn(d, t) /\ OfTurn(b, t) /\ OfTurn(c, t) /\ OfTurn(n, t)
    /\ LastEnd(d) /\ LastEnd(b) /\ LastEnd(c) /\ LastEnd(n)
    /\ EndsIn(d) => Clean(b) /\ Clean(c) /\ n = <<>>
    /\ EndsIn(b) => Clean(c) /\ n = <<>>
    /\ EndsIn(c) => n = <<>>

IdInv ==
    /\ client.wait < client.next
    /\ Below(client.deferred, client.next) /\ Below(client.buffer, client.next)
    /\ Below(chan, client.next) /\ Below(srv.resp, client.next)

DeferPc == {"initialize_wait", "thread_wait", "exec_wait", "interrupt_wait", "started_wait"}

QuietInv ==
    /\ Clean(srv.resp) /\ AllNoted(srv.notes)
    /\ pc \in OpenPc \cup {"record", "chat"} \/ result = "ok" => Quiet
    /\ session # NoSession => Quiet \/ pc \in FlowPc \cup NanoPc
    /\ (job.call = "nano" /\ pc \notin FlowPc \cup NanoPc) => srv.notes = <<>>
    /\ pc = "orphan" => srv.notes = <<>>
    /\ pc \notin DeferPc => client.deferred = <<>>

FlowInv ==
    /\ srv.notes # <<>> => own = turns /\ own # 0
    /\ got \in {0, own}
    /\ pc \in FlowPc => Stream(client.deferred, client.buffer, chan, srv.notes, own)
    /\ pc \in FlowPc /\ ~Remote /\ own \in seen =>
         EndsIn(client.deferred) \/ EndsIn(client.buffer) \/ EndsIn(chan)
    /\ pc = "started_wait" =>
        /\ Answered(client.deferred, client.wait, own) /\ Answered(client.buffer, client.wait, own)
        /\ Answered(chan, client.wait, own) /\ Answered(srv.resp, client.wait, own)
    /\ pc = "turn_wait" => client.turn = own

\* The manifest.
DiskInv ==
    /\ pc \in LaunchPc \cup OpenPc => own = 0
    /\ job.call = "exec" => own = 0
    /\ disk.latest \in {0, own}
    /\ ~Staged => disk.orig = disk.latest
    /\ (Staged /\ pc = "stage" /\ job.call = "turn") => disk.orig = 0
    /\ (Staged /\ job.call = "turn" /\ pc \in {"prepare", "provision"}) => disk.staged = disk.latest
    /\ (Staged /\ ~Remote /\ pc \in OpenPc \cup FlowPc \cup LocalPc \cup {"spawn", "sync"}) =>
         disk.staged = disk.latest
    /\ (Remote /\ job.call = "turn" /\ pc \in OpenPc \cup FlowPc \cup {"auth_sync", "output_sync"}) =>
         disk.remote = disk.latest
    /\ (Remote /\ job.call = "turn" /\ pc \in {"close", "sync"} /\ result = "ok") =>
         disk.staged = disk.latest
    /\ (job.call = "turn" /\ pc \in {"cleanup", "returned"} /\ result = "ok") => disk.orig = disk.latest
    /\ accepted # NoManifest =>
        /\ pc = "done" /\ result = "ok" /\ accepted = disk.latest
        /\ ask # "review" => accepted = own

\* The login.
HomeInv ==
    (job.auth = "chatgpt" /\ job.call \in {"turn", "exec"}) =>
        /\ pc \in {"spawn", "provision"} \cup OpenPc \cup FlowPc \cup {"persist", "auth_sync"} =>
             home.staged = home.latest
        /\ (result = "ok" /\ pc \in {"terminate", "join", "joining", "output_sync", "close", "returned"} \cup AfterPc) =>
             home.source = home.latest

\* What exists outside the workspace.
LeftInv ==
    /\ left.staging => Staged
    /\ left.sandbox => Remote
    /\ (pc = "returned" /\ job.call \in {"turn", "exec"} /\ result = "ok") =>
         /\ ~left.staging
         /\ home.staged = Missing \/ left.warned
    /\ (pc \in {"join", "joining"}) => home.staged = Missing \/ left.warned
    /\ (Remote /\ pc \in AfterPc \cup {"returned"} /\ result = "ok" /\ left.sandbox) =>
         job.keep \/ left.warned

ShownInv == shown \in {{}, WorkspaceRows(input)}

CodexInv == Types /\ PlaceInv /\ ServerInv /\ IdInv /\ QuietInv /\ FlowInv /\ DiskInv /\ HomeInv
            /\ LeftInv /\ ShownInv

-----------------------------------------------------------------------------
(* Sequences of messages *)

LEMMA EmptyFacts ==
    /\ <<>> \in Seq(Message) /\ Clean(<<>>) /\ ~EndsIn(<<>>) /\ LastEnd(<<>>)
    /\ \A n : Below(<<>>, n)
    /\ \A t : OfTurn(<<>>, t)
    /\ \A n, t : Answered(<<>>, n, t)
  BY DEF Clean, EndsIn, LastEnd, Below, OfTurn, Answered

LEMMA CleanFacts ==
    ASSUME NEW s \in Seq(Message), Clean(s)
    PROVE  ~EndsIn(s) /\ LastEnd(s) /\ \A t : OfTurn(s, t)
  BY DEF Clean, EndsIn, LastEnd, OfTurn, Noted, Ends

LEMMA BelowFacts ==
    ASSUME NEW s \in Seq(Message), NEW n \in Nat, Below(s, n)
    PROVE  /\ \A m \in Nat : n <= m => Below(s, m)
           /\ \A t : Answered(s, n, t)
<1>1. ASSUME NEW k \in DOMAIN s PROVE s[k] \in Message /\ s[k].id \in Nat
  <2>1. s[k] \in Message
    OBVIOUS
  <2> QED  BY <2>1 DEF Message
<1>2. ASSUME NEW m \in Nat, n <= m PROVE Below(s, m)
  <2> SUFFICES ASSUME NEW k \in DOMAIN s, s[k].type \in {"response", "error"} PROVE s[k].id < m
    BY DEF Below
  <2>1. s[k].id < n
    BY DEF Below
  <2> QED  BY <2>1, <1>1, <1>2
<1>3. ASSUME NEW k \in DOMAIN s, s[k].type = "response" PROVE s[k].id # n
  BY <1>1, <1>3 DEF Below
<1> QED  BY <1>2, <1>3 DEF Answered

LEMMA AppendFacts ==
    ASSUME NEW s \in Seq(Message), NEW m \in Message
    PROVE  /\ Append(s, m) \in Seq(Message)
           /\ Clean(Append(s, m)) <=> Clean(s) /\ ~Noted(m)
           /\ EndsIn(Append(s, m)) <=> EndsIn(s) \/ Ends(m)
           /\ LastEnd(s) /\ (EndsIn(s) => ~Noted(m)) => LastEnd(Append(s, m))
           /\ \A n : Below(s, n) /\ (m.type \in {"response", "error"} => m.id < n)
                       => Below(Append(s, m), n)
           /\ \A t : OfTurn(s, t) /\ (Noted(m) => m.turn \in {0, t} /\ m.type # "interrupted")
                       => OfTurn(Append(s, m), t)
           /\ \A n, t : Answered(s, n, t) /\ (m.type = "response" /\ m.id = n => m.turn = t)
                       => Answered(Append(s, m), n, t)
<1> DEFINE a == Append(s, m)
<1>1. /\ a \in Seq(Message) /\ Len(a) = Len(s) + 1 /\ Len(s) \in Nat
      /\ DOMAIN s = 1..Len(s) /\ DOMAIN a = 1..Len(a)
      /\ \A k \in DOMAIN s : a[k] = s[k]
      /\ a[Len(s) + 1] = m
  OBVIOUS
<1> HIDE DEF a
<1>2. \A k \in DOMAIN a : k \in DOMAIN s \/ k = Len(s) + 1
  BY <1>1
<1>3. DOMAIN s \subseteq DOMAIN a /\ Len(s) + 1 \in DOMAIN a
  BY <1>1
<1>4. Clean(a) <=> Clean(s) /\ ~Noted(m)
  BY <1>1, <1>2, <1>3 DEF Clean
<1>5. EndsIn(a) <=> EndsIn(s) \/ Ends(m)
  BY <1>1, <1>2, <1>3 DEF EndsIn
<1>6. ASSUME LastEnd(s), EndsIn(s) => ~Noted(m) PROVE LastEnd(a)
  <2> SUFFICES ASSUME NEW k \in DOMAIN a, NEW l \in DOMAIN a, k < l, Ends(a[k]) PROVE ~Noted(a[l])
    BY DEF LastEnd
  <2>1. k \in DOMAIN s /\ a[k] = s[k]
    BY <1>1
  <2>2. CASE l \in DOMAIN s
    BY <1>1, <1>6, <2>1, <2>2 DEF LastEnd
  <2>3. CASE l = Len(s) + 1
    BY <1>1, <1>6, <2>1, <2>3 DEF EndsIn
  <2> QED  BY <1>2, <2>2, <2>3
<1>7. ASSUME NEW n, Below(s, n), m.type \in {"response", "error"} => m.id < n PROVE Below(a, n)
  BY <1>1, <1>2, <1>7 DEF Below
<1>8. ASSUME NEW t, OfTurn(s, t), Noted(m) => m.turn \in {0, t} /\ m.type # "interrupted" PROVE OfTurn(a, t)
  BY <1>1, <1>2, <1>8 DEF OfTurn
<1>9. ASSUME NEW n, NEW t, Answered(s, n, t), m.type = "response" /\ m.id = n => m.turn = t
      PROVE  Answered(a, n, t)
  BY <1>1, <1>2, <1>9 DEF Answered
<1> QED  BY <1>1, <1>4, <1>5, <1>6, <1>7, <1>8, <1>9 DEF a

LEMMA TailFacts ==
    ASSUME NEW s \in Seq(Message), s # <<>>
    PROVE  /\ Tail(s) \in Seq(Message) /\ Head(s) \in Message
           /\ Clean(s) => Clean(Tail(s)) /\ ~Noted(Head(s))
           /\ EndsIn(s) <=> Ends(Head(s)) \/ EndsIn(Tail(s))
           /\ LastEnd(s) => LastEnd(Tail(s)) /\ (Ends(Head(s)) => Clean(Tail(s)))
           /\ \A n : Below(s, n) =>
                /\ Below(Tail(s), n)
                /\ Head(s).type \in {"response", "error"} => Head(s).id < n
           /\ \A t : OfTurn(s, t) =>
                /\ OfTurn(Tail(s), t)
                /\ Noted(Head(s)) => Head(s).turn \in {0, t} /\ Head(s).type # "interrupted"
           /\ \A n, t : Answered(s, n, t) =>
                /\ Answered(Tail(s), n, t)
                /\ Head(s).type = "response" /\ Head(s).id = n => Head(s).turn = t
<1> DEFINE a == Tail(s)
           h == Head(s)
<1>1. /\ a \in Seq(Message) /\ Len(s) = Len(a) + 1 /\ Len(a) \in Nat
      /\ DOMAIN s = 1..Len(s) /\ DOMAIN a = 1..Len(a)
      /\ \A k \in DOMAIN a : a[k] = s[k + 1]
      /\ h = s[1] /\ h \in Message
  OBVIOUS
<1> HIDE DEF a, h
<1>2. \A k \in DOMAIN s : k = 1 \/ (k - 1 \in DOMAIN a /\ a[k - 1] = s[k])
  BY <1>1
<1>3. 1 \in DOMAIN s /\ \A k \in DOMAIN a : k + 1 \in DOMAIN s
  BY <1>1
<1>4. Clean(s) => Clean(a) /\ ~Noted(h)
  BY <1>1, <1>3 DEF Clean
<1>5. EndsIn(s) <=> Ends(h) \/ EndsIn(a)
  BY <1>1, <1>2, <1>3 DEF EndsIn
<1>6. ASSUME LastEnd(s) PROVE LastEnd(a) /\ (Ends(h) => Clean(a))
  <2>1. ASSUME NEW k \in DOMAIN a, NEW l \in DOMAIN a, k < l, Ends(a[k]) PROVE ~Noted(a[l])
    BY <1>1, <1>3, <2>1, <1>6 DEF LastEnd
  <2>2. ASSUME NEW l \in DOMAIN a, Ends(h) PROVE ~Noted(a[l])
    BY <1>1, <1>3, <2>2, <1>6 DEF LastEnd
  <2> QED  BY <2>1, <2>2 DEF LastEnd, Clean
<1>7. ASSUME NEW n, Below(s, n) PROVE Below(a, n) /\ (h.type \in {"response", "error"} => h.id < n)
  BY <1>1, <1>3, <1>7 DEF Below
<1>8. ASSUME NEW t, OfTurn(s, t)
      PROVE  OfTurn(a, t) /\ (Noted(h) => h.turn \in {0, t} /\ h.type # "interrupted")
  BY <1>1, <1>3, <1>8 DEF OfTurn
<1>9. ASSUME NEW n, NEW t, Answered(s, n, t)
      PROVE  Answered(a, n, t) /\ (h.type = "response" /\ h.id = n => h.turn = t)
  BY <1>1, <1>3, <1>9 DEF Answered
<1> QED  BY <1>1, <1>4, <1>5, <1>6, <1>7, <1>8, <1>9 DEF a, h

LEMMA ConcatFacts ==
    ASSUME NEW s \in Seq(Message), NEW r \in Seq(Message)
    PROVE  /\ s \o r \in Seq(Message)
           /\ Clean(s \o r) <=> Clean(s) /\ Clean(r)
           /\ EndsIn(s \o r) <=> EndsIn(s) \/ EndsIn(r)
           /\ LastEnd(s) /\ LastEnd(r) /\ (EndsIn(s) => Clean(r)) => LastEnd(s \o r)
           /\ \A n : Below(s, n) /\ Below(r, n) => Below(s \o r, n)
           /\ \A t : OfTurn(s, t) /\ OfTurn(r, t) => OfTurn(s \o r, t)
           /\ \A n, t : Answered(s, n, t) /\ Answered(r, n, t) => Answered(s \o r, n, t)
<1> DEFINE a == s \o r
<1>1. /\ a \in Seq(Message) /\ Len(a) = Len(s) + Len(r) /\ Len(s) \in Nat /\ Len(r) \in Nat
      /\ DOMAIN s = 1..Len(s) /\ DOMAIN r = 1..Len(r) /\ DOMAIN a = 1..Len(a)
      /\ \A k \in DOMAIN s : a[k] = s[k]
      /\ \A k \in DOMAIN r : a[Len(s) + k] = r[k]
  OBVIOUS
<1> HIDE DEF a
<1>2. \A k \in DOMAIN a : \/ k \in DOMAIN s /\ a[k] = s[k]
                          \/ k > Len(s) /\ k - Len(s) \in DOMAIN r /\ a[k] = r[k - Len(s)]
  <2> SUFFICES ASSUME NEW k \in DOMAIN a, k \notin DOMAIN s
               PROVE  k > Len(s) /\ k - Len(s) \in DOMAIN r /\ a[k] = r[k - Len(s)]
    BY <1>1
  <2>1. k > Len(s) /\ k - Len(s) \in DOMAIN r /\ Len(s) + (k - Len(s)) = k
    BY <1>1
  <2>2. a[Len(s) + (k - Len(s))] = r[k - Len(s)]
    BY <1>1, <2>1
  <2> QED  BY <2>1, <2>2
<1>3. /\ \A k \in DOMAIN s : k \in DOMAIN a
      /\ \A k \in DOMAIN r : Len(s) + k \in DOMAIN a
  BY <1>1
<1>4. Clean(a) <=> Clean(s) /\ Clean(r)
  BY <1>1, <1>2, <1>3 DEF Clean
<1>5. EndsIn(a) <=> EndsIn(s) \/ EndsIn(r)
  BY <1>1, <1>2, <1>3 DEF EndsIn
<1>6. ASSUME LastEnd(s), LastEnd(r), EndsIn(s) => Clean(r) PROVE LastEnd(a)
  <2> SUFFICES ASSUME NEW k \in DOMAIN a, NEW l \in DOMAIN a, k < l, Ends(a[k]) PROVE ~Noted(a[l])
    BY DEF LastEnd
  <2>1. CASE k \in DOMAIN s /\ l \in DOMAIN s
    BY <1>1, <1>6, <2>1 DEF LastEnd
  <2>2. CASE k \in DOMAIN s /\ l - Len(s) \in DOMAIN r /\ a[l] = r[l - Len(s)]
    BY <1>1, <1>6, <2>2 DEF EndsIn, Clean
  <2>3. CASE k > Len(s) /\ k - Len(s) \in DOMAIN r /\ a[k] = r[k - Len(s)]
    BY <1>1, <2>3, <1>2, <1>6 DEF LastEnd
  <2> QED  BY <1>2, <2>1, <2>2, <2>3
<1>7. ASSUME NEW n, Below(s, n), Below(r, n) PROVE Below(a, n)
  BY <1>1, <1>2, <1>7 DEF Below
<1>8. ASSUME NEW t, OfTurn(s, t), OfTurn(r, t) PROVE OfTurn(a, t)
  BY <1>1, <1>2, <1>8 DEF OfTurn
<1>9. ASSUME NEW n, NEW t, Answered(s, n, t), Answered(r, n, t) PROVE Answered(a, n, t)
  BY <1>1, <1>2, <1>9 DEF Answered
<1> QED  BY <1>1, <1>4, <1>5, <1>6, <1>7, <1>8, <1>9 DEF a

\* Reading one message, from the buffer or else from the channel.
LEMMA ReadFacts ==
    ASSUME Types, Available, TakeMsg
    PROVE  /\ NextMsg \in Message /\ Rest \in Seq(Message) /\ chan' \in Seq(Message)
           /\ Clean(client.buffer) /\ Clean(chan) => Clean(Rest) /\ Clean(chan') /\ ~Noted(NextMsg)
           /\ Clean(chan) => Clean(chan')
           /\ Clean(client.buffer) => Clean(Rest)
           /\ EndsIn(client.buffer) \/ EndsIn(chan) <=> Ends(NextMsg) \/ EndsIn(Rest) \/ EndsIn(chan')
           /\ EndsIn(Rest) => EndsIn(client.buffer)
           /\ EndsIn(chan') => EndsIn(chan)
           /\ LastEnd(client.buffer) /\ LastEnd(chan) /\ (EndsIn(client.buffer) => Clean(chan)) =>
                LastEnd(Rest) /\ LastEnd(chan') /\ (Ends(NextMsg) => Clean(Rest) /\ Clean(chan'))
           /\ \A n : Below(client.buffer, n) /\ Below(chan, n) => Below(Rest, n) /\ Below(chan', n)
                /\ (NextMsg.type \in {"response", "error"} => NextMsg.id < n)
           /\ \A t : OfTurn(client.buffer, t) /\ OfTurn(chan, t) => OfTurn(Rest, t) /\ OfTurn(chan', t)
                /\ (Noted(NextMsg) => NextMsg.turn \in {0, t} /\ NextMsg.type # "interrupted")
           /\ \A n, t : Answered(client.buffer, n, t) /\ Answered(chan, n, t) =>
                Answered(Rest, n, t) /\ Answered(chan', n, t)
                /\ (NextMsg.type = "response" /\ NextMsg.id = n => NextMsg.turn = t)
<1> DEFINE b == client.buffer
<1>1. b \in Seq(Message) /\ chan \in Seq(Message)
  BY DEF Types, Clients
<1>2. CASE b # <<>>
  <2>1. NextMsg = Head(b) /\ Rest = Tail(b) /\ chan' = chan
    BY <1>2 DEF NextMsg, Rest, TakeMsg
  <2> HIDE DEF b
  <2> QED  BY <1>1, <1>2, <2>1, TailFacts DEF b
<1>3. CASE b = <<>>
  <2>1. NextMsg = Head(chan) /\ Rest = <<>> /\ chan' = Tail(chan) /\ chan # <<>>
    BY <1>3 DEF NextMsg, Rest, TakeMsg, Available
  <2> HIDE DEF b
  <2> QED  BY <1>1, <1>3, <2>1, TailFacts, EmptyFacts DEF b
<1> QED  BY <1>2, <1>3

LEMMA JobFacts ==
    Types => /\ job.call \in {"turn", "exec", "nano", "chat"}
             /\ job.sub \in {"local", "docker", "daytona"}
             /\ job.auth \in {"chatgpt", "api_key"}
             /\ job.keep \in BOOLEAN /\ job.back \in BOOLEAN
             /\ job.call \in {"nano", "chat"} => job.sub = "local"
             /\ job.call = "exec" => job.sub # "docker"
  BY AgentTurnAssumption DEF Types

\* What a process, a client and a watchdog are made of.
LEMMA NewTyped ==
    /\ \A t \in Nat : NoClient \in Clients(t)
    /\ NoServer \in Servers
    /\ \A p \in {"up", "dead"} : [NoServer EXCEPT !.proc = p] \in Servers
    /\ NoWatch \in Watches /\ [NoWatch EXCEPT !.at = "asleep"] \in Watches
<1>1. \A t \in Nat : NoClient \in Clients(t)
  BY DEF NoClient, Clients
<1>2. NoServer \in Servers
  BY EmptyFacts DEF NoServer, Servers
<1>3. \A p \in {"up", "dead"} : [NoServer EXCEPT !.proc = p] \in Servers
  BY EmptyFacts DEF NoServer, Servers
<1> QED  BY <1>1, <1>2, <1>3 DEF NoWatch, Watches

LEMMA BeginCallTyped ==
    ASSUME Types, PlaceInv, pc = "idle", BeginCall
    PROVE  /\ client' \in Clients(turns') /\ srv' \in Servers /\ chan' \in Seq(Message)
           /\ wd' \in Watches /\ left' \in Lefts /\ attempt' \in 0..MaxAttempts
           /\ turns' = turns /\ own' = 0 /\ got' = 0 /\ seen' = {}
           /\ UNCHANGED <<job, session, home, faults, ask, accepted, input>>
<1>1. client' \in Clients(turns) /\ srv' \in Servers /\ chan' \in Seq(Message) /\ wd' \in Watches
  <2>1. CASE OneShot
    BY <2>1, NewTyped, EmptyFacts DEF BeginCall, Types
  <2>2. CASE ~OneShot
    BY <2>2, NewTyped DEF BeginCall, Types
  <2> QED  BY <2>1, <2>2
<1>2. left' \in Lefts
  BY DEF BeginCall, Types, Lefts
<1>3. attempt' \in 0..MaxAttempts
  BY CodexProposerAssumption DEF BeginCall, Types, PlaceInv
<1> QED  BY <1>1, <1>2, <1>3 DEF BeginCall

LEMMA NotedFacts ==
    ASSUME NEW s \in Seq(Message), AllNoted(s)
    PROVE  Clean(s) => s = <<>>
<1> SUFFICES ASSUME s # <<>> PROVE ~Clean(s)
  OBVIOUS
<1>1. 1 \in DOMAIN s
  OBVIOUS
<1> QED  BY <1>1 DEF AllNoted, Clean

LEMMA NotedTail ==
    ASSUME NEW s \in Seq(Message), AllNoted(s), s # <<>>
    PROVE  AllNoted(Tail(s))
BY DEF AllNoted

-----------------------------------------------------------------------------
(* The stream of a turn *)

\* A message that is not a notification may be added anywhere.
LEMMA StreamBeside ==
    ASSUME NEW d \in Seq(Message), NEW b \in Seq(Message), NEW c \in Seq(Message), NEW n \in Seq(Message),
           NEW t, Stream(d, b, c, n, t), NEW m \in Message, ~Noted(m)
    PROVE  Stream(d, b, Append(c, m), n, t) /\ (EndsIn(Append(c, m)) <=> EndsIn(c))
BY AppendFacts DEF Ends, Noted, Stream

LEMMA StreamReported ==
    ASSUME NEW d \in Seq(Message), NEW b \in Seq(Message), NEW c \in Seq(Message), NEW n \in Seq(Message),
           NEW t, Stream(d, b, c, n, t), n # <<>>, AllNoted(n)
    PROVE  /\ Stream(d, b, Append(c, Head(n)), Tail(n), t)
           /\ EndsIn(Append(c, Head(n))) <=> EndsIn(c) \/ Ends(Head(n))
BY TailFacts, NotedTail, NotedFacts, AppendFacts DEF Stream

LEMMA StreamRead ==
    ASSUME Types, Available, TakeMsg, NEW t,
           Stream(client.deferred, client.buffer, chan, srv.notes, t)
    PROVE  /\ Stream(<<>>, client.deferred \o Rest, chan', srv.notes, t)
           /\ Stream(Append(client.deferred, NextMsg), Rest, chan', srv.notes, t)
           /\ Stream(client.deferred, Rest, chan', srv.notes, t)
           /\ Ends(NextMsg) => Clean(Rest) /\ Clean(chan') /\ srv.notes = <<>>
           /\ Noted(NextMsg) => NextMsg.turn \in {0, t} /\ NextMsg.type # "interrupted"
<1> DEFINE d == client.deferred
           b == client.buffer
           n == srv.notes
<1>1. d \in Seq(Message) /\ b \in Seq(Message) /\ chan \in Seq(Message) /\ n \in Seq(Message)
  BY DEF Types, Clients, Servers
<1>2. /\ OfTurn(d, t) /\ OfTurn(b, t) /\ OfTurn(chan, t) /\ OfTurn(n, t)
      /\ LastEnd(d) /\ LastEnd(b) /\ LastEnd(chan) /\ LastEnd(n)
      /\ EndsIn(d) => Clean(b) /\ Clean(chan) /\ n = <<>>
      /\ EndsIn(b) => Clean(chan) /\ n = <<>>
      /\ EndsIn(chan) => n = <<>>
  BY DEF Stream
<1>3. /\ NextMsg \in Message /\ Rest \in Seq(Message) /\ chan' \in Seq(Message)
      /\ Clean(b) /\ Clean(chan) => Clean(Rest) /\ Clean(chan') /\ ~Noted(NextMsg)
      /\ Clean(chan) => Clean(chan')
      /\ EndsIn(b) \/ EndsIn(chan) <=> Ends(NextMsg) \/ EndsIn(Rest) \/ EndsIn(chan')
      /\ EndsIn(Rest) => EndsIn(b)
      /\ EndsIn(chan') => EndsIn(chan)
      /\ LastEnd(Rest) /\ LastEnd(chan') /\ (Ends(NextMsg) => Clean(Rest) /\ Clean(chan'))
      /\ OfTurn(Rest, t) /\ OfTurn(chan', t)
      /\ Noted(NextMsg) => NextMsg.turn \in {0, t} /\ NextMsg.type # "interrupted"
  BY <1>2, ReadFacts
<1>4. /\ OfTurn(d \o Rest, t) /\ (EndsIn(d \o Rest) <=> EndsIn(d) \/ EndsIn(Rest))
      /\ LastEnd(d \o Rest)
  BY <1>1, <1>2, <1>3, ConcatFacts
<1>5. /\ OfTurn(Append(d, NextMsg), t) /\ (EndsIn(Append(d, NextMsg)) <=> EndsIn(d) \/ Ends(NextMsg))
      /\ LastEnd(Append(d, NextMsg))
  BY <1>1, <1>2, <1>3, AppendFacts
<1> HIDE DEF d, b, n
<1>6. Stream(<<>>, d \o Rest, chan', n, t)
  BY <1>2, <1>3, <1>4, EmptyFacts DEF Stream
<1>7. Stream(Append(d, NextMsg), Rest, chan', n, t)
  BY <1>2, <1>3, <1>5 DEF Stream
<1>8. Stream(d, Rest, chan', n, t)
  BY <1>2, <1>3 DEF Stream
<1>9. Ends(NextMsg) => n = <<>>
  BY <1>2, <1>3
<1> QED  BY <1>3, <1>6, <1>7, <1>8, <1>9 DEF d, b, n

\* Nothing is on its way, and a turn begins.
LEMMA StreamStarts ==
    ASSUME NEW d \in Seq(Message), NEW b \in Seq(Message), NEW c \in Seq(Message),
           Clean(d), Clean(b), Clean(c), NEW t \in Nat, NEW fin \in {"completed", "failed"},
           NEW named \in {0, t}, NEW n,
           n = <<Msg("started", 0, named), Msg("item", 0, named), Msg(fin, 0, named)>>
    PROVE  n \in Seq(Message) /\ AllNoted(n) /\ n # <<>> /\ Stream(d, b, c, n, t)
<1>1. /\ Msg("started", 0, named) \in Message /\ Msg("item", 0, named) \in Message
      /\ Msg(fin, 0, named) \in Message
  BY DEF Msg, Message
<1>2. /\ n \in Seq(Message) /\ n # <<>> /\ DOMAIN n = {1, 2, 3}
      /\ n[1] = Msg("started", 0, named) /\ n[2] = Msg("item", 0, named) /\ n[3] = Msg(fin, 0, named)
  BY <1>1
<1>3. /\ n[1].type = "started" /\ n[2].type = "item" /\ n[3].type = fin
      /\ n[1].turn = named /\ n[2].turn = named /\ n[3].turn = named
  BY <1>2 DEF Msg
<1>4. AllNoted(n)
  BY <1>2, <1>3 DEF AllNoted, Noted
<1>5. OfTurn(n, t)
  BY <1>2, <1>3 DEF OfTurn
<1>6. LastEnd(n)
  BY <1>2, <1>3 DEF LastEnd, Ends
<1> QED  BY <1>2, <1>4, <1>5, <1>6, CleanFacts DEF Stream

\* Nothing is on its way, and nothing will be.
LEMMA StreamSilent ==
    ASSUME NEW d \in Seq(Message), NEW b \in Seq(Message), NEW c \in Seq(Message),
           Clean(d), Clean(b), Clean(c), NEW t
    PROVE  Stream(d, b, c, <<>>, t)
  BY CleanFacts, EmptyFacts DEF Stream

\* The server is gone, and what it was to say with it.
LEMMA ServerGone ==
    ASSUME IdInv, UNCHANGED <<client, chan>>, srv'.resp = <<>>, srv'.notes = <<>>
    PROVE  /\ IdInv' /\ Clean(srv'.resp) /\ AllNoted(srv'.notes) /\ (Quiet => Quiet')
           /\ \A n, t : Answered(srv'.resp, n, t)
           /\ \A t : Stream(client.deferred, client.buffer, chan, srv.notes, t) =>
                Stream(client'.deferred, client'.buffer, chan', srv'.notes, t)
BY EmptyFacts DEF AllNoted, IdInv, Quiet, Stream

\* A new client and a new server, or none.
LEMMA NewClient ==
    ASSUME client' = NoClient, chan' = <<>>, srv'.resp = <<>>, srv'.notes = <<>>
    PROVE  /\ IdInv' /\ Clean(srv'.resp) /\ AllNoted(srv'.notes) /\ Quiet'
           /\ client'.deferred = <<>>
BY EmptyFacts DEF AllNoted, NoClient, IdInv, Quiet

\* What was written by some turn stays so when turns are added.
LEMMA MoreTurns ==
    ASSUME NEW t \in Nat, NEW u \in Nat, t <= u
    PROVE  /\ 0..t \subseteq 0..u /\ 1..t \subseteq 1..u
           /\ Clients(t) \subseteq Clients(u)
           /\ Homes(t) \subseteq Homes(u)
           /\ Disks(t) \subseteq Disks(u)
BY DEF Clients, Homes, Disks

\* What a read that is no error makes of the client.
LEMMA ReadShape ==
    ASSUME CodexInv, Available, TakeMsg
    PROVE  /\ chan' \in Seq(Message) /\ NextMsg \in Message
           /\ \A t \in 0..turns : Accept(t) =>
                /\ client' \in Clients(turns) /\ client'.buffer = client.deferred \o Rest
                /\ client'.deferred = <<>> /\ client'.next = client.next
                /\ client'.wait = client.wait /\ client'.turn = t
                /\ Below(client'.buffer, client.next) /\ Below(chan', client.next)
                /\ Quiet /\ UNCHANGED srv => Quiet'
           /\ Defer =>
                /\ client' \in Clients(turns) /\ client'.buffer = Rest
                /\ client'.deferred = Append(client.deferred, NextMsg) /\ client'.next = client.next
                /\ client'.wait = client.wait /\ client'.turn = client.turn
                /\ Below(client'.buffer, client.next) /\ Below(chan', client.next)
                /\ Below(client'.deferred, client.next)
                /\ Quiet /\ UNCHANGED srv => Quiet'
<1>1. /\ client \in Clients(turns) /\ client.deferred \in Seq(Message) /\ client.next \in Nat
      /\ Types
  BY DEF CodexInv, Types, Clients
<1>2. /\ NextMsg \in Message /\ Rest \in Seq(Message) /\ chan' \in Seq(Message)
      /\ Below(Rest, client.next) /\ Below(chan', client.next)
      /\ NextMsg.type \in {"response", "error"} => NextMsg.id < client.next
      /\ Clean(client.buffer) /\ Clean(chan) => Clean(Rest) /\ Clean(chan') /\ ~Noted(NextMsg)
  BY <1>1, ReadFacts DEF CodexInv, IdInv
<1>3. /\ client.deferred \o Rest \in Seq(Message) /\ Below(client.deferred \o Rest, client.next)
      /\ Clean(client.deferred) /\ Clean(Rest) => Clean(client.deferred \o Rest)
      /\ <<>> \in Seq(Message) /\ Clean(<<>>)
  BY <1>1, <1>2, ConcatFacts, EmptyFacts DEF CodexInv, IdInv
<1>4. /\ Append(client.deferred, NextMsg) \in Seq(Message)
      /\ Below(Append(client.deferred, NextMsg), client.next)
      /\ Clean(client.deferred) /\ ~Noted(NextMsg) => Clean(Append(client.deferred, NextMsg))
  BY <1>1, <1>2, AppendFacts DEF CodexInv, IdInv
<1>5. ASSUME NEW t \in 0..turns, Accept(t)
      PROVE  /\ client' \in Clients(turns) /\ client'.buffer = client.deferred \o Rest
             /\ client'.deferred = <<>> /\ client'.next = client.next
             /\ client'.wait = client.wait /\ client'.turn = t
             /\ Below(client'.buffer, client.next) /\ Below(chan', client.next)
             /\ Quiet /\ UNCHANGED srv => Quiet'
  BY <1>1, <1>3, <1>5, <1>2 DEF Accept, restore_deferred, Clients, Quiet
<1>6. ASSUME Defer
      PROVE  /\ client' \in Clients(turns) /\ client'.buffer = Rest
             /\ client'.deferred = Append(client.deferred, NextMsg) /\ client'.next = client.next
             /\ client'.wait = client.wait /\ client'.turn = client.turn
             /\ Below(client'.buffer, client.next) /\ Below(chan', client.next)
             /\ Below(client'.deferred, client.next)
             /\ Quiet /\ UNCHANGED srv => Quiet'
  BY <1>1, <1>2, <1>4, <1>6 DEF Defer, Clients, Quiet
<1> QED  BY <1>2, <1>5, <1>6

-----------------------------------------------------------------------------
(* The server's steps.                                                      *)
LEMMA ServerResponds_Keeps ==
    ASSUME CodexInv, ServerResponds, UNCHANGED proposerVars
    PROVE  CodexInv'
<1>1. Types'
  <2>1. pc' \in Pc
    BY JobFacts DEF CodexInv, Types, PlaceInv, Remote, Staged, Pc, LaunchPc, OpenPc, FlowPc, NanoPc, LocalPc, RemotePc, AfterPc, EndPc, ServerResponds, Emit
  <2>2. chan' \in Seq(Message)
    BY EmptyFacts, AppendFacts, TailFacts DEF CodexInv, Types, Servers, ServerResponds, Emit
  <2>3. srv' \in Servers
    BY EmptyFacts, TailFacts, NewTyped DEF CodexInv, Types, Servers, ServerResponds, Emit
  <2> QED  BY <2>1, <2>2, <2>3 DEF CodexInv, Types, proposerVars, ServerResponds, Emit
<1>2. PlaceInv'
  BY JobFacts DEF CodexInv, Types, PlaceInv, Remote, Staged, Starting, Clients, Servers, Watches, Homes, Disks, Lefts, Pc, LaunchPc, OpenPc, FlowPc, NanoPc, LocalPc, RemotePc, AfterPc, EndPc, proposerVars, ServerResponds, Emit
<1>3. ServerInv'
  BY JobFacts DEF CodexInv, Types, PlaceInv, ServerInv, Early, Remote, Staged, Alive, OneShot, Clients, Servers, Watches, Homes, Disks, Lefts, Pc, LaunchPc, OpenPc, FlowPc, NanoPc, LocalPc, RemotePc, AfterPc, EndPc, proposerVars, ServerResponds, Emit
<1>4. IdInv'
  BY EmptyFacts, AppendFacts, TailFacts DEF CodexInv, Types, IdInv, Clients, Servers, Watches, Homes, Disks, Lefts, Pc, LaunchPc, OpenPc, FlowPc, NanoPc, LocalPc, RemotePc, AfterPc, EndPc, proposerVars, ServerResponds, Emit
<1>5. QuietInv'
  BY JobFacts, EmptyFacts, AppendFacts, TailFacts DEF CodexInv, Types, PlaceInv, ServerInv, Early, QuietInv, Quiet, DeferPc, Remote, Staged, Clients, Servers, Watches, Homes, Disks, Lefts, Pc, LaunchPc, OpenPc, FlowPc, NanoPc, LocalPc, RemotePc, AfterPc, EndPc, proposerVars, ServerResponds, Emit
<1>6. FlowInv'
  <2>1. /\ UNCHANGED <<job, pc, client, turns, own, got, seen>>
        /\ client.deferred \in Seq(Message) /\ client.buffer \in Seq(Message) /\ chan \in Seq(Message)
        /\ srv \in Servers /\ srv.resp \in Seq(Message) /\ srv.notes \in Seq(Message) /\ srv.resp # <<>>
        /\ chan' = Append(chan, Head(srv.resp))
        /\ srv'.notes = srv.notes /\ srv'.resp = Tail(srv.resp)
    BY DEF CodexInv, Types, Clients, Servers, ServerResponds, Emit
  <2>2. Head(srv.resp) \in Message /\ ~Noted(Head(srv.resp))
    BY <2>1, TailFacts DEF CodexInv, QuietInv
  <2>3. pc \in FlowPc => /\ Stream(client'.deferred, client'.buffer, chan', srv'.notes, own)
                         /\ EndsIn(chan') <=> EndsIn(chan)
    BY <2>1, <2>2, StreamBeside DEF CodexInv, FlowInv
  <2>4. pc = "started_wait" => Answered(chan', client.wait, own) /\ Answered(srv'.resp, client.wait, own)
    <3> SUFFICES ASSUME pc = "started_wait"
                 PROVE  Answered(chan', client.wait, own) /\ Answered(srv'.resp, client.wait, own)
      OBVIOUS
    <3>1. Answered(chan, client.wait, own) /\ Answered(srv.resp, client.wait, own)
      BY DEF CodexInv, FlowInv
    <3>2. /\ Answered(Tail(srv.resp), client.wait, own)
          /\ Head(srv.resp).type = "response" /\ Head(srv.resp).id = client.wait => Head(srv.resp).turn = own
      BY <2>1, <3>1, TailFacts
    <3> QED  BY <2>1, <2>2, <3>1, <3>2, AppendFacts
  <2> QED  BY <2>1, <2>3, <2>4 DEF CodexInv, FlowInv, Remote
<1>7. DiskInv'
  BY JobFacts DEF CodexInv, Types, PlaceInv, ServerInv, Early, QuietInv, Quiet, FlowInv, DiskInv, Remote, Staged, Clients, Servers, Watches, Homes, Disks, Lefts, Pc, LaunchPc, OpenPc, FlowPc, NanoPc, LocalPc, RemotePc, AfterPc, EndPc, proposerVars, ServerResponds, Emit
<1>8. HomeInv'
  BY JobFacts DEF CodexInv, Types, PlaceInv, ServerInv, Early, QuietInv, Quiet, HomeInv, Remote, Staged, Clients, Servers, Watches, Homes, Disks, Lefts, Pc, LaunchPc, OpenPc, FlowPc, NanoPc, LocalPc, RemotePc, AfterPc, EndPc, proposerVars, ServerResponds, Emit
<1>9. LeftInv'
  BY JobFacts DEF CodexInv, Types, PlaceInv, ServerInv, Early, QuietInv, Quiet, LeftInv, Remote, Staged, Clients, Servers, Watches, Homes, Disks, Lefts, Pc, LaunchPc, OpenPc, FlowPc, NanoPc, LocalPc, RemotePc, AfterPc, EndPc, proposerVars, ServerResponds, Emit
<1>10. ShownInv'
  BY DEF CodexInv, ShownInv, Pc, LaunchPc, OpenPc, FlowPc, NanoPc, LocalPc, RemotePc, AfterPc, EndPc, proposerVars, ServerResponds, Emit
<1> QED  BY <1>1, <1>2, <1>3, <1>4, <1>5, <1>6, <1>7, <1>8, <1>9, <1>10 DEF CodexInv

LEMMA ServerReports_Keeps ==
    ASSUME CodexInv, ServerReports, UNCHANGED proposerVars
    PROVE  CodexInv'
<1>1. Types'
  <2>1. pc' \in Pc
    BY JobFacts DEF CodexInv, Types, PlaceInv, Remote, Staged, Pc, LaunchPc, OpenPc, FlowPc, NanoPc, LocalPc, RemotePc, AfterPc, EndPc, ServerReports, Emit, AgentWrites, CodexRefreshes, Fault
  <2>2. chan' \in Seq(Message)
    BY EmptyFacts, AppendFacts, TailFacts DEF CodexInv, Types, Servers, ServerReports, Emit, AgentWrites, CodexRefreshes, Fault, Staged, Remote
  <2>3. srv' \in Servers
    BY EmptyFacts, TailFacts, NewTyped DEF CodexInv, Types, Servers, ServerReports, Emit, AgentWrites, CodexRefreshes, Fault, Staged, Remote
  <2>4. disk' \in Disks(turns)
    <3>1. CASE UNCHANGED disk
      BY <3>1 DEF CodexInv, Types
    <3>2. CASE AgentWrites(turns)
      <4>1. disk \in Disks(turns) /\ turns \in 0..turns
        BY DEF CodexInv, Types
      <4> QED  BY <4>1, <3>2 DEF Disks, AgentWrites
    <3> QED  BY <3>1, <3>2 DEF ServerReports
  <2>5. home' \in Homes(turns)
    <3>1. CASE UNCHANGED home
      BY <3>1 DEF CodexInv, Types
    <3>2. CASE home' = [home EXCEPT !.staged = turns, !.latest = turns]
      <4>1. home \in Homes(turns) /\ turns \in 0..turns
        BY DEF CodexInv, Types
      <4> QED  BY <4>1, <3>2 DEF Homes
    <3>3. CASE home' = [home EXCEPT !.staged = Invalid, !.latest = Invalid]
      BY <3>3 DEF CodexInv, Types, Homes
    <3> QED  BY <3>1, <3>2, <3>3 DEF ServerReports, CodexRefreshes
  <2>6. faults' \in 0..MaxFaults
    BY AgentTurnAssumption DEF CodexInv, Types, ServerReports, Emit, AgentWrites, CodexRefreshes, Fault, Staged, Remote
  <2>7. seen' \subseteq 1..turns
    BY DEF CodexInv, FlowInv, Types, ServerReports
  <2> QED  BY <2>1, <2>2, <2>3, <2>4, <2>5, <2>6, <2>7 DEF CodexInv, Types, proposerVars, ServerReports, Emit, AgentWrites, CodexRefreshes, Fault, Staged, Remote
<1>2. PlaceInv'
  BY JobFacts DEF CodexInv, Types, PlaceInv, Remote, Staged, Starting, Clients, Servers, Watches, Homes, Disks, Lefts, Pc, LaunchPc, OpenPc, FlowPc, NanoPc, LocalPc, RemotePc, AfterPc, EndPc, proposerVars, ServerReports, Emit, AgentWrites, CodexRefreshes, Fault
<1>3. ServerInv'
  BY JobFacts DEF CodexInv, Types, PlaceInv, ServerInv, Early, Remote, Staged, Alive, OneShot, Clients, Servers, Watches, Homes, Disks, Lefts, Pc, LaunchPc, OpenPc, FlowPc, NanoPc, LocalPc, RemotePc, AfterPc, EndPc, proposerVars, ServerReports, Emit, AgentWrites, CodexRefreshes, Fault
<1>4. IdInv'
  <2>1. /\ UNCHANGED <<job, pc, client, session, result, turns, own, got>>
        /\ client.deferred \in Seq(Message) /\ client.buffer \in Seq(Message) /\ chan \in Seq(Message)
        /\ srv.notes \in Seq(Message) /\ srv.notes # <<>>
        /\ chan' = Append(chan, Head(srv.notes))
        /\ srv'.notes = Tail(srv.notes) /\ srv'.resp = srv.resp
        /\ AllNoted(srv.notes)
    BY DEF CodexInv, Types, Clients, Servers, QuietInv, ServerReports, Emit
  <2>2. Head(srv.notes) \in Message /\ Noted(Head(srv.notes)) /\ AllNoted(Tail(srv.notes))
    BY <2>1, TailFacts, NotedTail DEF AllNoted
  <2>3. Below(chan', client.next)
    BY <2>1, <2>2, AppendFacts DEF CodexInv, IdInv, Noted
  <2> QED  BY <2>1, <2>3 DEF CodexInv, IdInv
<1>5. QuietInv'
  BY TailFacts, NotedTail DEF CodexInv, Types, Clients, Servers, QuietInv, ServerReports, Emit,
     AllNoted, Quiet
<1>6. FlowInv'
  <2>1. /\ UNCHANGED <<job, pc, client, session, result, turns, own, got>>
        /\ client.deferred \in Seq(Message) /\ client.buffer \in Seq(Message) /\ chan \in Seq(Message)
        /\ srv.notes \in Seq(Message) /\ srv.notes # <<>>
        /\ chan' = Append(chan, Head(srv.notes))
        /\ srv'.notes = Tail(srv.notes) /\ srv'.resp = srv.resp
        /\ AllNoted(srv.notes)
    BY DEF CodexInv, Types, Clients, Servers, QuietInv, ServerReports, Emit
  <2>2. Head(srv.notes) \in Message /\ Noted(Head(srv.notes)) /\ AllNoted(Tail(srv.notes))
    BY <2>1, TailFacts, NotedTail DEF AllNoted
  <2>3. own = turns /\ own # 0
    BY <2>1 DEF CodexInv, FlowInv
  <2>4. pc \in FlowPc => /\ Stream(client'.deferred, client'.buffer, chan', srv'.notes, own)
                         /\ EndsIn(chan') <=> EndsIn(chan) \/ Ends(Head(srv.notes))
    BY <2>1, StreamReported DEF CodexInv, FlowInv
  <2>5. seen' = IF Ends(Head(srv.notes)) THEN seen \cup {turns} ELSE seen
    BY DEF ServerReports, Ends
  <2>6. Answered(chan, client.wait, own) => Answered(chan', client.wait, own)
    BY <2>1, <2>2, AppendFacts DEF Noted
  <2> QED  BY <2>1, <2>3, <2>4, <2>5, <2>6 DEF CodexInv, FlowInv, Remote
<1>7. DiskInv'
  <2>1. /\ UNCHANGED <<job, pc, result, own, accepted, ask>>
        /\ own = turns /\ result # "ok" /\ pc \notin OpenPc /\ Alive
    BY DEF CodexInv, FlowInv, QuietInv, Quiet, ServerReports, proposerVars, Alive
  <2>2. accepted = NoManifest /\ ~(Remote /\ pc \in LaunchPc)
    BY <2>1 DEF CodexInv, DiskInv, ServerInv
  <2>3. CASE UNCHANGED disk
    BY <2>1, <2>3 DEF CodexInv, DiskInv, Remote, Staged
  <2>4. CASE AgentWrites(turns)
    BY <2>1, <2>4, <2>2 DEF CodexInv, Types, AgentWrites, Disks, DiskInv, Remote, Staged, LaunchPc
  <2> QED  BY <2>3, <2>4 DEF ServerReports
<1>8. HomeInv'
  <2>1. UNCHANGED <<job, pc, result>> /\ result # "ok"
    BY DEF CodexInv, QuietInv, Quiet, ServerReports, proposerVars
  <2>2. home \in Homes(turns)
    BY DEF CodexInv, Types
  <2>3. UNCHANGED home \/ home'.staged = home'.latest
    BY <2>2 DEF ServerReports, CodexRefreshes, Homes
  <2> QED  BY <2>1, <2>3 DEF CodexInv, HomeInv
<1>9. LeftInv'
  <2>1. /\ UNCHANGED <<job, pc, result, left>>
        /\ result # "ok" /\ Alive
    BY DEF CodexInv, QuietInv, Quiet, ServerReports, proposerVars, Alive
  <2>2. pc \notin {"join", "joining"}
    BY <2>1, JobFacts DEF CodexInv, Types, PlaceInv, ServerInv, OpenPc, FlowPc, LocalPc, EndPc
  <2> QED  BY <2>1, <2>2 DEF CodexInv, LeftInv, Remote, Staged
<1>10. ShownInv'
  BY DEF CodexInv, ShownInv, Pc, LaunchPc, OpenPc, FlowPc, NanoPc, LocalPc, RemotePc, AfterPc, EndPc, proposerVars, ServerReports, Emit, AgentWrites, CodexRefreshes, Fault, Staged, Remote
<1> QED  BY <1>1, <1>2, <1>3, <1>4, <1>5, <1>6, <1>7, <1>8, <1>9, <1>10 DEF CodexInv

LEMMA ServerFails_Keeps ==
    ASSUME CodexInv, ServerFails, UNCHANGED proposerVars
    PROVE  CodexInv'
<1>1. Types'
  <2>1. pc' \in Pc
    BY JobFacts DEF CodexInv, Types, PlaceInv, Remote, Staged, Pc, LaunchPc, OpenPc, FlowPc, NanoPc, LocalPc, RemotePc, AfterPc, EndPc, ServerFails, Alive, Fault, Emit, Msg, NoServer, Message
  <2>2. chan' \in Seq(Message)
    BY AppendFacts DEF Msg, Message, CodexInv, Types, ServerFails, Emit
  <2>3. srv' \in Servers
    BY EmptyFacts, TailFacts, NewTyped DEF CodexInv, Types, Servers, ServerFails, Alive, Fault, Emit, Msg, Remote, Message
  <2>4. faults' \in 0..MaxFaults
    BY AgentTurnAssumption DEF CodexInv, Types, ServerFails, Alive, Fault, Emit, Msg, NoServer, Remote, Message
  <2> QED  BY <2>1, <2>2, <2>3, <2>4 DEF CodexInv, Types, proposerVars, ServerFails, Alive, Fault, Emit, Msg, NoServer, Remote, Message
<1>2. PlaceInv'
  BY JobFacts DEF CodexInv, Types, PlaceInv, Remote, Staged, Starting, Clients, Servers, Watches, Homes, Disks, Lefts, Pc, LaunchPc, OpenPc, FlowPc, NanoPc, LocalPc, RemotePc, AfterPc, EndPc, proposerVars, ServerFails, Alive, Fault, Emit, Msg, NoServer, Message
<1>3. ServerInv'
  BY DEF CodexInv, Types, ServerFails, Alive, NoServer, Servers, ServerInv, Remote, OneShot
<1>4. IdInv'
  <2>1. /\ UNCHANGED <<job, pc, client, session, result, turns, own, got, seen>>
        /\ client.deferred \in Seq(Message) /\ client.buffer \in Seq(Message) /\ chan \in Seq(Message)
        /\ srv.notes \in Seq(Message)
        /\ \/ srv'.resp = <<>> /\ srv'.notes = <<>> /\ UNCHANGED chan
           \/ srv'.resp = srv.resp /\ srv'.notes = srv.notes /\ UNCHANGED chan
           \/ UNCHANGED srv /\ chan' = Append(chan, Msg("garbage", 0, 0))
    BY DEF CodexInv, Types, Clients, Servers, ServerFails, Emit, NoServer
  <2>2. CASE srv'.resp = <<>> /\ srv'.notes = <<>> /\ UNCHANGED chan
    BY <2>1, <2>2, ServerGone DEF CodexInv, IdInv, Remote
  <2>3. CASE srv'.resp = srv.resp /\ srv'.notes = srv.notes /\ UNCHANGED chan
    BY <2>1, <2>3 DEF CodexInv, IdInv, Quiet, Remote
  <2>4. CASE UNCHANGED srv /\ chan' = Append(chan, Msg("garbage", 0, 0))
    BY <2>1, <2>4, AppendFacts, StreamBeside DEF Msg, Message, Noted, CodexInv, IdInv, Quiet,
       Remote
  <2> QED  BY <2>1, <2>2, <2>3, <2>4
<1>5. QuietInv'
  <2>1. /\ UNCHANGED <<job, pc, client, session, result, turns, own, got, seen>>
        /\ client.deferred \in Seq(Message) /\ client.buffer \in Seq(Message) /\ chan \in Seq(Message)
        /\ srv.notes \in Seq(Message)
        /\ \/ srv'.resp = <<>> /\ srv'.notes = <<>> /\ UNCHANGED chan
           \/ srv'.resp = srv.resp /\ srv'.notes = srv.notes /\ UNCHANGED chan
           \/ UNCHANGED srv /\ chan' = Append(chan, Msg("garbage", 0, 0))
    BY DEF CodexInv, Types, Clients, Servers, ServerFails, Emit, NoServer
  <2>2. CASE srv'.resp = <<>> /\ srv'.notes = <<>> /\ UNCHANGED chan
    BY <2>1, <2>2, ServerGone DEF CodexInv, QuietInv, Remote
  <2>3. CASE srv'.resp = srv.resp /\ srv'.notes = srv.notes /\ UNCHANGED chan
    BY <2>1, <2>3 DEF CodexInv, QuietInv, Quiet, Remote
  <2>4. CASE UNCHANGED srv /\ chan' = Append(chan, Msg("garbage", 0, 0))
    BY <2>1, <2>4, AppendFacts, StreamBeside DEF Msg, Message, Noted, CodexInv, QuietInv, Quiet,
       Remote
  <2> QED  BY <2>1, <2>2, <2>3, <2>4
<1>6. FlowInv'
  <2>1. /\ UNCHANGED <<job, pc, client, session, result, turns, own, got, seen>>
        /\ client.deferred \in Seq(Message) /\ client.buffer \in Seq(Message) /\ chan \in Seq(Message)
        /\ srv.notes \in Seq(Message)
        /\ \/ srv'.resp = <<>> /\ srv'.notes = <<>> /\ UNCHANGED chan
           \/ srv'.resp = srv.resp /\ srv'.notes = srv.notes /\ UNCHANGED chan
           \/ UNCHANGED srv /\ chan' = Append(chan, Msg("garbage", 0, 0))
    BY DEF CodexInv, Types, Clients, Servers, ServerFails, Emit, NoServer
  <2>2. CASE srv'.resp = <<>> /\ srv'.notes = <<>> /\ UNCHANGED chan
    BY <2>1, <2>2, ServerGone DEF CodexInv, FlowInv, Remote
  <2>3. CASE srv'.resp = srv.resp /\ srv'.notes = srv.notes /\ UNCHANGED chan
    BY <2>1, <2>3 DEF CodexInv, FlowInv, Quiet, Remote
  <2>4. CASE UNCHANGED srv /\ chan' = Append(chan, Msg("garbage", 0, 0))
    <3>1. Msg("garbage", 0, 0) \in Message /\ Msg("garbage", 0, 0).type = "garbage"
      BY DEF Msg, Message
    <3>2. ~Noted(Msg("garbage", 0, 0))
      BY <3>1 DEF Noted
    <3> QED  BY <2>1, <2>4, <3>1, <3>2, AppendFacts, StreamBeside DEF CodexInv, FlowInv, Quiet, Remote
  <2> QED  BY <2>1, <2>2, <2>3, <2>4
<1>7. DiskInv'
  BY JobFacts DEF CodexInv, Types, PlaceInv, ServerInv, Early, QuietInv, Quiet, FlowInv, DiskInv, Remote, Staged, Clients, Servers, Watches, Homes, Disks, Lefts, Pc, LaunchPc, OpenPc, FlowPc, NanoPc, LocalPc, RemotePc, AfterPc, EndPc, proposerVars, ServerFails, Alive, Fault, Emit, Msg, NoServer, Message
<1>8. HomeInv'
  BY JobFacts DEF CodexInv, Types, PlaceInv, ServerInv, Early, QuietInv, Quiet, HomeInv, Remote, Staged, Clients, Servers, Watches, Homes, Disks, Lefts, Pc, LaunchPc, OpenPc, FlowPc, NanoPc, LocalPc, RemotePc, AfterPc, EndPc, proposerVars, ServerFails, Alive, Fault, Emit, Msg, NoServer, Message
<1>9. LeftInv'
  BY JobFacts DEF CodexInv, Types, PlaceInv, ServerInv, Early, QuietInv, Quiet, LeftInv, Remote, Staged, Clients, Servers, Watches, Homes, Disks, Lefts, Pc, LaunchPc, OpenPc, FlowPc, NanoPc, LocalPc, RemotePc, AfterPc, EndPc, proposerVars, ServerFails, Alive, Fault, Emit, Msg, NoServer, Message
<1>10. ShownInv'
  BY DEF CodexInv, ShownInv, Pc, LaunchPc, OpenPc, FlowPc, NanoPc, LocalPc, RemotePc, AfterPc, EndPc, proposerVars, ServerFails, Alive, Fault, Emit, Msg, NoServer, Remote, Message
<1> QED  BY <1>1, <1>2, <1>3, <1>4, <1>5, <1>6, <1>7, <1>8, <1>9, <1>10 DEF CodexInv

-----------------------------------------------------------------------------
(* Requests.                                                                *)

SendPc == {"initialize", "thread", "turn", "exec", "interrupt"}

LEMMA SendRequest_Keeps ==
    ASSUME CodexInv, SendRequest, UNCHANGED proposerVars
    PROVE  CodexInv'
<1>1. /\ UNCHANGED <<job, session, chan, wd, home, disk, left, got, seen, faults>>
      /\ UNCHANGED proposerVars
      /\ pc \in SendPc
  BY DEF SendRequest, Requests, SendPc
<1>2. /\ Types /\ turns \in Nat /\ own \in 0..turns /\ client \in Clients(turns) /\ srv \in Servers
      /\ client.next \in Nat \ {0} /\ client.deferred = <<>> /\ accepted = NoManifest
      /\ client.buffer \in Seq(Message) /\ chan \in Seq(Message) /\ srv.resp \in Seq(Message)
      /\ Below(client.deferred, client.next) /\ Below(client.buffer, client.next)
      /\ Below(chan, client.next) /\ Below(srv.resp, client.next)
      /\ Clean(srv.resp) /\ AllNoted(srv.notes)
      /\ pc # "interrupt" => Quiet /\ result = "none" /\ pc \in OpenPc /\ own = 0
      /\ pc = "interrupt" => job.call = "nano"
  BY <1>1 DEF CodexInv, Types, Clients, Servers, IdInv, QuietInv, DiskInv, PlaceInv, ServerInv, Early,
              SendPc, OpenPc, NanoPc, DeferPc
<1>3. CASE srv.proc = "dead"
  <2>1. /\ UNCHANGED <<client, srv, turns, own>>
        /\ pc # "interrupt" => result' = "io" /\ pc' = AfterFailure
        /\ pc = "interrupt" => pc' = "drop" /\ UNCHANGED result
    BY <1>3 DEF SendRequest, Fail
  <2>2. /\ pc' \in {"orphan", "drop", "close", "terminate"}
        /\ pc' = "orphan" => pc \in Starting
        /\ job.call = "nano" <=> pc' \in {"orphan", "drop"}
        /\ pc' = "close" => Remote
        /\ pc' = "terminate" => ~Remote
    BY <1>1, <1>2, <2>1 DEF AfterFailure, OneShot, SendPc
  <2>3. Types'
    BY <1>1, <2>1, <2>2 DEF CodexInv, Types, proposerVars, Pc, NanoPc, LocalPc, RemotePc
  <2>4. PlaceInv'
    BY <1>1, <1>2, <2>1, <2>2, JobFacts DEF CodexInv, Types, PlaceInv, proposerVars, Remote, Staged, Starting, NanoPc, LocalPc, RemotePc, FlowPc, OpenPc, AfterPc, EndPc
  <2>5. ServerInv'
    <3>1. wd.at # "gone" => OneShot /\ ~Remote
      BY DEF CodexInv, ServerInv
    <3> QED  BY <1>1, <1>2, <1>3, <2>1, <2>2, <3>1, JobFacts DEF ServerInv, Alive, OneShot, Remote, Early, LaunchPc, OpenPc, FlowPc, LocalPc, AfterPc, EndPc
  <2>6. IdInv'
    BY <1>1, <2>1 DEF CodexInv, IdInv
  <2>7. QuietInv'
    BY <1>1, <2>1, <1>2, <2>2 DEF Quiet, CodexInv, PlaceInv, Starting, QuietInv, OpenPc, NanoPc
  <2>8. FlowInv'
    BY <1>1, <2>1, <2>2 DEF CodexInv, FlowInv, FlowPc
  <2>9. DiskInv'
    BY <1>1, <1>2, <2>1, <2>2, JobFacts DEF CodexInv, DiskInv, proposerVars, Remote, Staged, LaunchPc, OpenPc, FlowPc, LocalPc
  <2>10. HomeInv'
    BY <1>1, <1>2, <2>1, <2>2 DEF CodexInv, HomeInv, OpenPc, FlowPc, AfterPc
  <2>11. LeftInv'
    BY <1>1, <1>2, <2>1, <2>2 DEF CodexInv, LeftInv, Remote, Staged, AfterPc
  <2>12. ShownInv'
    BY <1>1 DEF CodexInv, ShownInv, proposerVars
  <2> QED  BY <2>3, <2>4, <2>5, <2>6, <2>7, <2>8, <2>9, <2>10, <2>11, <2>12 DEF CodexInv
<1>4. CASE srv.proc # "dead"
  <2>1. /\ client' = [client EXCEPT !.next = client.next + 1, !.wait = client.next]
        /\ pc' = Requests[pc] /\ UNCHANGED result
        /\ IF srv.proc = "up" THEN Answer(client.next) ELSE UNCHANGED <<srv, turns, own>>
    BY <1>4 DEF SendRequest
  <2>2. /\ client'.next = client.next + 1 /\ client'.wait = client.next
        /\ client'.deferred = <<>> /\ client'.buffer = client.buffer /\ client'.turn = client.turn
        /\ \A t : client \in Clients(t) => client' \in Clients(t)
    <3>1. /\ client'.next = client.next + 1 /\ client'.wait = client.next
          /\ client'.deferred = <<>> /\ client'.buffer = client.buffer /\ client'.turn = client.turn
      BY <1>2, <2>1 DEF Clients
    <3>2. client.next + 1 \in Nat \ {0} /\ client.next \in Nat
      BY <1>2
    <3>3. ASSUME NEW t, client \in Clients(t) PROVE client' \in Clients(t)
      BY <2>1, <3>2, <3>3 DEF Clients
    <3> QED  BY <3>1, <3>3
  <2>3. /\ pc = "initialize" => pc' = "initialize_wait"
        /\ pc = "thread" => pc' = "thread_wait"
        /\ pc = "turn" => pc' = "started_wait"
        /\ pc = "exec" => pc' = "exec_wait"
        /\ pc = "interrupt" => pc' = "interrupt_wait"
    BY <2>1 DEF Requests
  \* The turn the server started, if it did.
  <2>4. \/ UNCHANGED <<turns, own, srv>>
        \/ /\ UNCHANGED <<turns, own>> /\ srv'.proc = srv.proc /\ srv' \in Servers
           /\ srv'.notes = srv.notes
           /\ \E m \in Message : /\ srv'.resp = Append(srv.resp, m) /\ m.id = client.next
                                 /\ m.type = "error" \/ (m.type = "response" /\ pc # "turn")
        \/ /\ pc = "turn" /\ turns' = turns + 1 /\ own' = turns + 1 /\ srv'.proc = srv.proc
           /\ srv' \in Servers
           /\ \E m \in Message : /\ srv'.resp = Append(srv.resp, m) /\ m.id = client.next
                                 /\ m.type = "response" /\ m.turn = own'
           /\ \E fin \in {"completed", "failed"}, named \in {0, turns + 1} :
                srv'.notes = <<Msg("started", 0, named), Msg("item", 0, named), Msg(fin, 0, named)>>
    <3>1. CASE srv.proc # "up"
      BY <2>1, <3>1
    <3>2. CASE srv.proc = "up"
      <4>1. Answer(client.next)
        BY <2>1, <3>2
      <4>2. ASSUME NEW type \in {"response", "error"}, NEW t \in {0, turns + 1}
            PROVE  /\ Msg(type, client.next, t) \in Message
                   /\ Msg(type, client.next, t).type = type /\ Msg(type, client.next, t).id = client.next
                   /\ Msg(type, client.next, t).turn = t
        BY <1>2 DEF Msg, Message
      <4>3. ASSUME NEW type \in {"response", "error"},
                   srv' = [srv EXCEPT !.resp = Append(@, Msg(type, client.next, 0))]
            PROVE  /\ srv'.proc = srv.proc /\ srv' \in Servers /\ srv'.notes = srv.notes
                   /\ srv'.resp = Append(srv.resp, Msg(type, client.next, 0))
        BY <1>2, <4>2, AppendFacts, <4>3 DEF Servers
      <4>4. CASE pc # "turn"
        BY <4>1, <4>2, <4>3, <4>4 DEF Answer
      <4>5. CASE pc = "turn" /\ srv' = [srv EXCEPT !.resp = Append(@, Msg("error", client.next, 0))]
                 /\ UNCHANGED <<turns, own>>
        BY <4>2, <4>3, <4>5
      <4>6. ASSUME pc = "turn", NEW fin \in {"completed", "failed"}, NEW named \in {0, turns + 1},
                   turns' = turns + 1, own' = turns + 1,
                   srv' = [srv EXCEPT !.resp  = Append(@, Msg("response", client.next, turns + 1)),
                                      !.notes = <<Msg("started", 0, named), Msg("item", 0, named),
                                                  Msg(fin, 0, named)>>]
            PROVE  /\ srv'.proc = srv.proc /\ srv' \in Servers
                   /\ srv'.resp = Append(srv.resp, Msg("response", client.next, turns + 1))
                   /\ srv'.notes = <<Msg("started", 0, named), Msg("item", 0, named), Msg(fin, 0, named)>>
        <5>1. Append(srv.resp, Msg("response", client.next, turns + 1)) \in Seq(Message)
          BY <1>2, <4>2, AppendFacts
        <5>2. <<Msg("started", 0, named), Msg("item", 0, named), Msg(fin, 0, named)>> \in Seq(Message)
          BY <1>2 DEF Msg, Message
        <5> QED  BY <1>2, <4>6, <5>1, <5>2 DEF Servers
      <4> QED  BY <4>1, <4>2, <4>4, <4>5, <4>6 DEF Answer
    <3> QED  BY <3>1, <3>2
  <2>5. /\ turns' \in Nat /\ turns <= turns' /\ own' \in 0..turns'
        /\ UNCHANGED <<turns, own>> \/ (pc = "turn" /\ own' = turns' /\ turns' = turns + 1)
        /\ srv' \in Servers /\ srv'.proc = srv.proc
    BY <1>2, <2>4
  <2>6. Clean(srv'.resp) /\ Below(srv'.resp, client'.next) /\ AllNoted(srv'.notes)
        /\ (pc = "turn" => Answered(srv'.resp, client.next, own'))
        /\ (UNCHANGED own => srv'.notes = srv.notes)
        /\ (pc = "turn" => Stream(client'.deferred, client'.buffer, chan', srv'.notes, own'))
    <3>1. Below(srv.resp, client.next + 1) /\ \A t : Answered(srv.resp, client.next, t)
      BY <1>2, BelowFacts
    <3>2. pc = "turn" => /\ Clean(client.deferred) /\ Clean(client.buffer) /\ Clean(chan)
                         /\ srv.notes = <<>>
                         /\ \A t : Stream(client.deferred, client.buffer, chan, srv.notes, t)
      BY <1>2, StreamSilent, EmptyFacts DEF Quiet
    <3>3. CASE UNCHANGED <<turns, own, srv>>
      BY <1>1, <1>2, <2>2, <3>1, <3>2, <3>3
    <3>4. ASSUME UNCHANGED <<turns, own>>, srv'.notes = srv.notes, NEW m \in Message,
                 srv'.resp = Append(srv.resp, m), m.id = client.next,
                 m.type = "error" \/ (m.type = "response" /\ pc # "turn")
          PROVE  /\ Clean(srv'.resp) /\ Below(srv'.resp, client'.next)
                 /\ pc = "turn" => Answered(srv'.resp, client.next, own')
      <4>1. ~Noted(m) /\ m.id < client.next + 1
        BY <1>2, <3>4 DEF Noted
      <4> QED  BY <1>2, <2>2, <3>1, <3>4, <4>1, AppendFacts
    <3>5. ASSUME pc = "turn", NEW m \in Message,
                 srv'.resp = Append(srv.resp, m), m.id = client.next,
                 m.type = "response" /\ m.turn = own'
          PROVE  /\ Clean(srv'.resp) /\ Below(srv'.resp, client'.next)
                 /\ pc = "turn" => Answered(srv'.resp, client.next, own')
      <4>1. ~Noted(m) /\ m.id < client.next + 1
        BY <1>2, <3>5 DEF Noted
      <4> QED  BY <1>2, <2>2, <3>1, <3>5, <4>1, AppendFacts
    <3>6. ASSUME pc = "turn", own' = turns + 1, NEW fin \in {"completed", "failed"}, NEW named \in {0, turns + 1},
                 srv'.notes = <<Msg("started", 0, named), Msg("item", 0, named), Msg(fin, 0, named)>>
          PROVE  /\ AllNoted(srv'.notes) /\ own' # own
                 /\ Stream(client'.deferred, client'.buffer, chan', srv'.notes, own')
      <4>1. turns + 1 \in Nat /\ client.deferred \in Seq(Message) /\ own = 0 /\ turns + 1 # 0
        BY <1>2, <3>6, EmptyFacts
      <4>2. AllNoted(srv'.notes) /\ Stream(client.deferred, client.buffer, chan, srv'.notes, turns + 1)
        BY <1>2, <3>2, <3>6, <4>1, StreamStarts
      <4> QED  BY <1>1, <1>2, <2>2, <3>6, <4>1, <4>2
    <3>7. ASSUME srv'.notes = srv.notes
          PROVE  /\ AllNoted(srv'.notes)
                 /\ pc = "turn" => Stream(client'.deferred, client'.buffer, chan', srv'.notes, own')
      BY <1>1, <1>2, <2>2, <3>2, <3>7
    <3> QED  BY <1>2, <2>4, <3>3, <3>4, <3>5, <3>6, <3>7
  <2>7. Types'
    BY <1>2, <2>5, MoreTurns, <1>1, <2>3, <2>2 DEF Pc, SendPc, OpenPc, FlowPc, NanoPc, CodexInv,
       Types, proposerVars
  <2>8. PlaceInv'
    BY <1>1, <2>3, JobFacts DEF CodexInv, Types, PlaceInv, proposerVars, Remote, Staged, Starting, SendPc, NanoPc, LocalPc, RemotePc, FlowPc, OpenPc, AfterPc, EndPc
  <2>9. ServerInv'
    <3>1. Alive' <=> Alive
      BY <2>5 DEF Alive
    <3>2. pc' \in OpenPc \cup FlowPc <=> pc # "interrupt"
      BY <1>1, <2>3 DEF SendPc, OpenPc, FlowPc
    <3>3. pc' \in OpenPc \cup FlowPc \cup {"interrupt_wait"}
      BY <1>1, <2>3 DEF SendPc, OpenPc, FlowPc
    <3>4. wd.at # "gone" => OneShot /\ ~Remote
      BY DEF CodexInv, ServerInv
    <3>5. pc = "interrupt" => ~OneShot
      BY <1>2 DEF OneShot
    <3> QED  BY <1>1, <1>2, <2>1, <3>1, <3>2, <3>3, <3>4, <3>5 DEF ServerInv, OneShot, Remote, Early, LaunchPc, OpenPc, FlowPc, LocalPc, AfterPc, EndPc
  <2>10. IdInv'
    BY <1>1, <1>2, <2>2, BelowFacts, EmptyFacts, <2>6 DEF IdInv
  <2>11. QuietInv'
    BY <1>1, <2>3, <1>2, <2>2, <2>5, <2>6, <2>1 DEF SendPc, OpenPc, Quiet, CodexInv, QuietInv,
       FlowPc, NanoPc, DeferPc
  <2>12. FlowInv'
    <3>1. pc' \in FlowPc => pc = "turn" /\ pc' = "started_wait"
      BY <1>1, <2>3 DEF SendPc, FlowPc
    <3>2. (own = 0 /\ got = 0) \/ pc = "interrupt"
      BY <1>2 DEF CodexInv, FlowInv
    <3>3. got' \in {0, own'}
      BY <1>1, <1>2, <2>5, <3>2 DEF CodexInv, FlowInv
    <3>4. pc' \in FlowPc => own' \notin seen'
      BY <1>1, <1>2, <2>5, <3>1 DEF CodexInv, Types
    <3>5. srv'.notes # <<>> => own' = turns' /\ own' # 0
      <4>1. CASE own' = turns' /\ turns' = turns + 1
        BY <1>2, <4>1
      <4>2. CASE UNCHANGED <<turns, own>>
        BY <2>6, <4>2 DEF CodexInv, FlowInv
      <4> QED  BY <2>5, <4>1, <4>2
    <3>6. pc' = "started_wait" =>
            /\ Answered(client'.deferred, client'.wait, own') /\ Answered(client'.buffer, client'.wait, own')
            /\ Answered(chan', client'.wait, own') /\ Answered(srv'.resp, client'.wait, own')
      BY <1>1, <1>2, <2>2, <2>6, <3>1, BelowFacts, EmptyFacts DEF FlowPc
    <3> QED  BY <2>6, <3>1, <3>3, <3>4, <3>5, <3>6 DEF FlowInv, FlowPc
  <2>13. DiskInv'
    <3>1. pc' \in LaunchPc \cup OpenPc => pc # "turn" /\ pc # "interrupt"
      BY <1>1, <2>3 DEF SendPc, LaunchPc, OpenPc
    <3>2. pc = "turn" => job.call # "exec"
      BY DEF CodexInv, PlaceInv
    <3>3. disk.latest \in {0, own}
      BY DEF CodexInv, DiskInv
    <3>4. disk.latest \in {0, own'}
      BY <1>2, <2>5, <3>3
    <3>5. pc' \in OpenPc \cup FlowPc \cup {"interrupt_wait"} /\ (pc' = "interrupt_wait" => pc = "interrupt")
      BY <1>1, <2>3 DEF SendPc, OpenPc, FlowPc
    <3>6. UNCHANGED own \/ pc = "turn"
      BY <2>5
    <3> QED  BY <1>1, <1>2, <2>1, <3>1, <3>2, <3>4, <3>5, <3>6, JobFacts DEF CodexInv, DiskInv, proposerVars, Remote, Staged, LaunchPc, OpenPc, FlowPc, LocalPc
  <2>14. HomeInv'
    BY <1>1, <2>1, <2>3 DEF CodexInv, HomeInv, SendPc, OpenPc, FlowPc, AfterPc
  <2>15. LeftInv'
    BY <1>1, <2>3 DEF CodexInv, LeftInv, SendPc, Remote, Staged, AfterPc
  <2>16. ShownInv'
    BY <1>1 DEF CodexInv, ShownInv, proposerVars
  <2> QED  BY <2>7, <2>8, <2>9, <2>10, <2>11, <2>12, <2>13, <2>14, <2>15, <2>16 DEF CodexInv
<1> QED  BY <1>3, <1>4

-----------------------------------------------------------------------------
(* Waits.                                                                   *)

\* What a read leaves of the client, and where a read that fails leads.
LEMMA ReadError_Facts ==
    ASSUME CodexInv, ReadError, UNCHANGED proposerVars
    PROVE  /\ UNCHANGED <<job, session, wd, home, disk, left, turns, own, got, seen, srv, faults>>
           /\ UNCHANGED proposerVars
           /\ pc \in Reading /\ Available /\ TakeMsg
           /\ client' = [client EXCEPT !.buffer = Rest, !.deferred = <<>>]
           /\ pc' = IF pc = "interrupt_wait" THEN "drop" ELSE AfterFailure
           /\ pc # "interrupt_wait" => result' \in {"garbage", "refused"}
           /\ pc = "interrupt_wait" => UNCHANGED result
           /\ pc' \in {"orphan", "interrupt", "drop", "close", "terminate"}
           /\ pc' = "orphan" => pc \in Starting
           /\ job.call = "nano" <=> pc' \in {"orphan", "interrupt", "drop"}
           /\ pc' = "close" => Remote
           /\ pc' = "terminate" => ~Remote
           /\ pc = "interrupt_wait" => job.call = "nano"
BY DEF ReadError, Fail, Keep, CodexInv, PlaceInv, NanoPc, AfterFailure, OneShot

LEMMA ReadError_Keeps ==
    ASSUME CodexInv, ReadError, UNCHANGED proposerVars
    PROVE  CodexInv'
<1> DEFINE Facts ==
           /\ UNCHANGED <<job, session, wd, home, disk, left, turns, own, got, seen, srv, faults>>
           /\ UNCHANGED proposerVars
           /\ pc \in Reading
           /\ pc # "interrupt_wait" => result' \in {"garbage", "refused"}
           /\ pc = "interrupt_wait" => UNCHANGED result
           /\ pc' \in {"orphan", "interrupt", "drop", "close", "terminate"}
           /\ pc' = "orphan" => pc \in Starting
           /\ job.call = "nano" <=> pc' \in {"orphan", "interrupt", "drop"}
           /\ pc' = "close" => Remote
           /\ pc' = "terminate" => ~Remote
           /\ pc = "interrupt_wait" => job.call = "nano"
<1>1. Facts
  BY ReadError_Facts
<1>2. /\ Available /\ TakeMsg /\ Types
      /\ client' = [client EXCEPT !.buffer = Rest, !.deferred = <<>>]
  BY ReadError_Facts DEF CodexInv
<1>3. Reading \subseteq OpenPc \cup FlowPc \cup {"interrupt_wait"}
  BY DEF Reading, OpenPc, FlowPc
<1>4. /\ client' \in Clients(turns) /\ chan' \in Seq(Message)
      /\ client'.buffer = Rest /\ client'.deferred = <<>>
      /\ client'.next = client.next /\ client'.wait = client.wait
  BY <1>2, ReadFacts, EmptyFacts DEF Types, Clients
<1>5. Types'
  BY <1>1, <1>4, JobFacts DEF CodexInv, Types, proposerVars, Pc, NanoPc, LocalPc, RemotePc
<1>6. PlaceInv'
  BY <1>1, <1>3, JobFacts DEF CodexInv, Types, PlaceInv, proposerVars, Remote, Staged, Starting, NanoPc, LocalPc, RemotePc, FlowPc, OpenPc, AfterPc, EndPc
<1>7. ServerInv'
  <2>1. wd.at # "gone" => OneShot /\ ~Remote
    BY DEF CodexInv, ServerInv
  <2>2. OneShot => job.call # "nano"
    BY DEF OneShot
  <2> QED  BY <1>1, <2>1, <2>2, JobFacts DEF ServerInv, OneShot, Remote, Early, LaunchPc, OpenPc, FlowPc, LocalPc, RemotePc, AfterPc, EndPc
<1>8. IdInv'
  BY <1>2, ReadFacts, <1>1, <1>4, EmptyFacts DEF CodexInv, IdInv
<1>9. QuietInv'
  BY <1>1, <1>2, <1>4, ReadFacts, EmptyFacts, <1>3 DEF Quiet, CodexInv, QuietInv, Starting, OpenPc,
     FlowPc, NanoPc, PlaceInv
<1>10. FlowInv'
  BY <1>1, <1>4 DEF CodexInv, FlowInv, FlowPc
<1>11. DiskInv'
  <2>1. accepted = NoManifest
    BY <1>1 DEF CodexInv, DiskInv, Reading
  <2> QED  BY <1>1, <1>3, <2>1, JobFacts DEF CodexInv, Types, DiskInv, proposerVars, Remote, Staged, LaunchPc, OpenPc, FlowPc, LocalPc
<1>12. HomeInv'
  BY <1>1 DEF CodexInv, HomeInv, OpenPc, FlowPc, AfterPc
<1>13. LeftInv'
  BY <1>1 DEF CodexInv, LeftInv, Remote, Staged, AfterPc
<1>14. ShownInv'
  BY <1>1 DEF CodexInv, ShownInv, proposerVars
<1> QED  BY <1>5, <1>6, <1>7, <1>8, <1>9, <1>10, <1>11, <1>12, <1>13, <1>14 DEF CodexInv

WaitPc == {"initialize_wait", "thread_wait", "exec_wait", "interrupt_wait"}

LEMMA wait_for_response_Keeps ==
    ASSUME CodexInv, wait_for_response, UNCHANGED proposerVars
    PROVE  CodexInv'
<1>1. /\ UNCHANGED <<job, srv, wd, home, disk, left, turns, own, got, seen, faults>>
      /\ UNCHANGED proposerVars
      /\ pc \in WaitPc /\ Available /\ TakeMsg
      /\ \/ /\ Accept(client.turn) /\ pc' = AfterResponse
            /\ result' = (IF pc = "exec_wait" THEN "ok" ELSE result)
            /\ session' = IF pc = "thread_wait" /\ job.call = "nano" THEN 0 ELSE session
         \/ Defer /\ UNCHANGED <<pc, result, session>>
  BY DEF wait_for_response, WaitPc, Accept, Defer
<1>2. /\ client' \in Clients(turns) /\ chan' \in Seq(Message)
      /\ client'.next = client.next /\ client'.wait = client.wait
      /\ Below(client'.buffer, client.next) /\ Below(chan', client.next)
      /\ Below(client'.deferred, client.next)
      /\ Quiet => Quiet'
      /\ client'.deferred = <<>> \/ UNCHANGED pc
  BY <1>1, ReadShape, EmptyFacts DEF CodexInv, Types, Clients
<1> DEFINE Facts ==
      /\ UNCHANGED <<job, srv, wd, home, disk, left, turns, own, got, seen, faults>>
      /\ UNCHANGED proposerVars
      /\ \/ UNCHANGED <<pc, result, session>> /\ pc \in WaitPc
         \/ /\ pc = "initialize_wait" /\ UNCHANGED <<result, session>>
            /\ pc' = IF job.call = "exec" THEN "exec" ELSE "thread"
         \/ /\ pc = "thread_wait" /\ pc' = "turn" /\ UNCHANGED result
            /\ session' = IF job.call = "nano" THEN 0 ELSE session
         \/ /\ pc = "exec_wait" /\ pc' = (IF Remote THEN "auth_sync" ELSE "persist")
            /\ result' = "ok" /\ UNCHANGED session
         \/ pc = "interrupt_wait" /\ pc' = "drop" /\ UNCHANGED <<result, session>>
<1>3. Facts
  <2>1. CASE UNCHANGED <<pc, result, session>>
    BY <1>1, <2>1
  <2>2. CASE /\ pc' = AfterResponse
             /\ result' = (IF pc = "exec_wait" THEN "ok" ELSE result)
             /\ session' = IF pc = "thread_wait" /\ job.call = "nano" THEN 0 ELSE session
    BY <1>1, <2>2 DEF AfterResponse, AfterCommand, WaitPc
  <2> QED  BY <1>1, <2>1, <2>2
<1>5. Types'
  BY <1>3, AgentTurnAssumption, <1>2 DEF CodexInv, Types, Pc, WaitPc, OpenPc, NanoPc, LocalPc,
     RemotePc, proposerVars
<1>6. PlaceInv'
  <2>1. 0 \in 0..(MaxTurnsPerSession - 1) /\ 0 # NoSession
    BY AgentTurnAssumption DEF NoSession
  <2> QED  BY <1>3, <2>1, JobFacts DEF CodexInv, Types, PlaceInv, proposerVars, Remote, Staged, Starting, WaitPc, NanoPc, LocalPc, RemotePc, FlowPc, OpenPc, AfterPc, EndPc
<1>7. ServerInv'
  <2>1. wd.at # "gone" => OneShot /\ ~Remote /\ pc \in OpenPc
    BY <1>3 DEF CodexInv, ServerInv, PlaceInv, OneShot, WaitPc, OpenPc, FlowPc, LocalPc, NanoPc
  <2>2. pc # "interrupt_wait" => result = "none"
    BY <1>3 DEF CodexInv, ServerInv, Early, OpenPc, WaitPc
  <2>3. pc = "interrupt_wait" => job.call = "nano"
    BY DEF CodexInv, PlaceInv, NanoPc
  <2>4. pc' \in Early => pc # "interrupt_wait" /\ UNCHANGED result
    BY <1>3 DEF WaitPc, Early, LaunchPc, OpenPc, FlowPc
  <2>5. pc' \in OpenPc \cup {"interrupt_wait", "drop", "persist", "auth_sync"} /\ (pc' = "auth_sync" => Remote)
        /\ (pc' \in {"interrupt_wait", "drop"} => pc = "interrupt_wait")
    BY <1>3 DEF WaitPc, OpenPc
  <2>6. wd'.at # "gone" => OneShot' /\ ~Remote' /\ pc' \in OpenPc \cup {"persist"}
    BY <1>3, <2>1, <2>5 DEF OneShot, Remote, OpenPc
  <2> QED  BY <1>3, <2>2, <2>3, <2>4, <2>5, <2>6 DEF ServerInv, Remote, OneShot, LaunchPc, OpenPc, FlowPc, LocalPc, AfterPc, EndPc
<1>8. IdInv'
  BY <1>2, <1>3 DEF CodexInv, IdInv
<1>9. QuietInv'
  <2>1. pc # "interrupt_wait" => Quiet /\ pc \in OpenPc
    BY <1>3 DEF CodexInv, QuietInv, WaitPc, OpenPc
  <2>2. pc = "interrupt_wait" => pc' \in {"drop", "interrupt_wait"} /\ UNCHANGED <<result, session>>
    BY <1>3
  <2>3. pc' \in DeferPc \/ client'.deferred = <<>>
    BY <1>2, <1>3 DEF WaitPc, DeferPc
  <2>4. UNCHANGED <<srv, job>> /\ pc' # "orphan"
    BY <1>3 DEF WaitPc
  <2>5. CASE pc # "interrupt_wait"
    BY <1>2, <2>1, <2>3, <2>4, <2>5 DEF CodexInv, QuietInv, Quiet
  <2>6. CASE pc = "interrupt_wait"
    BY <1>2, <2>2, <2>3, <2>4, <2>6 DEF CodexInv, QuietInv, OpenPc, NanoPc
  <2> QED  BY <2>5, <2>6
<1>10. FlowInv'
  BY <1>3 DEF CodexInv, FlowInv, FlowPc, WaitPc
<1>11. DiskInv'
  <2>1. accepted = NoManifest /\ (pc = "exec_wait" => job.call = "exec" /\ own = 0)
    BY <1>3 DEF CodexInv, DiskInv, PlaceInv, WaitPc
  <2>2. pc' \in OpenPc => pc \in OpenPc
    BY <1>3 DEF OpenPc, WaitPc
  <2>3. pc' \in OpenPc \cup {"interrupt_wait", "drop", "persist", "auth_sync"}
    BY <1>3 DEF WaitPc, OpenPc
  <2>4. pc' \in {"persist", "auth_sync"} => pc = "exec_wait"
    BY <1>3 DEF WaitPc
  <2> QED  BY <1>3, <2>1, <2>2, <2>3, <2>4 DEF CodexInv, DiskInv, proposerVars, Remote, Staged, LaunchPc, OpenPc, FlowPc, LocalPc
<1>12. HomeInv'
  BY <1>3 DEF CodexInv, HomeInv, WaitPc, OpenPc, FlowPc, AfterPc
<1>13. LeftInv'
  BY <1>3 DEF CodexInv, LeftInv, WaitPc, Remote, Staged, AfterPc
<1>14. ShownInv'
  BY <1>3 DEF CodexInv, ShownInv, proposerVars
<1> QED  BY <1>5, <1>6, <1>7, <1>8, <1>9, <1>10, <1>11, <1>12, <1>13, <1>14 DEF CodexInv

LEMMA wait_for_turn_started_Keeps ==
    ASSUME CodexInv, wait_for_turn_started, UNCHANGED proposerVars
    PROVE  CodexInv'
<1>1. /\ UNCHANGED <<job, result, session, srv, wd, home, disk, left, turns, own, got, seen, faults>>
      /\ UNCHANGED proposerVars
      /\ pc = "started_wait" /\ Available /\ TakeMsg /\ ~Bad(NextMsg)
      /\ \/ Starts(NextMsg) /\ Accept(NextMsg.turn) /\ pc' = "turn_wait"
         \/ ~Starts(NextMsg) /\ Defer /\ UNCHANGED pc
  BY DEF wait_for_turn_started, Accept, Defer
<1>2. /\ Types /\ own \in 0..turns /\ own \in Nat /\ client.deferred \in Seq(Message)
      /\ client.wait \in Nat
      /\ Stream(client.deferred, client.buffer, chan, srv.notes, own)
      /\ Answered(client.deferred, client.wait, own) /\ Answered(client.buffer, client.wait, own)
      /\ Answered(chan, client.wait, own) /\ Answered(srv.resp, client.wait, own)
      /\ Rest \in Seq(Message)
  BY <1>1, ReadFacts DEF CodexInv, Types, Clients, FlowInv, FlowPc
<1>3. /\ Stream(<<>>, client.deferred \o Rest, chan', srv.notes, own)
      /\ Stream(Append(client.deferred, NextMsg), Rest, chan', srv.notes, own)
      /\ Noted(NextMsg) => NextMsg.turn \in {0, own}
  BY <1>1, <1>2, StreamRead
<1>4. /\ Answered(Rest, client.wait, own) /\ Answered(chan', client.wait, own)
      /\ NextMsg.type = "response" /\ NextMsg.id = client.wait => NextMsg.turn = own
      /\ EndsIn(client.buffer) \/ EndsIn(chan) <=> Ends(NextMsg) \/ EndsIn(Rest) \/ EndsIn(chan')
      /\ NextMsg \in Message
  BY <1>1, <1>2, ReadFacts
<1>5. CASE Starts(NextMsg) /\ Accept(NextMsg.turn) /\ pc' = "turn_wait"
  <2>1. NextMsg.turn = own /\ ~Ends(NextMsg)
    BY <1>1, <1>3, <1>4, <1>5 DEF Starts, Bad, Answers, Noted, Ends
  <2>2. /\ chan' \in Seq(Message) /\ client' \in Clients(turns)
        /\ client'.buffer = client.deferred \o Rest
        /\ client'.deferred = <<>> /\ client'.next = client.next
        /\ client'.wait = client.wait /\ client'.turn = own
        /\ Below(client'.buffer, client.next) /\ Below(chan', client.next)
        /\ Quiet => Quiet'
    BY <1>1, <1>2, <1>5, <2>1, ReadShape
  <2>3. EndsIn(client.deferred \o Rest) <=> EndsIn(client.deferred) \/ EndsIn(Rest)
    BY <1>2, ConcatFacts
  <2>4. Types'
    BY <1>1, <1>5, <2>2 DEF CodexInv, Types, proposerVars, Pc, FlowPc
  <2>5. PlaceInv' /\ ServerInv'
    BY <1>1, <1>5 DEF CodexInv, PlaceInv, ServerInv, proposerVars, Remote, Staged, Alive, OneShot, Starting, Early, LaunchPc, OpenPc, FlowPc, NanoPc, LocalPc, RemotePc, AfterPc, EndPc
  <2>6. IdInv'
    BY <2>2, <1>1, EmptyFacts DEF CodexInv, IdInv
  <2>7. QuietInv'
    BY <1>1, <1>5, <2>2 DEF CodexInv, QuietInv, OpenPc, FlowPc, NanoPc, DeferPc
  <2>8. FlowInv'
    BY <1>1, <1>3, <1>4, <1>5, <2>1, <2>2, <2>3 DEF CodexInv, FlowInv, FlowPc, Remote
  <2>9. DiskInv' /\ HomeInv' /\ LeftInv' /\ ShownInv'
    BY <1>1, <1>5 DEF CodexInv, DiskInv, HomeInv, LeftInv, ShownInv, proposerVars, Remote, Staged, LaunchPc, OpenPc, FlowPc, LocalPc, AfterPc
  <2> QED  BY <2>4, <2>5, <2>6, <2>7, <2>8, <2>9 DEF CodexInv
<1>6. CASE ~Starts(NextMsg) /\ Defer /\ UNCHANGED pc
  <2>1. /\ chan' \in Seq(Message) /\ client' \in Clients(turns)
        /\ client'.buffer = Rest
        /\ client'.deferred = Append(client.deferred, NextMsg) /\ client'.next = client.next
        /\ client'.wait = client.wait /\ client'.turn = client.turn
        /\ Below(client'.buffer, client.next) /\ Below(chan', client.next)
        /\ Below(client'.deferred, client.next)
        /\ Quiet => Quiet'
    BY <1>1, <1>6, ReadShape
  <2>2. /\ EndsIn(Append(client.deferred, NextMsg)) <=> EndsIn(client.deferred) \/ Ends(NextMsg)
        /\ Answered(Append(client.deferred, NextMsg), client.wait, own)
    BY <1>2, <1>4, AppendFacts
  <2>3. Types'
    BY <1>1, <1>6, <2>1 DEF CodexInv, Types, proposerVars
  <2>4. PlaceInv' /\ ServerInv'
    BY <1>1, <1>6 DEF CodexInv, PlaceInv, ServerInv, proposerVars, Remote, Staged, Alive, OneShot, Starting
  <2>5. IdInv'
    BY <2>1, <1>1 DEF CodexInv, IdInv
  <2>6. QuietInv'
    BY <1>1, <1>6, <2>1 DEF CodexInv, QuietInv, OpenPc, FlowPc, NanoPc, DeferPc
  <2>7. FlowInv'
    BY <1>1, <1>2, <1>3, <1>4, <1>6, <2>1, <2>2 DEF CodexInv, FlowInv, FlowPc, Remote
  <2>8. DiskInv' /\ HomeInv' /\ LeftInv' /\ ShownInv'
    BY <1>1, <1>6 DEF CodexInv, DiskInv, HomeInv, LeftInv, ShownInv, proposerVars, Remote, Staged
  <2> QED  BY <2>3, <2>4, <2>5, <2>6, <2>7, <2>8 DEF CodexInv
<1> QED  BY <1>1, <1>5, <1>6

LEMMA wait_for_turn_Keeps ==
    ASSUME CodexInv, wait_for_turn, UNCHANGED proposerVars
    PROVE  CodexInv'
<1>1. /\ UNCHANGED <<job, session, srv, wd, home, disk, left, turns, own, seen, faults>>
      /\ UNCHANGED proposerVars
      /\ pc = "turn_wait" /\ Available /\ TakeMsg
      /\ client' = [client EXCEPT !.buffer = Rest]
  BY DEF wait_for_turn
<1>2. /\ Types /\ own \in 0..turns /\ client \in Clients(turns) /\ client.turn = own
      /\ Stream(client.deferred, client.buffer, chan, srv.notes, own)
      /\ client.deferred = <<>> /\ result = "none" /\ job.call \in {"turn", "nano"}
      /\ accepted = NoManifest
  BY <1>1 DEF CodexInv, Types, PlaceInv, ServerInv, Early, QuietInv, DeferPc, FlowInv, FlowPc, DiskInv
<1>3. /\ Rest \in Seq(Message) /\ chan' \in Seq(Message) /\ NextMsg \in Message
      /\ Below(Rest, client.next) /\ Below(chan', client.next)
      /\ EndsIn(client.buffer) \/ EndsIn(chan) <=> Ends(NextMsg) \/ EndsIn(Rest) \/ EndsIn(chan')
  BY <1>1, <1>2, ReadFacts DEF CodexInv, IdInv
<1>4. /\ Stream(client.deferred, Rest, chan', srv.notes, own)
      /\ Ends(NextMsg) => Clean(Rest) /\ Clean(chan') /\ srv.notes = <<>>
      /\ Noted(NextMsg) => NextMsg.turn \in {0, own} /\ NextMsg.type # "interrupted"
  BY <1>1, <1>2, StreamRead
<1>5. /\ client' \in Clients(turns) /\ client'.buffer = Rest /\ client'.deferred = <<>>
      /\ client'.next = client.next /\ client'.wait = client.wait /\ client'.turn = own
  BY <1>1, <1>2, <1>3 DEF Clients
<1>6. IdInv'
  BY <1>1, <1>3, <1>5, EmptyFacts DEF CodexInv, IdInv
<1>7. CASE ~Terminal(NextMsg)
  <2>1. UNCHANGED <<got, pc, result>>
    BY <1>7 DEF wait_for_turn
  <2>2. ~Remote => ~Ends(NextMsg)
    BY <1>2, <1>4, <1>7 DEF Terminal, LocalTerminal, Ends, Noted
  <2>3. Types'
    BY <1>1, <1>3, <1>5, <2>1 DEF CodexInv, Types, proposerVars
  <2>4. PlaceInv' /\ ServerInv'
    BY <1>1, <2>1 DEF CodexInv, PlaceInv, ServerInv, proposerVars, Remote, Staged, Alive, OneShot, Starting
  <2>5. QuietInv'
    BY <1>1, <1>2, <1>5, <2>1 DEF CodexInv, QuietInv, OpenPc, FlowPc, NanoPc, DeferPc
  <2>6. FlowInv'
    BY <1>1, <1>2, <1>3, <1>4, <1>5, <2>1, <2>2 DEF CodexInv, FlowInv, FlowPc, Remote
  <2>7. DiskInv' /\ HomeInv' /\ LeftInv' /\ ShownInv'
    BY <1>1, <2>1 DEF CodexInv, DiskInv, HomeInv, LeftInv, ShownInv, proposerVars, Remote, Staged
  <2> QED  BY <1>6, <2>3, <2>4, <2>5, <2>6, <2>7 DEF CodexInv
<1>8. CASE Terminal(NextMsg)
  <2>1. /\ got' = own
        /\ \/ /\ NextMsg.type = "completed" /\ result' = "ok" /\ pc' = AfterTurn
           \/ /\ result' = "failed"
              /\ pc' = IF job.call = "nano" THEN "drop" ELSE AfterFailure
    BY <1>2, <1>8 DEF wait_for_turn
  <2>2. /\ result' \in {"ok", "failed"}
        /\ result' = "ok" => Ends(NextMsg) /\ pc' = AfterTurn
        /\ result' = "failed" => pc' = IF job.call = "nano" THEN "drop" ELSE AfterFailure
    BY <2>1 DEF Ends
  <2>3. /\ job.call = "nano" => pc' \in {"record", "drop"} /\ ~Remote
        /\ job.call = "turn" => /\ pc' \in {"auth_sync", "persist", "close", "terminate"}
                                /\ pc' \in {"auth_sync", "close"} <=> Remote
        /\ pc' \in {"record", "auth_sync", "persist"} <=> result' = "ok"
    BY <1>2, <2>2, JobFacts DEF AfterTurn, AfterFailure, OneShot, Remote
  <2>4. result' = "ok" => Quiet'
    BY <1>1, <1>4, <1>5, <2>2, EmptyFacts DEF Quiet
  <2>5. pc' \in Pc
    BY <1>2, <2>3 DEF Pc, NanoPc, LocalPc, RemotePc
  <2>6. Types'
    BY <1>1, <1>2, <1>3, <1>5, <2>1, <2>5 DEF CodexInv, Types, proposerVars
  <2>7. PlaceInv'
    BY <1>1, <1>2, <2>3, JobFacts DEF CodexInv, Types, PlaceInv, proposerVars, Remote, Staged, Starting, FlowPc, NanoPc, LocalPc, RemotePc, AfterPc, EndPc
  <2>8. ServerInv'
    <3>1. wd.at # "gone" => OneShot /\ ~Remote
      BY DEF CodexInv, ServerInv
    <3> QED  BY <1>1, <1>2, <2>3, <3>1, JobFacts DEF ServerInv, Remote, OneShot, Early, LaunchPc, OpenPc, FlowPc, LocalPc, AfterPc, EndPc
  <2>9. QuietInv'
    BY <1>2, <2>3, <1>1, <1>5, <2>4 DEF CodexInv, PlaceInv, OpenPc, NanoPc, QuietInv, FlowPc,
       DeferPc
  <2>10. FlowInv'
    BY <1>1, <1>2, <2>1, <2>3 DEF CodexInv, FlowInv, FlowPc
  <2>11. DiskInv'
    BY <1>1, <1>2, <2>2, <2>3, JobFacts DEF CodexInv, DiskInv, proposerVars, Remote, Staged, LaunchPc, OpenPc, FlowPc, LocalPc
  <2>12. HomeInv'
    BY <1>1, <1>2, <2>2, <2>3 DEF CodexInv, HomeInv, OpenPc, FlowPc, AfterPc
  <2>13. LeftInv'
    BY <1>1, <1>2, <2>3 DEF CodexInv, LeftInv, Remote, Staged, AfterPc
  <2>14. ShownInv'
    BY <1>1 DEF CodexInv, ShownInv, proposerVars
  <2> QED  BY <1>6, <2>6, <2>7, <2>8, <2>9, <2>10, <2>11, <2>12, <2>13, <2>14 DEF CodexInv
<1> QED  BY <1>7, <1>8

LEMMA Stall_Keeps ==
    ASSUME CodexInv, Stall, UNCHANGED proposerVars
    PROVE  CodexInv'
<1>1. Types'
  <2>1. pc' \in Pc
    BY JobFacts DEF CodexInv, Types, PlaceInv, Remote, Staged, Pc, LaunchPc, OpenPc, FlowPc, NanoPc, LocalPc, RemotePc, AfterPc, EndPc, Stall, Reading, Fail, AfterFailure, Starting, OneShot, Keep
  <2>2. client' \in Clients(turns)
    BY EmptyFacts, NewTyped DEF CodexInv, Types, Clients, Stall, Reading, Fail, AfterFailure, Starting, OneShot, Remote, Keep
  <2> QED  BY <2>1, <2>2 DEF CodexInv, Types, proposerVars, Stall, Reading, Fail, AfterFailure, Starting, OneShot, Remote, Keep
<1>2. PlaceInv'
  BY JobFacts DEF CodexInv, PlaceInv, Remote, Starting, FlowPc, NanoPc, LocalPc, RemotePc, AfterPc,
     EndPc, proposerVars, Stall, Reading, Fail, AfterFailure, OneShot, Keep
<1>3. ServerInv'
  BY DEF CodexInv, ServerInv, Early, Remote, Alive, OneShot, LaunchPc, OpenPc, FlowPc, LocalPc,
     AfterPc, EndPc, Stall, Fail, AfterFailure, Keep
<1>4. IdInv'
  BY EmptyFacts, AppendFacts, TailFacts DEF CodexInv, Types, IdInv, Clients, Servers, Watches, Homes, Disks, Lefts, Pc, LaunchPc, OpenPc, FlowPc, NanoPc, LocalPc, RemotePc, AfterPc, EndPc, proposerVars, Stall, Reading, Fail, AfterFailure, Starting, OneShot, Remote, Keep
<1>5. QuietInv'
  <2>1. /\ UNCHANGED <<job, session, srv, chan>> /\ client'.deferred = <<>> /\ client'.buffer = client.buffer
        /\ pc \in Reading
        /\ pc' = IF pc = "interrupt_wait" THEN "drop" ELSE AfterFailure
        /\ pc # "interrupt_wait" => result' \in {"closed", "stalled", "timeout", "poll"}
        /\ pc = "interrupt_wait" => UNCHANGED result
    BY JobFacts DEF CodexInv, Types, Clients, PlaceInv, NanoPc, Remote, Stall, Keep, Fail, Reading
  <2>2. Quiet => Quiet'
    BY <2>1, EmptyFacts DEF Quiet
  <2>3. pc' \in {"orphan", "interrupt", "drop", "close", "terminate"}
    BY <2>1, JobFacts DEF AfterFailure, OneShot, Remote
  <2>4. pc' = "orphan" => pc \in OpenPc
    BY <2>1 DEF AfterFailure, Starting, OpenPc, OneShot
  <2>5. job.call = "nano" => pc' \in NanoPc
    BY <2>1 DEF AfterFailure, NanoPc, OneShot
  <2>6. pc = "interrupt_wait" => job.call = "nano"
    BY DEF CodexInv, PlaceInv, NanoPc
  <2>7. session # NoSession => Quiet' \/ pc' \in NanoPc
    BY <2>1, <2>2, <2>5, <2>6 DEF CodexInv, QuietInv, FlowPc, PlaceInv
  <2> QED  BY <2>1, <2>2, <2>3, <2>4, <2>5, <2>7 DEF CodexInv, QuietInv, Quiet, OpenPc, NanoPc
<1>6. FlowInv'
  BY JobFacts DEF CodexInv, Types, PlaceInv, FlowInv, Remote, Staged, Clients, Servers, Watches, Homes, Disks, Lefts, Pc, LaunchPc, OpenPc, FlowPc, NanoPc, LocalPc, RemotePc, AfterPc, EndPc, proposerVars, Stall, Reading, Fail, AfterFailure, Starting, OneShot, Keep
<1>7. DiskInv'
  <2>1. /\ UNCHANGED <<job, disk, own, accepted, ask>> /\ pc \in Reading
        /\ pc' \in {"orphan", "interrupt", "drop", "close", "terminate"}
        /\ pc # "interrupt_wait" => result' # "ok"
        /\ pc = "interrupt_wait" => job.call = "nano"
    BY JobFacts DEF CodexInv, Types, PlaceInv, NanoPc, Keep, Fail, AfterFailure, OneShot, Remote, proposerVars, Stall
  <2>2. accepted = NoManifest
    BY <2>1 DEF CodexInv, DiskInv, Reading
  <2>3. pc' = "terminate" => ~Remote
    BY <2>1 DEF Fail, AfterFailure, OneShot, Remote, Stall
  <2>4. Reading \subseteq OpenPc \cup FlowPc \cup {"interrupt_wait"}
    BY DEF Reading, OpenPc, FlowPc
  <2> QED  BY <2>1, <2>2, <2>3, <2>4, JobFacts DEF CodexInv, Types, DiskInv, Remote, Staged, LaunchPc, OpenPc, FlowPc, LocalPc
<1>8. HomeInv'
  BY JobFacts DEF CodexInv, Types, PlaceInv, ServerInv, Early, QuietInv, Quiet, HomeInv, Remote, Staged, Clients, Servers, Watches, Homes, Disks, Lefts, Pc, LaunchPc, OpenPc, FlowPc, NanoPc, LocalPc, RemotePc, AfterPc, EndPc, proposerVars, Stall, Reading, Fail, AfterFailure, Starting, OneShot, Keep
<1>9. LeftInv'
  BY JobFacts DEF CodexInv, Types, PlaceInv, ServerInv, Early, QuietInv, Quiet, LeftInv, Remote, Staged, Clients, Servers, Watches, Homes, Disks, Lefts, Pc, LaunchPc, OpenPc, FlowPc, NanoPc, LocalPc, RemotePc, AfterPc, EndPc, proposerVars, Stall, Reading, Fail, AfterFailure, Starting, OneShot, Keep
<1>10. ShownInv'
  BY DEF CodexInv, ShownInv, Pc, LaunchPc, OpenPc, FlowPc, NanoPc, LocalPc, RemotePc, AfterPc, EndPc, proposerVars, Stall, Reading, Fail, AfterFailure, Starting, OneShot, Remote, Keep
<1> QED  BY <1>1, <1>2, <1>3, <1>4, <1>5, <1>6, <1>7, <1>8, <1>9, <1>10 DEF CodexInv

LEMMA WindowEnds_Keeps ==
    ASSUME CodexInv, WindowEnds, UNCHANGED proposerVars
    PROVE  CodexInv'
<1>1. Types'
  <2>1. pc' \in Pc
    BY JobFacts DEF CodexInv, Types, PlaceInv, Remote, Staged, Pc, LaunchPc, OpenPc, FlowPc, NanoPc, LocalPc, RemotePc, AfterPc, EndPc, WindowEnds, Reading, Fail, AfterFailure, Starting, OneShot, Keep, Fault
  <2>2. client' \in Clients(turns)
    BY EmptyFacts, NewTyped DEF CodexInv, Types, Clients, WindowEnds, Reading, Fail, AfterFailure, Starting, OneShot, Remote, Keep, Fault
  <2>3. faults' \in 0..MaxFaults
    BY AgentTurnAssumption DEF CodexInv, Types, WindowEnds, Reading, Fail, AfterFailure, Starting, OneShot, Remote, Keep, Fault
  <2> QED  BY <2>1, <2>2, <2>3 DEF CodexInv, Types, proposerVars, WindowEnds, Reading, Fail, AfterFailure, Starting, OneShot, Remote, Keep, Fault
<1>2. PlaceInv'
  BY JobFacts DEF CodexInv, Types, PlaceInv, Remote, Staged, Starting, Clients, Servers, Watches, Homes, Disks, Lefts, Pc, LaunchPc, OpenPc, FlowPc, NanoPc, LocalPc, RemotePc, AfterPc, EndPc, proposerVars, WindowEnds, Reading, Fail, AfterFailure, OneShot, Keep, Fault
<1>3. ServerInv'
  BY DEF CodexInv, ServerInv, Early, Remote, OneShot, LaunchPc, OpenPc, FlowPc, LocalPc, AfterPc,
     WindowEnds, Fail, AfterFailure, Keep
<1>4. IdInv'
  BY EmptyFacts, AppendFacts, TailFacts DEF CodexInv, Types, IdInv, Clients, Servers, Watches, Homes, Disks, Lefts, Pc, LaunchPc, OpenPc, FlowPc, NanoPc, LocalPc, RemotePc, AfterPc, EndPc, proposerVars, WindowEnds, Reading, Fail, AfterFailure, Starting, OneShot, Remote, Keep, Fault
<1>5. QuietInv'
  <2>1. /\ UNCHANGED <<job, session, srv, chan>> /\ client'.deferred = <<>> /\ client'.buffer = client.buffer
        /\ pc \in Reading
        /\ pc' = IF pc = "interrupt_wait" THEN "drop" ELSE AfterFailure
        /\ pc # "interrupt_wait" => result' \in {"closed", "stalled", "timeout", "poll"}
        /\ pc = "interrupt_wait" => UNCHANGED result
    BY JobFacts DEF CodexInv, Types, Clients, PlaceInv, NanoPc, Remote, WindowEnds, Keep, Fail, Reading
  <2>2. Quiet => Quiet'
    BY <2>1, EmptyFacts DEF Quiet
  <2>3. pc' \in {"orphan", "interrupt", "drop", "close", "terminate"}
    BY <2>1, JobFacts DEF AfterFailure, OneShot, Remote
  <2>4. pc' = "orphan" => pc \in OpenPc
    BY <2>1 DEF AfterFailure, Starting, OpenPc, OneShot
  <2>5. job.call = "nano" => pc' \in NanoPc
    BY <2>1 DEF AfterFailure, NanoPc, OneShot
  <2>6. pc = "interrupt_wait" => job.call = "nano"
    BY DEF CodexInv, PlaceInv, NanoPc
  <2>7. session # NoSession => Quiet' \/ pc' \in NanoPc
    BY <2>1, <2>2, <2>5, <2>6 DEF CodexInv, QuietInv, FlowPc, PlaceInv
  <2> QED  BY <2>1, <2>2, <2>3, <2>4, <2>5, <2>7 DEF CodexInv, QuietInv, Quiet, OpenPc, NanoPc
<1>6. FlowInv'
  BY JobFacts DEF CodexInv, Types, PlaceInv, FlowInv, Remote, Staged, Clients, Servers, Watches, Homes, Disks, Lefts, Pc, LaunchPc, OpenPc, FlowPc, NanoPc, LocalPc, RemotePc, AfterPc, EndPc, proposerVars, WindowEnds, Reading, Fail, AfterFailure, Starting, OneShot, Keep, Fault
<1>7. DiskInv'
  <2>1. /\ UNCHANGED <<job, disk, own, accepted, ask>> /\ pc \in Reading
        /\ pc' \in {"orphan", "interrupt", "drop", "close", "terminate"}
        /\ pc # "interrupt_wait" => result' # "ok"
        /\ pc = "interrupt_wait" => job.call = "nano"
    BY JobFacts DEF CodexInv, Types, PlaceInv, NanoPc, Keep, Fail, AfterFailure, OneShot, Remote, proposerVars, WindowEnds
  <2>2. accepted = NoManifest
    BY <2>1 DEF CodexInv, DiskInv, Reading
  <2>3. pc' = "terminate" => ~Remote
    BY <2>1 DEF Fail, AfterFailure, OneShot, Remote, WindowEnds
  <2>4. Reading \subseteq OpenPc \cup FlowPc \cup {"interrupt_wait"}
    BY DEF Reading, OpenPc, FlowPc
  <2> QED  BY <2>1, <2>2, <2>3, <2>4, JobFacts DEF CodexInv, Types, DiskInv, Remote, Staged, LaunchPc, OpenPc, FlowPc, LocalPc
<1>8. HomeInv'
  BY JobFacts DEF CodexInv, Types, PlaceInv, ServerInv, Early, QuietInv, Quiet, HomeInv, Remote, Staged, Clients, Servers, Watches, Homes, Disks, Lefts, Pc, LaunchPc, OpenPc, FlowPc, NanoPc, LocalPc, RemotePc, AfterPc, EndPc, proposerVars, WindowEnds, Reading, Fail, AfterFailure, Starting, OneShot, Keep, Fault
<1>9. LeftInv'
  BY JobFacts DEF CodexInv, Types, PlaceInv, ServerInv, Early, QuietInv, Quiet, LeftInv, Remote, Staged, Clients, Servers, Watches, Homes, Disks, Lefts, Pc, LaunchPc, OpenPc, FlowPc, NanoPc, LocalPc, RemotePc, AfterPc, EndPc, proposerVars, WindowEnds, Reading, Fail, AfterFailure, Starting, OneShot, Keep, Fault
<1>10. ShownInv'
  BY DEF CodexInv, ShownInv, Pc, LaunchPc, OpenPc, FlowPc, NanoPc, LocalPc, RemotePc, AfterPc, EndPc, proposerVars, WindowEnds, Reading, Fail, AfterFailure, Starting, OneShot, Remote, Keep, Fault
<1> QED  BY <1>1, <1>2, <1>3, <1>4, <1>5, <1>6, <1>7, <1>8, <1>9, <1>10 DEF CodexInv

LEMMA PollFails_Keeps ==
    ASSUME CodexInv, PollFails, UNCHANGED proposerVars
    PROVE  CodexInv'
<1>1. Types'
  <2>1. pc' \in Pc
    BY JobFacts DEF CodexInv, Types, PlaceInv, Remote, Staged, Pc, LaunchPc, OpenPc, FlowPc, NanoPc, LocalPc, RemotePc, AfterPc, EndPc, PollFails, Reading, Fail, AfterFailure, Starting, OneShot, Keep, Fault
  <2>2. client' \in Clients(turns)
    BY EmptyFacts, NewTyped DEF CodexInv, Types, Clients, PollFails, Reading, Fail, AfterFailure, Starting, OneShot, Remote, Keep, Fault
  <2>3. faults' \in 0..MaxFaults
    BY AgentTurnAssumption DEF CodexInv, Types, PollFails, Reading, Fail, AfterFailure, Starting, OneShot, Remote, Keep, Fault
  <2> QED  BY <2>1, <2>2, <2>3 DEF CodexInv, Types, proposerVars, PollFails, Reading, Fail, AfterFailure, Starting, OneShot, Remote, Keep, Fault
<1>2. PlaceInv'
  BY JobFacts DEF CodexInv, Types, PlaceInv, Remote, Staged, Starting, Clients, Servers, Watches, Homes, Disks, Lefts, Pc, LaunchPc, OpenPc, FlowPc, NanoPc, LocalPc, RemotePc, AfterPc, EndPc, proposerVars, PollFails, Reading, Fail, AfterFailure, OneShot, Keep, Fault
<1>3. ServerInv'
  BY JobFacts DEF CodexInv, Types, PlaceInv, ServerInv, Early, Remote, Staged, Alive, OneShot, Clients, Servers, Watches, Homes, Disks, Lefts, Pc, LaunchPc, OpenPc, FlowPc, NanoPc, LocalPc, RemotePc, AfterPc, EndPc, proposerVars, PollFails, Reading, Fail, AfterFailure, Starting, Keep, Fault
<1>4. IdInv'
  BY EmptyFacts, AppendFacts, TailFacts DEF CodexInv, Types, IdInv, Clients, Servers, Watches, Homes, Disks, Lefts, Pc, LaunchPc, OpenPc, FlowPc, NanoPc, LocalPc, RemotePc, AfterPc, EndPc, proposerVars, PollFails, Reading, Fail, AfterFailure, Starting, OneShot, Remote, Keep, Fault
<1>5. QuietInv'
  <2>1. /\ UNCHANGED <<job, session, srv, chan>> /\ client'.deferred = <<>> /\ client'.buffer = client.buffer
        /\ pc \in Reading
        /\ pc' = IF pc = "interrupt_wait" THEN "drop" ELSE AfterFailure
        /\ pc # "interrupt_wait" => result' \in {"closed", "stalled", "timeout", "poll"}
        /\ pc = "interrupt_wait" => UNCHANGED result
    BY JobFacts DEF CodexInv, Types, Clients, PlaceInv, NanoPc, Remote, PollFails, Keep, Fail, Reading
  <2>2. Quiet => Quiet'
    BY <2>1, EmptyFacts DEF Quiet
  <2>3. pc' \in {"orphan", "interrupt", "drop", "close", "terminate"}
    BY <2>1, JobFacts DEF AfterFailure, OneShot, Remote
  <2>4. pc' = "orphan" => pc \in OpenPc
    BY <2>1 DEF AfterFailure, Starting, OpenPc, OneShot
  <2>5. job.call = "nano" => pc' \in NanoPc
    BY <2>1 DEF AfterFailure, NanoPc, OneShot
  <2>6. pc = "interrupt_wait" => job.call = "nano"
    BY DEF CodexInv, PlaceInv, NanoPc
  <2>7. session # NoSession => Quiet' \/ pc' \in NanoPc
    BY <2>1, <2>2, <2>5, <2>6 DEF CodexInv, QuietInv, FlowPc, PlaceInv
  <2> QED  BY <2>1, <2>2, <2>3, <2>4, <2>5, <2>7 DEF CodexInv, QuietInv, Quiet, OpenPc, NanoPc
<1>6. FlowInv'
  BY JobFacts DEF CodexInv, Types, PlaceInv, FlowInv, Remote, Staged, Clients, Servers, Watches, Homes, Disks, Lefts, Pc, LaunchPc, OpenPc, FlowPc, NanoPc, LocalPc, RemotePc, AfterPc, EndPc, proposerVars, PollFails, Reading, Fail, AfterFailure, Starting, OneShot, Keep, Fault
<1>7. DiskInv'
  <2>1. /\ UNCHANGED <<job, disk, own, accepted, ask>> /\ pc \in Reading
        /\ pc' \in {"orphan", "interrupt", "drop", "close", "terminate"}
        /\ pc # "interrupt_wait" => result' # "ok"
        /\ pc = "interrupt_wait" => job.call = "nano"
    BY JobFacts DEF CodexInv, Types, PlaceInv, NanoPc, Keep, Fail, AfterFailure, OneShot, Remote, proposerVars, PollFails
  <2>2. accepted = NoManifest
    BY <2>1 DEF CodexInv, DiskInv, Reading
  <2>3. pc' = "terminate" => ~Remote
    BY <2>1 DEF Fail, AfterFailure, OneShot, Remote, PollFails
  <2>4. Reading \subseteq OpenPc \cup FlowPc \cup {"interrupt_wait"}
    BY DEF Reading, OpenPc, FlowPc
  <2> QED  BY <2>1, <2>2, <2>3, <2>4, JobFacts DEF CodexInv, Types, DiskInv, Remote, Staged, LaunchPc, OpenPc, FlowPc, LocalPc
<1>8. HomeInv'
  BY JobFacts DEF CodexInv, Types, PlaceInv, ServerInv, Early, QuietInv, Quiet, HomeInv, Remote, Staged, Clients, Servers, Watches, Homes, Disks, Lefts, Pc, LaunchPc, OpenPc, FlowPc, NanoPc, LocalPc, RemotePc, AfterPc, EndPc, proposerVars, PollFails, Reading, Fail, AfterFailure, Starting, OneShot, Keep, Fault
<1>9. LeftInv'
  BY JobFacts DEF CodexInv, Types, PlaceInv, ServerInv, Early, QuietInv, Quiet, LeftInv, Remote, Staged, Clients, Servers, Watches, Homes, Disks, Lefts, Pc, LaunchPc, OpenPc, FlowPc, NanoPc, LocalPc, RemotePc, AfterPc, EndPc, proposerVars, PollFails, Reading, Fail, AfterFailure, Starting, OneShot, Keep, Fault
<1>10. ShownInv'
  BY DEF CodexInv, ShownInv, Pc, LaunchPc, OpenPc, FlowPc, NanoPc, LocalPc, RemotePc, AfterPc, EndPc, proposerVars, PollFails, Reading, Fail, AfterFailure, Starting, OneShot, Remote, Keep, Fault
<1> QED  BY <1>1, <1>2, <1>3, <1>4, <1>5, <1>6, <1>7, <1>8, <1>9, <1>10 DEF CodexInv

-----------------------------------------------------------------------------
(* The launch.                                                              *)
LEMMA Stage_Keeps ==
    ASSUME CodexInv, Stage, UNCHANGED proposerVars
    PROVE  CodexInv'
<1>1. Types'
  <2>1. pc' \in Pc
    BY JobFacts DEF CodexInv, Types, PlaceInv, Remote, Staged, Pc, LaunchPc, OpenPc, FlowPc, NanoPc, LocalPc, RemotePc, AfterPc, EndPc, Stage, Fault, stage_workspace
  <2>2. left' \in Lefts
    BY AgentTurnAssumption DEF CodexInv, Types, Lefts, Stage, Fault, stage_workspace
  <2>3. disk' \in Disks(turns)
    BY AgentTurnAssumption DEF CodexInv, Types, Disks, Stage, Fault, stage_workspace
  <2>4. faults' \in 0..MaxFaults
    BY AgentTurnAssumption DEF CodexInv, Types, Stage, Fault, stage_workspace
  <2> QED  BY <2>1, <2>2, <2>3, <2>4 DEF CodexInv, Types, proposerVars, Stage, Fault, stage_workspace
<1>2. PlaceInv'
  BY JobFacts DEF CodexInv, Types, PlaceInv, Remote, Staged, Starting, Clients, Servers, Watches, Homes, Disks, Lefts, Pc, LaunchPc, OpenPc, FlowPc, NanoPc, LocalPc, RemotePc, AfterPc, EndPc, proposerVars, Stage, Fault, stage_workspace
<1>3. ServerInv'
  BY JobFacts DEF CodexInv, Types, PlaceInv, ServerInv, Early, Remote, Staged, Alive, OneShot, Clients, Servers, Watches, Homes, Disks, Lefts, Pc, LaunchPc, OpenPc, FlowPc, NanoPc, LocalPc, RemotePc, AfterPc, EndPc, proposerVars, Stage, Fault, stage_workspace
<1>4. IdInv'
  BY EmptyFacts, AppendFacts, TailFacts DEF CodexInv, Types, IdInv, Clients, Servers, Watches, Homes, Disks, Lefts, Pc, LaunchPc, OpenPc, FlowPc, NanoPc, LocalPc, RemotePc, AfterPc, EndPc, proposerVars, Stage, Fault, stage_workspace
<1>5. QuietInv'
  BY JobFacts, EmptyFacts, AppendFacts, TailFacts DEF CodexInv, Types, PlaceInv, ServerInv, Early, QuietInv, Quiet, DeferPc, Remote, Staged, Clients, Servers, Watches, Homes, Disks, Lefts, Pc, LaunchPc, OpenPc, FlowPc, NanoPc, LocalPc, RemotePc, AfterPc, EndPc, proposerVars, Stage, Fault, stage_workspace
<1>6. FlowInv'
  BY JobFacts DEF CodexInv, Types, PlaceInv, FlowInv, Remote, Staged, Clients, Servers, Watches, Homes, Disks, Lefts, Pc, LaunchPc, OpenPc, FlowPc, NanoPc, LocalPc, RemotePc, AfterPc, EndPc, proposerVars, Stage, Fault, stage_workspace
<1>7. DiskInv'
  <2>1. /\ UNCHANGED <<job, own, accepted, ask>> /\ pc = "stage" /\ own = 0
        /\ disk \in Disks(turns) /\ disk.latest = 0 /\ accepted = NoManifest
    BY DEF CodexInv, Types, Stage, proposerVars, DiskInv, LaunchPc
  <2>2. CASE disk' = stage_workspace /\ pc' = "prepare"
    <3>1. disk'.staged = disk.orig /\ disk'.orig = disk.orig /\ disk'.latest = 0
      BY <2>1, <2>2 DEF stage_workspace, Disks
    <3> QED  BY <2>1, <2>2, <3>1, JobFacts DEF CodexInv, DiskInv, Types, PlaceInv, Remote, Staged, LaunchPc, OpenPc, FlowPc, LocalPc
  <2>3. CASE UNCHANGED disk /\ pc' = "returned" /\ result' = "setup"
    BY <2>1, <2>3 DEF CodexInv, DiskInv, Remote, Staged, LaunchPc, OpenPc, FlowPc, LocalPc
  <2> QED  BY <2>2, <2>3 DEF Stage
<1>8. HomeInv'
  BY JobFacts DEF CodexInv, Types, PlaceInv, ServerInv, Early, QuietInv, Quiet, HomeInv, Remote, Staged, Clients, Servers, Watches, Homes, Disks, Lefts, Pc, LaunchPc, OpenPc, FlowPc, NanoPc, LocalPc, RemotePc, AfterPc, EndPc, proposerVars, Stage, Fault, stage_workspace
<1>9. LeftInv'
  BY JobFacts DEF CodexInv, Types, PlaceInv, ServerInv, Early, QuietInv, Quiet, LeftInv, Remote, Staged, Clients, Servers, Watches, Homes, Disks, Lefts, Pc, LaunchPc, OpenPc, FlowPc, NanoPc, LocalPc, RemotePc, AfterPc, EndPc, proposerVars, Stage, Fault, stage_workspace
<1>10. ShownInv'
  BY DEF CodexInv, ShownInv, Pc, LaunchPc, OpenPc, FlowPc, NanoPc, LocalPc, RemotePc, AfterPc, EndPc, proposerVars, Stage, Fault, stage_workspace
<1> QED  BY <1>1, <1>2, <1>3, <1>4, <1>5, <1>6, <1>7, <1>8, <1>9, <1>10 DEF CodexInv

LEMMA prepare_proposer_codex_launch_Keeps ==
    ASSUME CodexInv, prepare_proposer_codex_launch, UNCHANGED proposerVars
    PROVE  CodexInv'
<1>1. Types'
  <2>1. pc' \in Pc
    BY JobFacts DEF CodexInv, Types, PlaceInv, Remote, Staged, Pc, LaunchPc, OpenPc, FlowPc, NanoPc, LocalPc, RemotePc, AfterPc, EndPc, prepare_proposer_codex_launch, copy_codex_home, prepare_api_key_codex_home, AfterPrepare, Fault, Abort, Missing
  <2>2. home' \in Homes(turns)
    <3>1. home \in Homes(turns) /\ turns \in Nat
      BY DEF CodexInv, Types
    <3>2. copy_codex_home \in Homes(turns)
      BY <3>1 DEF copy_codex_home, Homes
    <3>3. prepare_api_key_codex_home \in Homes(turns)
      BY <3>1 DEF prepare_api_key_codex_home, Homes
    <3> QED  BY <3>1, <3>2, <3>3 DEF prepare_proposer_codex_launch
  <2>3. faults' \in 0..MaxFaults
    BY AgentTurnAssumption DEF CodexInv, Types, prepare_proposer_codex_launch, copy_codex_home, prepare_api_key_codex_home, AfterPrepare, Fault, Abort, Staged, Remote, Missing
  <2> QED  BY <2>1, <2>2, <2>3 DEF CodexInv, Types, proposerVars, prepare_proposer_codex_launch, copy_codex_home, prepare_api_key_codex_home, AfterPrepare, Fault, Abort, Staged, Remote, Missing
<1>2. PlaceInv'
  BY JobFacts DEF CodexInv, Types, PlaceInv, Remote, Staged, Starting, Clients, Servers, Watches, Homes, Disks, Lefts, Pc, LaunchPc, OpenPc, FlowPc, NanoPc, LocalPc, RemotePc, AfterPc, EndPc, proposerVars, prepare_proposer_codex_launch, copy_codex_home, prepare_api_key_codex_home, AfterPrepare, Fault, Abort, Missing
<1>3. ServerInv'
  BY JobFacts DEF CodexInv, Types, PlaceInv, ServerInv, Early, Remote, Staged, Alive, OneShot, Clients, Servers, Watches, Homes, Disks, Lefts, Pc, LaunchPc, OpenPc, FlowPc, NanoPc, LocalPc, RemotePc, AfterPc, EndPc, proposerVars, prepare_proposer_codex_launch, copy_codex_home, prepare_api_key_codex_home, AfterPrepare, Fault, Abort, Missing
<1>4. IdInv'
  BY DEF CodexInv, IdInv, prepare_proposer_codex_launch
<1>5. QuietInv'
  BY JobFacts, EmptyFacts, AppendFacts, TailFacts DEF CodexInv, Types, PlaceInv, ServerInv, Early, QuietInv, Quiet, DeferPc, Remote, Staged, Clients, Servers, Watches, Homes, Disks, Lefts, Pc, LaunchPc, OpenPc, FlowPc, NanoPc, LocalPc, RemotePc, AfterPc, EndPc, proposerVars, prepare_proposer_codex_launch, copy_codex_home, prepare_api_key_codex_home, AfterPrepare, Fault, Abort, Missing
<1>6. FlowInv'
  BY JobFacts DEF CodexInv, Types, PlaceInv, FlowInv, Remote, Staged, Clients, Servers, Watches, Homes, Disks, Lefts, Pc, LaunchPc, OpenPc, FlowPc, NanoPc, LocalPc, RemotePc, AfterPc, EndPc, proposerVars, prepare_proposer_codex_launch, copy_codex_home, prepare_api_key_codex_home, AfterPrepare, Fault, Abort, Missing
<1>7. DiskInv'
  BY JobFacts DEF CodexInv, Types, PlaceInv, ServerInv, Early, QuietInv, Quiet, FlowInv, DiskInv, Remote, Staged, Clients, Servers, Watches, Homes, Disks, Lefts, Pc, LaunchPc, OpenPc, FlowPc, NanoPc, LocalPc, RemotePc, AfterPc, EndPc, proposerVars, prepare_proposer_codex_launch, copy_codex_home, prepare_api_key_codex_home, AfterPrepare, Fault, Abort, Missing
<1>8. HomeInv'
  <2>1. /\ UNCHANGED job /\ pc = "prepare" /\ home \in Homes(turns)
        /\ pc' \in {"spawn", "provision", "sync", "returned"}
        /\ pc' \in {"sync", "returned"} => result' # "ok"
        /\ UNCHANGED result \/ result' = "setup"
    BY DEF CodexInv, Types, prepare_proposer_codex_launch, AfterPrepare, Abort, Staged
  <2>2. result # "ok"
    BY <2>1 DEF CodexInv, ServerInv, Early, LaunchPc
  <2>3. pc' \in {"spawn", "provision"} /\ job.auth = "chatgpt" => home' = copy_codex_home
    BY DEF prepare_proposer_codex_launch, Abort, AfterPrepare
  <2>4. home' = copy_codex_home => home'.staged = home'.latest
    BY <2>1 DEF copy_codex_home, Homes
  <2> QED  BY <2>1, <2>2, <2>3, <2>4 DEF HomeInv, OpenPc, FlowPc, AfterPc
<1>9. LeftInv'
  BY JobFacts DEF CodexInv, Types, PlaceInv, ServerInv, Early, QuietInv, Quiet, LeftInv, Remote, Staged, Clients, Servers, Watches, Homes, Disks, Lefts, Pc, LaunchPc, OpenPc, FlowPc, NanoPc, LocalPc, RemotePc, AfterPc, EndPc, proposerVars, prepare_proposer_codex_launch, copy_codex_home, prepare_api_key_codex_home, AfterPrepare, Fault, Abort, Missing
<1>10. ShownInv'
  BY DEF CodexInv, ShownInv, Pc, LaunchPc, OpenPc, FlowPc, NanoPc, LocalPc, RemotePc, AfterPc, EndPc, proposerVars, prepare_proposer_codex_launch, copy_codex_home, prepare_api_key_codex_home, AfterPrepare, Fault, Abort, Staged, Remote, Missing
<1> QED  BY <1>1, <1>2, <1>3, <1>4, <1>5, <1>6, <1>7, <1>8, <1>9, <1>10 DEF CodexInv

LEMMA start_process_Keeps ==
    ASSUME CodexInv, start_process, UNCHANGED proposerVars
    PROVE  CodexInv'
<1>1. Types'
  <2>1. pc' \in Pc
    BY JobFacts DEF CodexInv, Types, PlaceInv, Remote, Staged, Pc, LaunchPc, OpenPc, FlowPc, NanoPc, LocalPc, RemotePc, AfterPc, EndPc, start_process, Launched, NeverReady, Abort, Fault, NoServer, NoClient, NoWatch, OneShot
  <2>2. srv' \in Servers
    BY EmptyFacts, TailFacts, NewTyped DEF CodexInv, Types, Servers, start_process, Launched, NeverReady, Abort, Fault, OneShot, Staged, Remote
  <2>3. client' \in Clients(turns)
    BY EmptyFacts, NewTyped DEF CodexInv, Types, Clients, start_process, Launched, NeverReady, Abort, Fault, OneShot, Staged, Remote
  <2>4. chan' \in Seq(Message)
    BY EmptyFacts, AppendFacts, TailFacts DEF CodexInv, Types, Servers, start_process, Launched, NeverReady, Abort, Fault, NoServer, NoClient, NoWatch, OneShot, Staged, Remote
  <2>5. wd' \in Watches
    BY AgentTurnAssumption, NewTyped DEF CodexInv, Types, Watches, start_process, Launched, NeverReady, Abort, Fault, OneShot, Staged, Remote
  <2>6. left' \in Lefts
    BY AgentTurnAssumption DEF CodexInv, Types, Lefts, start_process, Launched, NeverReady, Abort, Fault, NoServer, NoClient, NoWatch, OneShot, Staged, Remote
  <2>7. faults' \in 0..MaxFaults
    BY AgentTurnAssumption DEF CodexInv, Types, start_process, Launched, NeverReady, Abort, Fault, NoServer, NoClient, NoWatch, OneShot, Staged, Remote
  <2> QED  BY <2>1, <2>2, <2>3, <2>4, <2>5, <2>6, <2>7 DEF CodexInv, Types, proposerVars, start_process, Launched, NeverReady, Abort, Fault, NoServer, NoClient, NoWatch, OneShot, Staged, Remote
<1>2. PlaceInv'
  BY JobFacts DEF CodexInv, Types, PlaceInv, Remote, Staged, Starting, Clients, Servers, Watches, Homes, Disks, Lefts, Pc, LaunchPc, OpenPc, FlowPc, NanoPc, LocalPc, RemotePc, AfterPc, EndPc, proposerVars, start_process, Launched, NeverReady, Abort, Fault, NoServer, NoClient, NoWatch, OneShot
<1>3. ServerInv'
  <2>1. /\ UNCHANGED job /\ pc = "spawn" /\ ~Remote
    BY DEF CodexInv, PlaceInv, start_process
  <2>2. result = "none" /\ wd.at = "gone" /\ (job.call \in {"turn", "exec"} => ~Alive)
    BY <2>1 DEF CodexInv, ServerInv, Early, LaunchPc, OpenPc, FlowPc, EndPc, LocalPc
  <2>3. CASE Launched
    BY <2>1, <2>2, <2>3 DEF ServerInv, Launched, NoWatch, Remote, OneShot, OpenPc, Early, LaunchPc, AfterPc, FlowPc, EndPc
  <2>4. CASE Abort("setup") /\ UNCHANGED <<srv, wd>>
    BY <2>1, <2>2, <2>4 DEF ServerInv, Abort, Remote, Staged, OneShot, Early, LaunchPc, OpenPc, FlowPc, Alive
  <2> QED  BY <2>3, <2>4 DEF start_process
<1>4. IdInv'
  <2>1. UNCHANGED <<job, session>> /\ pc = "spawn"
    BY DEF start_process
  <2>2. CASE Launched
    BY <2>2, <2>1, NewClient DEF Launched, NoServer, IdInv
  <2>3. CASE Abort("setup") /\ UNCHANGED <<srv, client, chan>>
    BY <2>1, <2>3, JobFacts DEF CodexInv, Types, IdInv, Quiet, Abort, Staged, OpenPc, FlowPc, NanoPc, DeferPc
  <2> QED  BY <2>2, <2>3 DEF start_process
<1>5. QuietInv'
  <2>1. UNCHANGED <<job, session>> /\ pc = "spawn"
    BY DEF start_process
  <2>2. CASE Launched
    BY <2>2, <2>1, NewClient DEF Launched, NoServer, QuietInv
  <2>3. CASE Abort("setup") /\ UNCHANGED <<srv, client, chan>>
    BY <2>1, <2>3, JobFacts DEF CodexInv, Types, QuietInv, Quiet, Abort, Staged, OpenPc, FlowPc, NanoPc, DeferPc
  <2> QED  BY <2>2, <2>3 DEF start_process
<1>6. FlowInv'
  BY JobFacts DEF CodexInv, Types, PlaceInv, FlowInv, Remote, Staged, Clients, Servers, Watches, Homes, Disks, Lefts, Pc, LaunchPc, OpenPc, FlowPc, NanoPc, LocalPc, RemotePc, AfterPc, EndPc, proposerVars, start_process, Launched, NeverReady, Abort, Fault, NoServer, NoClient, NoWatch, OneShot
<1>7. DiskInv'
  BY JobFacts DEF CodexInv, Types, PlaceInv, ServerInv, Early, QuietInv, Quiet, FlowInv, DiskInv, Remote, Staged, Clients, Servers, Watches, Homes, Disks, Lefts, Pc, LaunchPc, OpenPc, FlowPc, NanoPc, LocalPc, RemotePc, AfterPc, EndPc, proposerVars, start_process, Launched, NeverReady, Abort, Fault, NoServer, NoClient, NoWatch, OneShot
<1>8. HomeInv'
  BY JobFacts DEF CodexInv, Types, PlaceInv, ServerInv, Early, QuietInv, Quiet, HomeInv, Remote, Staged, Clients, Servers, Watches, Homes, Disks, Lefts, Pc, LaunchPc, OpenPc, FlowPc, NanoPc, LocalPc, RemotePc, AfterPc, EndPc, proposerVars, start_process, Launched, NeverReady, Abort, Fault, NoServer, NoClient, NoWatch, OneShot
<1>9. LeftInv'
  BY DEF CodexInv, Types, start_process, Launched, Abort, Lefts, LeftInv, Remote, Staged, AfterPc
<1>10. ShownInv'
  BY DEF CodexInv, ShownInv, Pc, LaunchPc, OpenPc, FlowPc, NanoPc, LocalPc, RemotePc, AfterPc, EndPc, proposerVars, start_process, Launched, NeverReady, Abort, Fault, NoServer, NoClient, NoWatch, OneShot, Staged, Remote
<1> QED  BY <1>1, <1>2, <1>3, <1>4, <1>5, <1>6, <1>7, <1>8, <1>9, <1>10 DEF CodexInv

LEMMA Provision_Keeps ==
    ASSUME CodexInv, Provision, UNCHANGED proposerVars
    PROVE  CodexInv'
<1>1. Types'
  <2>1. pc' \in Pc
    BY JobFacts DEF CodexInv, Types, PlaceInv, Remote, Staged, Pc, LaunchPc, OpenPc, FlowPc, NanoPc, LocalPc, RemotePc, AfterPc, EndPc, Provision, Launched, upload_workspace, create_sandbox, Abort, Fault, NoServer, NoClient, NoWatch, OneShot
  <2>2. srv' \in Servers
    BY EmptyFacts, TailFacts, NewTyped DEF CodexInv, Types, Servers, Provision, Launched, upload_workspace, create_sandbox, Abort, Fault, OneShot, Staged, Remote
  <2>3. client' \in Clients(turns)
    BY EmptyFacts, NewTyped DEF CodexInv, Types, Clients, Provision, Launched, upload_workspace, create_sandbox, Abort, Fault, OneShot, Staged, Remote
  <2>4. chan' \in Seq(Message)
    BY EmptyFacts, AppendFacts, TailFacts DEF CodexInv, Types, Servers, Provision, Launched, upload_workspace, create_sandbox, Abort, Fault, NoServer, NoClient, NoWatch, OneShot, Staged, Remote
  <2>5. wd' \in Watches
    BY AgentTurnAssumption, NewTyped DEF CodexInv, Types, Watches, Provision, Launched, upload_workspace, create_sandbox, Abort, Fault, OneShot, Staged, Remote
  <2>6. left' \in Lefts
    BY AgentTurnAssumption DEF CodexInv, Types, Lefts, Provision, Launched, upload_workspace, create_sandbox, Abort, Fault, NoServer, NoClient, NoWatch, OneShot, Staged, Remote
  <2>7. disk' \in Disks(turns)
    BY AgentTurnAssumption DEF CodexInv, Types, Disks, Provision, Launched, upload_workspace, create_sandbox, Abort, Fault, NoServer, NoClient, NoWatch, OneShot, Staged, Remote
  <2>8. faults' \in 0..MaxFaults
    BY AgentTurnAssumption DEF CodexInv, Types, Provision, Launched, upload_workspace, create_sandbox, Abort, Fault, NoServer, NoClient, NoWatch, OneShot, Staged, Remote
  <2> QED  BY <2>1, <2>2, <2>3, <2>4, <2>5, <2>6, <2>7, <2>8 DEF CodexInv, Types, proposerVars, Provision, Launched, upload_workspace, create_sandbox, Abort, Fault, NoServer, NoClient, NoWatch, OneShot, Staged, Remote
<1>2. PlaceInv'
  BY JobFacts DEF CodexInv, Types, PlaceInv, Remote, Staged, Starting, Clients, Servers, Watches, Homes, Disks, Lefts, Pc, LaunchPc, OpenPc, FlowPc, NanoPc, LocalPc, RemotePc, AfterPc, EndPc, proposerVars, Provision, Launched, upload_workspace, create_sandbox, Abort, Fault, NoServer, NoClient, NoWatch, OneShot
<1>3. ServerInv'
  <2>1. /\ UNCHANGED job /\ pc = "provision" /\ Remote /\ left \in Lefts
    BY DEF CodexInv, Types, PlaceInv, Provision
  <2>2. ~Alive /\ result = "none" /\ wd.at = "gone"
    BY <2>1 DEF CodexInv, ServerInv, Early, LaunchPc
  <2>3. CASE Launched
    BY <2>1, <2>2, <2>3 DEF ServerInv, Launched, NoWatch, Remote, OneShot, OpenPc, Early, LaunchPc, AfterPc, FlowPc, EndPc
  <2>4. CASE Abort("setup") /\ UNCHANGED <<srv, wd>>
    BY <2>1, <2>2, <2>4 DEF ServerInv, Abort, Remote, Staged, OneShot, Early, LaunchPc, OpenPc, FlowPc, Alive
  <2> QED  BY <2>3, <2>4 DEF Provision
<1>4. IdInv'
  <2>1. UNCHANGED <<job, session>> /\ pc = "provision"
    BY DEF Provision
  <2>2. CASE Launched
    BY <2>2, <2>1, NewClient DEF Launched, NoServer, IdInv
  <2>3. CASE Abort("setup") /\ UNCHANGED <<srv, client, chan>>
    BY <2>1, <2>3, JobFacts DEF CodexInv, Types, IdInv, Quiet, Abort, Staged, OpenPc, FlowPc, NanoPc, DeferPc
  <2> QED  BY <2>2, <2>3 DEF Provision
<1>5. QuietInv'
  <2>1. UNCHANGED <<job, session>> /\ pc = "provision"
    BY DEF Provision
  <2>2. CASE Launched
    BY <2>2, <2>1, NewClient DEF Launched, NoServer, QuietInv
  <2>3. CASE Abort("setup") /\ UNCHANGED <<srv, client, chan>>
    BY <2>1, <2>3, JobFacts DEF CodexInv, Types, QuietInv, Quiet, Abort, Staged, OpenPc, FlowPc, NanoPc, DeferPc
  <2> QED  BY <2>2, <2>3 DEF Provision
<1>6. FlowInv'
  BY JobFacts DEF CodexInv, Types, PlaceInv, FlowInv, Remote, Staged, Clients, Servers, Watches, Homes, Disks, Lefts, Pc, LaunchPc, OpenPc, FlowPc, NanoPc, LocalPc, RemotePc, AfterPc, EndPc, proposerVars, Provision, Launched, upload_workspace, create_sandbox, Abort, Fault, NoServer, NoClient, NoWatch, OneShot
<1>7. DiskInv'
  BY JobFacts DEF CodexInv, Types, PlaceInv, ServerInv, Early, QuietInv, Quiet, FlowInv, DiskInv, Remote, Staged, Clients, Servers, Watches, Homes, Disks, Lefts, Pc, LaunchPc, OpenPc, FlowPc, NanoPc, LocalPc, RemotePc, AfterPc, EndPc, proposerVars, Provision, Launched, upload_workspace, create_sandbox, Abort, Fault, NoServer, NoClient, NoWatch, OneShot
<1>8. HomeInv'
  BY JobFacts DEF CodexInv, Types, PlaceInv, ServerInv, Early, QuietInv, Quiet, HomeInv, Remote, Staged, Clients, Servers, Watches, Homes, Disks, Lefts, Pc, LaunchPc, OpenPc, FlowPc, NanoPc, LocalPc, RemotePc, AfterPc, EndPc, proposerVars, Provision, Launched, upload_workspace, create_sandbox, Abort, Fault, NoServer, NoClient, NoWatch, OneShot
<1>9. LeftInv'
  BY JobFacts DEF CodexInv, Types, PlaceInv, ServerInv, Early, QuietInv, Quiet, LeftInv, Remote, Staged, Clients, Servers, Watches, Homes, Disks, Lefts, Pc, LaunchPc, OpenPc, FlowPc, NanoPc, LocalPc, RemotePc, AfterPc, EndPc, proposerVars, Provision, Launched, upload_workspace, create_sandbox, Abort, Fault, NoServer, NoClient, NoWatch, OneShot
<1>10. ShownInv'
  BY DEF CodexInv, ShownInv, Pc, LaunchPc, OpenPc, FlowPc, NanoPc, LocalPc, RemotePc, AfterPc, EndPc, proposerVars, Provision, Launched, upload_workspace, create_sandbox, Abort, Fault, NoServer, NoClient, NoWatch, OneShot, Staged, Remote
<1> QED  BY <1>1, <1>2, <1>3, <1>4, <1>5, <1>6, <1>7, <1>8, <1>9, <1>10 DEF CodexInv

-----------------------------------------------------------------------------
(* The watchdog.                                                            *)
LEMMA DeadlinePasses_Keeps ==
    ASSUME CodexInv, DeadlinePasses, UNCHANGED proposerVars
    PROVE  CodexInv'
<1>1. Types'
  <2>1. pc' \in Pc
    BY JobFacts DEF CodexInv, Types, PlaceInv, Remote, Staged, Pc, LaunchPc, OpenPc, FlowPc, NanoPc, LocalPc, RemotePc, AfterPc, EndPc, DeadlinePasses
  <2>2. wd' \in Watches
    BY AgentTurnAssumption, NewTyped DEF CodexInv, Types, Watches, DeadlinePasses
  <2>3. faults' \in 0..MaxFaults
    BY AgentTurnAssumption DEF CodexInv, Types, DeadlinePasses
  <2> QED  BY <2>1, <2>2, <2>3 DEF CodexInv, Types, proposerVars, DeadlinePasses
<1>2. PlaceInv'
  BY JobFacts DEF CodexInv, Types, PlaceInv, Remote, Staged, Starting, Clients, Servers, Watches, Homes, Disks, Lefts, Pc, LaunchPc, OpenPc, FlowPc, NanoPc, LocalPc, RemotePc, AfterPc, EndPc, proposerVars, DeadlinePasses
<1>3. ServerInv'
  BY JobFacts DEF CodexInv, Types, PlaceInv, ServerInv, Early, Remote, Staged, Alive, OneShot, Clients, Servers, Watches, Homes, Disks, Lefts, Pc, LaunchPc, OpenPc, FlowPc, NanoPc, LocalPc, RemotePc, AfterPc, EndPc, proposerVars, DeadlinePasses
<1>4. IdInv'
  BY EmptyFacts, AppendFacts, TailFacts DEF CodexInv, Types, IdInv, Clients, Servers, Watches, Homes, Disks, Lefts, Pc, LaunchPc, OpenPc, FlowPc, NanoPc, LocalPc, RemotePc, AfterPc, EndPc, proposerVars, DeadlinePasses
<1>5. QuietInv'
  BY JobFacts, EmptyFacts, AppendFacts, TailFacts DEF CodexInv, Types, PlaceInv, ServerInv, Early, QuietInv, Quiet, DeferPc, Remote, Staged, Clients, Servers, Watches, Homes, Disks, Lefts, Pc, LaunchPc, OpenPc, FlowPc, NanoPc, LocalPc, RemotePc, AfterPc, EndPc, proposerVars, DeadlinePasses
<1>6. FlowInv'
  BY JobFacts DEF CodexInv, Types, PlaceInv, FlowInv, Remote, Staged, Clients, Servers, Watches, Homes, Disks, Lefts, Pc, LaunchPc, OpenPc, FlowPc, NanoPc, LocalPc, RemotePc, AfterPc, EndPc, proposerVars, DeadlinePasses
<1>7. DiskInv'
  BY JobFacts DEF CodexInv, Types, PlaceInv, ServerInv, Early, QuietInv, Quiet, FlowInv, DiskInv, Remote, Staged, Clients, Servers, Watches, Homes, Disks, Lefts, Pc, LaunchPc, OpenPc, FlowPc, NanoPc, LocalPc, RemotePc, AfterPc, EndPc, proposerVars, DeadlinePasses
<1>8. HomeInv'
  BY JobFacts DEF CodexInv, Types, PlaceInv, ServerInv, Early, QuietInv, Quiet, HomeInv, Remote, Staged, Clients, Servers, Watches, Homes, Disks, Lefts, Pc, LaunchPc, OpenPc, FlowPc, NanoPc, LocalPc, RemotePc, AfterPc, EndPc, proposerVars, DeadlinePasses
<1>9. LeftInv'
  BY JobFacts DEF CodexInv, Types, PlaceInv, ServerInv, Early, QuietInv, Quiet, LeftInv, Remote, Staged, Clients, Servers, Watches, Homes, Disks, Lefts, Pc, LaunchPc, OpenPc, FlowPc, NanoPc, LocalPc, RemotePc, AfterPc, EndPc, proposerVars, DeadlinePasses
<1>10. ShownInv'
  BY DEF CodexInv, ShownInv, Pc, LaunchPc, OpenPc, FlowPc, NanoPc, LocalPc, RemotePc, AfterPc, EndPc, proposerVars, DeadlinePasses
<1> QED  BY <1>1, <1>2, <1>3, <1>4, <1>5, <1>6, <1>7, <1>8, <1>9, <1>10 DEF CodexInv

LEMMA WatchdogStep_Keeps ==
    ASSUME CodexInv, WatchdogStep, UNCHANGED proposerVars
    PROVE  CodexInv'
<1>1. Types'
  <2>1. pc' \in Pc
    BY JobFacts DEF CodexInv, Types, PlaceInv, Remote, Staged, Pc, LaunchPc, OpenPc, FlowPc, NanoPc, LocalPc, RemotePc, AfterPc, EndPc, WatchdogStep, Alive, NoServer
  <2>2. wd' \in Watches
    BY AgentTurnAssumption, NewTyped DEF CodexInv, Types, Watches, WatchdogStep, Alive
  <2>3. srv' \in Servers
    BY EmptyFacts, TailFacts, NewTyped DEF CodexInv, Types, Servers, WatchdogStep, Alive
  <2> QED  BY <2>1, <2>2, <2>3 DEF CodexInv, Types, proposerVars, WatchdogStep, Alive, NoServer
<1>2. PlaceInv'
  BY JobFacts DEF CodexInv, Types, PlaceInv, Remote, Staged, Starting, Clients, Servers, Watches, Homes, Disks, Lefts, Pc, LaunchPc, OpenPc, FlowPc, NanoPc, LocalPc, RemotePc, AfterPc, EndPc, proposerVars, WatchdogStep, Alive, NoServer
<1>3. ServerInv'
  BY DEF CodexInv, Types, WatchdogStep, Watches, Alive, NoServer, Servers, ServerInv, Remote,
     OneShot
<1>4. IdInv'
  <2>1. UNCHANGED <<job, pc, client, chan, session, result, turns, own, got, seen>>
    BY DEF WatchdogStep
  <2>2. CASE UNCHANGED srv
    BY <2>1, <2>2 DEF CodexInv, IdInv, Quiet, Remote
  <2>3. CASE srv' = [NoServer EXCEPT !.proc = "dead"]
    BY <2>3, <2>1, ServerGone DEF NoServer, CodexInv, IdInv, Remote
  <2> QED  BY <2>2, <2>3 DEF WatchdogStep
<1>5. QuietInv'
  <2>1. UNCHANGED <<job, pc, client, chan, session, result, turns, own, got, seen>>
    BY DEF WatchdogStep
  <2>2. CASE UNCHANGED srv
    BY <2>1, <2>2 DEF CodexInv, QuietInv, Quiet, Remote
  <2>3. CASE srv' = [NoServer EXCEPT !.proc = "dead"]
    BY <2>3, <2>1, ServerGone DEF NoServer, CodexInv, QuietInv, Remote
  <2> QED  BY <2>2, <2>3 DEF WatchdogStep
<1>6. FlowInv'
  <2>1. UNCHANGED <<job, pc, client, chan, session, result, turns, own, got, seen>>
    BY DEF WatchdogStep
  <2>2. CASE UNCHANGED srv
    BY <2>1, <2>2 DEF CodexInv, FlowInv, Quiet, Remote
  <2>3. CASE srv' = [NoServer EXCEPT !.proc = "dead"]
    BY <2>3, <2>1, ServerGone DEF NoServer, CodexInv, FlowInv, Remote
  <2> QED  BY <2>2, <2>3 DEF WatchdogStep
<1>7. DiskInv'
  BY JobFacts DEF CodexInv, Types, PlaceInv, ServerInv, Early, QuietInv, Quiet, FlowInv, DiskInv, Remote, Staged, Clients, Servers, Watches, Homes, Disks, Lefts, Pc, LaunchPc, OpenPc, FlowPc, NanoPc, LocalPc, RemotePc, AfterPc, EndPc, proposerVars, WatchdogStep, Alive, NoServer
<1>8. HomeInv'
  BY JobFacts DEF CodexInv, Types, PlaceInv, ServerInv, Early, QuietInv, Quiet, HomeInv, Remote, Staged, Clients, Servers, Watches, Homes, Disks, Lefts, Pc, LaunchPc, OpenPc, FlowPc, NanoPc, LocalPc, RemotePc, AfterPc, EndPc, proposerVars, WatchdogStep, Alive, NoServer
<1>9. LeftInv'
  BY JobFacts DEF CodexInv, Types, PlaceInv, ServerInv, Early, QuietInv, Quiet, LeftInv, Remote, Staged, Clients, Servers, Watches, Homes, Disks, Lefts, Pc, LaunchPc, OpenPc, FlowPc, NanoPc, LocalPc, RemotePc, AfterPc, EndPc, proposerVars, WatchdogStep, Alive, NoServer
<1>10. ShownInv'
  BY DEF CodexInv, ShownInv, Pc, LaunchPc, OpenPc, FlowPc, NanoPc, LocalPc, RemotePc, AfterPc, EndPc, proposerVars, WatchdogStep, Alive, NoServer
<1> QED  BY <1>1, <1>2, <1>3, <1>4, <1>5, <1>6, <1>7, <1>8, <1>9, <1>10 DEF CodexInv

-----------------------------------------------------------------------------
(* The end of a one-shot turn.                                              *)
LEMMA persist_refreshed_auth_home_Keeps ==
    ASSUME CodexInv, persist_refreshed_auth_home, UNCHANGED proposerVars
    PROVE  CodexInv'
<1>1. Types'
  <2>1. pc' \in Pc
    BY JobFacts DEF CodexInv, Types, PlaceInv, Remote, Staged, Pc, LaunchPc, OpenPc, FlowPc, NanoPc, LocalPc, RemotePc, AfterPc, EndPc, persist_refreshed_auth_home, PersistTo, Persisted, Refused, Fault, Missing, Invalid
  <2>2. home' \in Homes(turns)
    BY AgentTurnAssumption DEF CodexInv, Types, Homes, persist_refreshed_auth_home, PersistTo, Persisted, Refused, Fault, Missing, Invalid
  <2>3. faults' \in 0..MaxFaults
    BY AgentTurnAssumption DEF CodexInv, Types, persist_refreshed_auth_home, PersistTo, Persisted, Refused, Fault, Missing, Invalid
  <2> QED  BY <2>1, <2>2, <2>3 DEF CodexInv, Types, proposerVars, persist_refreshed_auth_home, PersistTo, Persisted, Refused, Fault, Missing, Invalid
<1>2. PlaceInv'
  BY JobFacts DEF CodexInv, Types, PlaceInv, Remote, Staged, Starting, Clients, Servers, Watches, Homes, Disks, Lefts, Pc, LaunchPc, OpenPc, FlowPc, NanoPc, LocalPc, RemotePc, AfterPc, EndPc, proposerVars, persist_refreshed_auth_home, PersistTo, Persisted, Refused, Fault, Missing, Invalid
<1>3. ServerInv'
  BY JobFacts DEF CodexInv, Types, PlaceInv, ServerInv, Early, Remote, Staged, Alive, OneShot, Clients, Servers, Watches, Homes, Disks, Lefts, Pc, LaunchPc, OpenPc, FlowPc, NanoPc, LocalPc, RemotePc, AfterPc, EndPc, proposerVars, persist_refreshed_auth_home, PersistTo, Persisted, Refused, Fault, Missing, Invalid
<1>4. IdInv'
  BY EmptyFacts, AppendFacts, TailFacts DEF CodexInv, Types, IdInv, Clients, Servers, Watches, Homes, Disks, Lefts, Pc, LaunchPc, OpenPc, FlowPc, NanoPc, LocalPc, RemotePc, AfterPc, EndPc, proposerVars, persist_refreshed_auth_home, PersistTo, Persisted, Refused, Fault, Missing, Invalid
<1>5. QuietInv'
  BY JobFacts, EmptyFacts, AppendFacts, TailFacts DEF CodexInv, Types, PlaceInv, ServerInv, Early, QuietInv, Quiet, DeferPc, Remote, Staged, Clients, Servers, Watches, Homes, Disks, Lefts, Pc, LaunchPc, OpenPc, FlowPc, NanoPc, LocalPc, RemotePc, AfterPc, EndPc, proposerVars, persist_refreshed_auth_home, PersistTo, Persisted, Refused, Fault, Missing, Invalid
<1>6. FlowInv'
  BY JobFacts DEF CodexInv, Types, PlaceInv, FlowInv, Remote, Staged, Clients, Servers, Watches, Homes, Disks, Lefts, Pc, LaunchPc, OpenPc, FlowPc, NanoPc, LocalPc, RemotePc, AfterPc, EndPc, proposerVars, persist_refreshed_auth_home, PersistTo, Persisted, Refused, Fault, Missing, Invalid
<1>7. DiskInv'
  BY JobFacts DEF CodexInv, Types, PlaceInv, ServerInv, Early, QuietInv, Quiet, FlowInv, DiskInv, Remote, Staged, Clients, Servers, Watches, Homes, Disks, Lefts, Pc, LaunchPc, OpenPc, FlowPc, NanoPc, LocalPc, RemotePc, AfterPc, EndPc, proposerVars, persist_refreshed_auth_home, PersistTo, Persisted, Refused, Fault, Missing, Invalid
<1>8. HomeInv'
  <2>1. UNCHANGED job /\ pc' = "terminate" /\ home \in Homes(turns) /\ turns \in Nat
    BY DEF CodexInv, Types, persist_refreshed_auth_home, PersistTo
  <2>2. SUFFICES ASSUME job.auth = "chatgpt", job.call \in {"turn", "exec"}, result' = "ok"
                 PROVE  home'.source = home'.latest
    BY <2>1 DEF HomeInv, OpenPc, FlowPc
  <2>3. home.staged = home.latest
    BY <2>2 DEF CodexInv, HomeInv, persist_refreshed_auth_home
  <2>4. home' = [home EXCEPT !.source = Persisted] /\ ~Refused
    BY <2>2 DEF persist_refreshed_auth_home, PersistTo
  <2>5. Persisted = home.latest
    BY <2>1, <2>2, <2>3, <2>4 DEF Persisted, Refused, Homes, Missing, Invalid
  <2> QED  BY <2>1, <2>4, <2>5 DEF Homes
<1>9. LeftInv'
  BY JobFacts DEF CodexInv, Types, PlaceInv, ServerInv, Early, QuietInv, Quiet, LeftInv, Remote, Staged, Clients, Servers, Watches, Homes, Disks, Lefts, Pc, LaunchPc, OpenPc, FlowPc, NanoPc, LocalPc, RemotePc, AfterPc, EndPc, proposerVars, persist_refreshed_auth_home, PersistTo, Persisted, Refused, Fault, Missing, Invalid
<1>10. ShownInv'
  BY DEF CodexInv, ShownInv, Pc, LaunchPc, OpenPc, FlowPc, NanoPc, LocalPc, RemotePc, AfterPc, EndPc, proposerVars, persist_refreshed_auth_home, PersistTo, Persisted, Refused, Fault, Missing, Invalid
<1> QED  BY <1>1, <1>2, <1>3, <1>4, <1>5, <1>6, <1>7, <1>8, <1>9, <1>10 DEF CodexInv

LEMMA terminate_Keeps ==
    ASSUME CodexInv, terminate, UNCHANGED proposerVars
    PROVE  CodexInv'
<1>1. Types'
  <2>1. pc' \in Pc
    BY JobFacts DEF CodexInv, Types, PlaceInv, Remote, Staged, Pc, LaunchPc, OpenPc, FlowPc, NanoPc, LocalPc, RemotePc, AfterPc, EndPc, terminate, NoServer, Fault, Missing
  <2>2. srv' \in Servers
    BY EmptyFacts, TailFacts, NewTyped DEF CodexInv, Types, Servers, terminate, Fault, Missing
  <2>3. home' \in Homes(turns)
    BY AgentTurnAssumption DEF CodexInv, Types, Homes, terminate, NoServer, Fault, Missing
  <2>4. left' \in Lefts
    BY AgentTurnAssumption DEF CodexInv, Types, Lefts, terminate, NoServer, Fault, Missing
  <2>5. faults' \in 0..MaxFaults
    BY AgentTurnAssumption DEF CodexInv, Types, terminate, NoServer, Fault, Missing
  <2> QED  BY <2>1, <2>2, <2>3, <2>4, <2>5 DEF CodexInv, Types, proposerVars, terminate, NoServer, Fault, Missing
<1>2. PlaceInv'
  BY JobFacts DEF CodexInv, Types, PlaceInv, Remote, Staged, Starting, Clients, Servers, Watches, Homes, Disks, Lefts, Pc, LaunchPc, OpenPc, FlowPc, NanoPc, LocalPc, RemotePc, AfterPc, EndPc, proposerVars, terminate, NoServer, Fault, Missing
<1>3. ServerInv'
  BY JobFacts DEF CodexInv, Types, PlaceInv, ServerInv, Early, Remote, Staged, Alive, OneShot, Clients, Servers, Watches, Homes, Disks, Lefts, Pc, LaunchPc, OpenPc, FlowPc, NanoPc, LocalPc, RemotePc, AfterPc, EndPc, proposerVars, terminate, NoServer, Fault, Missing
<1>4. IdInv'
  BY EmptyFacts, AppendFacts, TailFacts DEF CodexInv, Types, IdInv, Clients, Servers, Watches, Homes, Disks, Lefts, Pc, LaunchPc, OpenPc, FlowPc, NanoPc, LocalPc, RemotePc, AfterPc, EndPc, proposerVars, terminate, NoServer, Fault, Missing
<1>5. QuietInv'
  BY ServerGone DEF terminate, NoServer, CodexInv, QuietInv, OpenPc, FlowPc, NanoPc, DeferPc
<1>6. FlowInv'
  BY JobFacts DEF CodexInv, Types, PlaceInv, FlowInv, Remote, Staged, Clients, Servers, Watches, Homes, Disks, Lefts, Pc, LaunchPc, OpenPc, FlowPc, NanoPc, LocalPc, RemotePc, AfterPc, EndPc, proposerVars, terminate, NoServer, Fault, Missing
<1>7. DiskInv'
  BY JobFacts DEF CodexInv, Types, PlaceInv, ServerInv, Early, QuietInv, Quiet, FlowInv, DiskInv, Remote, Staged, Clients, Servers, Watches, Homes, Disks, Lefts, Pc, LaunchPc, OpenPc, FlowPc, NanoPc, LocalPc, RemotePc, AfterPc, EndPc, proposerVars, terminate, NoServer, Fault, Missing
<1>8. HomeInv'
  BY JobFacts DEF CodexInv, Types, PlaceInv, ServerInv, Early, QuietInv, Quiet, HomeInv, Remote, Staged, Clients, Servers, Watches, Homes, Disks, Lefts, Pc, LaunchPc, OpenPc, FlowPc, NanoPc, LocalPc, RemotePc, AfterPc, EndPc, proposerVars, terminate, NoServer, Fault, Missing
<1>9. LeftInv'
  BY DEF CodexInv, Types, LeftInv, Remote, Staged, Homes, Lefts, AfterPc, terminate
<1>10. ShownInv'
  BY DEF CodexInv, ShownInv, Pc, LaunchPc, OpenPc, FlowPc, NanoPc, LocalPc, RemotePc, AfterPc, EndPc, proposerVars, terminate, NoServer, Fault, Missing
<1> QED  BY <1>1, <1>2, <1>3, <1>4, <1>5, <1>6, <1>7, <1>8, <1>9, <1>10 DEF CodexInv

LEMMA JoinWatchdog_Keeps ==
    ASSUME CodexInv, JoinWatchdog, UNCHANGED proposerVars
    PROVE  CodexInv'
<1>1. Types'
  <2>1. pc' \in Pc
    BY JobFacts DEF CodexInv, Types, PlaceInv, Remote, Staged, Pc, LaunchPc, OpenPc, FlowPc, NanoPc, LocalPc, RemotePc, AfterPc, EndPc, JoinWatchdog
  <2>2. wd' \in Watches
    BY AgentTurnAssumption, NewTyped DEF CodexInv, Types, Watches, JoinWatchdog, Staged
  <2> QED  BY <2>1, <2>2 DEF CodexInv, Types, proposerVars, JoinWatchdog, Staged
<1>2. PlaceInv'
  BY JobFacts DEF CodexInv, Types, PlaceInv, Remote, Staged, Starting, Clients, Servers, Watches, Homes, Disks, Lefts, Pc, LaunchPc, OpenPc, FlowPc, NanoPc, LocalPc, RemotePc, AfterPc, EndPc, proposerVars, JoinWatchdog
<1>3. ServerInv'
  BY JobFacts DEF CodexInv, Types, PlaceInv, ServerInv, Early, Remote, Staged, Alive, OneShot, Clients, Servers, Watches, Homes, Disks, Lefts, Pc, LaunchPc, OpenPc, FlowPc, NanoPc, LocalPc, RemotePc, AfterPc, EndPc, proposerVars, JoinWatchdog
<1>4. IdInv'
  BY EmptyFacts, AppendFacts, TailFacts DEF CodexInv, Types, IdInv, Clients, Servers, Watches, Homes, Disks, Lefts, Pc, LaunchPc, OpenPc, FlowPc, NanoPc, LocalPc, RemotePc, AfterPc, EndPc, proposerVars, JoinWatchdog, Staged
<1>5. QuietInv'
  BY JobFacts, EmptyFacts, AppendFacts, TailFacts DEF CodexInv, Types, PlaceInv, ServerInv, Early, QuietInv, Quiet, DeferPc, Remote, Staged, Clients, Servers, Watches, Homes, Disks, Lefts, Pc, LaunchPc, OpenPc, FlowPc, NanoPc, LocalPc, RemotePc, AfterPc, EndPc, proposerVars, JoinWatchdog
<1>6. FlowInv'
  BY JobFacts DEF CodexInv, Types, PlaceInv, FlowInv, Remote, Staged, Clients, Servers, Watches, Homes, Disks, Lefts, Pc, LaunchPc, OpenPc, FlowPc, NanoPc, LocalPc, RemotePc, AfterPc, EndPc, proposerVars, JoinWatchdog
<1>7. DiskInv'
  BY JobFacts DEF CodexInv, Types, PlaceInv, ServerInv, Early, QuietInv, Quiet, FlowInv, DiskInv, Remote, Staged, Clients, Servers, Watches, Homes, Disks, Lefts, Pc, LaunchPc, OpenPc, FlowPc, NanoPc, LocalPc, RemotePc, AfterPc, EndPc, proposerVars, JoinWatchdog
<1>8. HomeInv'
  BY JobFacts DEF CodexInv, Types, PlaceInv, ServerInv, Early, QuietInv, Quiet, HomeInv, Remote, Staged, Clients, Servers, Watches, Homes, Disks, Lefts, Pc, LaunchPc, OpenPc, FlowPc, NanoPc, LocalPc, RemotePc, AfterPc, EndPc, proposerVars, JoinWatchdog
<1>9. LeftInv'
  BY JobFacts DEF CodexInv, Types, PlaceInv, ServerInv, Early, QuietInv, Quiet, LeftInv, Remote, Staged, Clients, Servers, Watches, Homes, Disks, Lefts, Pc, LaunchPc, OpenPc, FlowPc, NanoPc, LocalPc, RemotePc, AfterPc, EndPc, proposerVars, JoinWatchdog
<1>10. ShownInv'
  BY DEF CodexInv, ShownInv, Pc, LaunchPc, OpenPc, FlowPc, NanoPc, LocalPc, RemotePc, AfterPc, EndPc, proposerVars, JoinWatchdog, Staged
<1> QED  BY <1>1, <1>2, <1>3, <1>4, <1>5, <1>6, <1>7, <1>8, <1>9, <1>10 DEF CodexInv

LEMMA sync_refreshed_codex_auth_Keeps ==
    ASSUME CodexInv, sync_refreshed_codex_auth, UNCHANGED proposerVars
    PROVE  CodexInv'
<1>1. Types'
  <2>1. pc' \in Pc
    BY JobFacts DEF CodexInv, Types, PlaceInv, Remote, Staged, Pc, LaunchPc, OpenPc, FlowPc, NanoPc, LocalPc, RemotePc, AfterPc, EndPc, sync_refreshed_codex_auth, PersistTo, Persisted, Refused, Fault, Missing, Invalid
  <2>2. home' \in Homes(turns)
    BY AgentTurnAssumption DEF CodexInv, Types, Homes, sync_refreshed_codex_auth, PersistTo, Persisted, Refused, Fault, Missing, Invalid
  <2>3. faults' \in 0..MaxFaults
    BY AgentTurnAssumption DEF CodexInv, Types, sync_refreshed_codex_auth, PersistTo, Persisted, Refused, Fault, Missing, Invalid
  <2> QED  BY <2>1, <2>2, <2>3 DEF CodexInv, Types, proposerVars, sync_refreshed_codex_auth, PersistTo, Persisted, Refused, Fault, Missing, Invalid
<1>2. PlaceInv'
  BY JobFacts DEF CodexInv, Types, PlaceInv, Remote, Staged, Starting, Clients, Servers, Watches, Homes, Disks, Lefts, Pc, LaunchPc, OpenPc, FlowPc, NanoPc, LocalPc, RemotePc, AfterPc, EndPc, proposerVars, sync_refreshed_codex_auth, PersistTo, Persisted, Refused, Fault, Missing, Invalid
<1>3. ServerInv'
  BY JobFacts DEF CodexInv, Types, PlaceInv, ServerInv, Early, Remote, Staged, Alive, OneShot, Clients, Servers, Watches, Homes, Disks, Lefts, Pc, LaunchPc, OpenPc, FlowPc, NanoPc, LocalPc, RemotePc, AfterPc, EndPc, proposerVars, sync_refreshed_codex_auth, PersistTo, Persisted, Refused, Fault, Missing, Invalid
<1>4. IdInv'
  BY EmptyFacts, AppendFacts, TailFacts DEF CodexInv, Types, IdInv, Clients, Servers, Watches, Homes, Disks, Lefts, Pc, LaunchPc, OpenPc, FlowPc, NanoPc, LocalPc, RemotePc, AfterPc, EndPc, proposerVars, sync_refreshed_codex_auth, PersistTo, Persisted, Refused, Fault, Missing, Invalid
<1>5. QuietInv'
  BY JobFacts, EmptyFacts, AppendFacts, TailFacts DEF CodexInv, Types, PlaceInv, ServerInv, Early, QuietInv, Quiet, DeferPc, Remote, Staged, Clients, Servers, Watches, Homes, Disks, Lefts, Pc, LaunchPc, OpenPc, FlowPc, NanoPc, LocalPc, RemotePc, AfterPc, EndPc, proposerVars, sync_refreshed_codex_auth, PersistTo, Persisted, Refused, Fault, Missing, Invalid
<1>6. FlowInv'
  BY JobFacts DEF CodexInv, Types, PlaceInv, FlowInv, Remote, Staged, Clients, Servers, Watches, Homes, Disks, Lefts, Pc, LaunchPc, OpenPc, FlowPc, NanoPc, LocalPc, RemotePc, AfterPc, EndPc, proposerVars, sync_refreshed_codex_auth, PersistTo, Persisted, Refused, Fault, Missing, Invalid
<1>7. DiskInv'
  BY JobFacts DEF CodexInv, Types, PlaceInv, ServerInv, Early, QuietInv, Quiet, FlowInv, DiskInv, Remote, Staged, Clients, Servers, Watches, Homes, Disks, Lefts, Pc, LaunchPc, OpenPc, FlowPc, NanoPc, LocalPc, RemotePc, AfterPc, EndPc, proposerVars, sync_refreshed_codex_auth, PersistTo, Persisted, Refused, Fault, Missing, Invalid
<1>8. HomeInv'
  <2>1. UNCHANGED job /\ pc' = "output_sync" /\ home \in Homes(turns) /\ turns \in Nat
    BY DEF CodexInv, Types, sync_refreshed_codex_auth, PersistTo
  <2>2. SUFFICES ASSUME job.auth = "chatgpt", job.call \in {"turn", "exec"}, result' = "ok"
                 PROVE  home'.source = home'.latest
    BY <2>1 DEF HomeInv, OpenPc, FlowPc
  <2>3. home.staged = home.latest
    BY <2>2 DEF CodexInv, HomeInv, sync_refreshed_codex_auth
  <2>4. home' = [home EXCEPT !.source = Persisted] /\ ~Refused
    BY <2>2 DEF sync_refreshed_codex_auth, PersistTo
  <2>5. Persisted = home.latest
    BY <2>1, <2>2, <2>3, <2>4 DEF Persisted, Refused, Homes, Missing, Invalid
  <2> QED  BY <2>1, <2>4, <2>5 DEF Homes
<1>9. LeftInv'
  BY JobFacts DEF CodexInv, Types, PlaceInv, ServerInv, Early, QuietInv, Quiet, LeftInv, Remote, Staged, Clients, Servers, Watches, Homes, Disks, Lefts, Pc, LaunchPc, OpenPc, FlowPc, NanoPc, LocalPc, RemotePc, AfterPc, EndPc, proposerVars, sync_refreshed_codex_auth, PersistTo, Persisted, Refused, Fault, Missing, Invalid
<1>10. ShownInv'
  BY DEF CodexInv, ShownInv, Pc, LaunchPc, OpenPc, FlowPc, NanoPc, LocalPc, RemotePc, AfterPc, EndPc, proposerVars, sync_refreshed_codex_auth, PersistTo, Persisted, Refused, Fault, Missing, Invalid
<1> QED  BY <1>1, <1>2, <1>3, <1>4, <1>5, <1>6, <1>7, <1>8, <1>9, <1>10 DEF CodexInv

LEMMA sync_output_files_Keeps ==
    ASSUME CodexInv, sync_output_files, UNCHANGED proposerVars
    PROVE  CodexInv'
<1>1. Types'
  <2>1. pc' \in Pc
    BY JobFacts DEF CodexInv, Types, PlaceInv, Remote, Staged, Pc, LaunchPc, OpenPc, FlowPc, NanoPc, LocalPc, RemotePc, AfterPc, EndPc, sync_output_files, Fault
  <2>2. disk' \in Disks(turns)
    BY AgentTurnAssumption DEF CodexInv, Types, Disks, sync_output_files, Fault
  <2>3. faults' \in 0..MaxFaults
    BY AgentTurnAssumption DEF CodexInv, Types, sync_output_files, Fault
  <2> QED  BY <2>1, <2>2, <2>3 DEF CodexInv, Types, proposerVars, sync_output_files, Fault
<1>2. PlaceInv'
  BY JobFacts DEF CodexInv, Types, PlaceInv, Remote, Staged, Starting, Clients, Servers, Watches, Homes, Disks, Lefts, Pc, LaunchPc, OpenPc, FlowPc, NanoPc, LocalPc, RemotePc, AfterPc, EndPc, proposerVars, sync_output_files, Fault
<1>3. ServerInv'
  BY JobFacts DEF CodexInv, Types, PlaceInv, ServerInv, Early, Remote, Staged, Alive, OneShot, Clients, Servers, Watches, Homes, Disks, Lefts, Pc, LaunchPc, OpenPc, FlowPc, NanoPc, LocalPc, RemotePc, AfterPc, EndPc, proposerVars, sync_output_files, Fault
<1>4. IdInv'
  BY EmptyFacts, AppendFacts, TailFacts DEF CodexInv, Types, IdInv, Clients, Servers, Watches, Homes, Disks, Lefts, Pc, LaunchPc, OpenPc, FlowPc, NanoPc, LocalPc, RemotePc, AfterPc, EndPc, proposerVars, sync_output_files, Fault
<1>5. QuietInv'
  BY JobFacts, EmptyFacts, AppendFacts, TailFacts DEF CodexInv, Types, PlaceInv, ServerInv, Early, QuietInv, Quiet, DeferPc, Remote, Staged, Clients, Servers, Watches, Homes, Disks, Lefts, Pc, LaunchPc, OpenPc, FlowPc, NanoPc, LocalPc, RemotePc, AfterPc, EndPc, proposerVars, sync_output_files, Fault
<1>6. FlowInv'
  BY JobFacts DEF CodexInv, Types, PlaceInv, FlowInv, Remote, Staged, Clients, Servers, Watches, Homes, Disks, Lefts, Pc, LaunchPc, OpenPc, FlowPc, NanoPc, LocalPc, RemotePc, AfterPc, EndPc, proposerVars, sync_output_files, Fault
<1>7. DiskInv'
  BY JobFacts DEF CodexInv, Types, PlaceInv, ServerInv, Early, QuietInv, Quiet, FlowInv, DiskInv, Remote, Staged, Clients, Servers, Watches, Homes, Disks, Lefts, Pc, LaunchPc, OpenPc, FlowPc, NanoPc, LocalPc, RemotePc, AfterPc, EndPc, proposerVars, sync_output_files, Fault
<1>8. HomeInv'
  BY JobFacts DEF CodexInv, Types, PlaceInv, ServerInv, Early, QuietInv, Quiet, HomeInv, Remote, Staged, Clients, Servers, Watches, Homes, Disks, Lefts, Pc, LaunchPc, OpenPc, FlowPc, NanoPc, LocalPc, RemotePc, AfterPc, EndPc, proposerVars, sync_output_files, Fault
<1>9. LeftInv'
  BY JobFacts DEF CodexInv, Types, PlaceInv, ServerInv, Early, QuietInv, Quiet, LeftInv, Remote, Staged, Clients, Servers, Watches, Homes, Disks, Lefts, Pc, LaunchPc, OpenPc, FlowPc, NanoPc, LocalPc, RemotePc, AfterPc, EndPc, proposerVars, sync_output_files, Fault
<1>10. ShownInv'
  BY DEF CodexInv, ShownInv, Pc, LaunchPc, OpenPc, FlowPc, NanoPc, LocalPc, RemotePc, AfterPc, EndPc, proposerVars, sync_output_files, Fault
<1> QED  BY <1>1, <1>2, <1>3, <1>4, <1>5, <1>6, <1>7, <1>8, <1>9, <1>10 DEF CodexInv

LEMMA CloseSandbox_Keeps ==
    ASSUME CodexInv, CloseSandbox, UNCHANGED proposerVars
    PROVE  CodexInv'
<1>1. Types'
  <2>1. pc' \in Pc
    BY JobFacts DEF CodexInv, Types, PlaceInv, Remote, Staged, Pc, LaunchPc, OpenPc, FlowPc, NanoPc, LocalPc, RemotePc, AfterPc, EndPc, CloseSandbox, NoServer, Fault
  <2>2. srv' \in Servers
    BY EmptyFacts, TailFacts, NewTyped DEF CodexInv, Types, Servers, CloseSandbox, Fault
  <2>3. left' \in Lefts
    BY AgentTurnAssumption DEF CodexInv, Types, Lefts, CloseSandbox, NoServer, Fault
  <2>4. faults' \in 0..MaxFaults
    BY AgentTurnAssumption DEF CodexInv, Types, CloseSandbox, NoServer, Fault
  <2> QED  BY <2>1, <2>2, <2>3, <2>4 DEF CodexInv, Types, proposerVars, CloseSandbox, NoServer, Fault
<1>2. PlaceInv'
  BY JobFacts DEF CodexInv, Types, PlaceInv, Remote, Staged, Starting, Clients, Servers, Watches, Homes, Disks, Lefts, Pc, LaunchPc, OpenPc, FlowPc, NanoPc, LocalPc, RemotePc, AfterPc, EndPc, proposerVars, CloseSandbox, NoServer, Fault
<1>3. ServerInv'
  BY JobFacts DEF CodexInv, Types, PlaceInv, ServerInv, Early, Remote, Staged, Alive, OneShot, Clients, Servers, Watches, Homes, Disks, Lefts, Pc, LaunchPc, OpenPc, FlowPc, NanoPc, LocalPc, RemotePc, AfterPc, EndPc, proposerVars, CloseSandbox, NoServer, Fault
<1>4. IdInv'
  <2>1. UNCHANGED <<job, client, chan, session, result>> /\ pc' = "sync" /\ job.call # "nano" /\ pc = "close"
    BY JobFacts DEF CodexInv, Types, PlaceInv, RemotePc, Remote, CloseSandbox
  <2>2. CASE UNCHANGED srv
    BY <2>1, <2>2 DEF CodexInv, IdInv, Quiet, OpenPc, FlowPc, NanoPc, DeferPc
  <2>3. CASE srv' = [NoServer EXCEPT !.proc = "dead"]
    BY <2>3, <2>1, ServerGone DEF NoServer, CodexInv, IdInv, OpenPc, FlowPc, NanoPc, DeferPc
  <2> QED  BY <2>2, <2>3 DEF CloseSandbox
<1>5. QuietInv'
  <2>1. UNCHANGED <<job, client, chan, session, result>> /\ pc' = "sync" /\ job.call # "nano" /\ pc = "close"
    BY JobFacts DEF CodexInv, Types, PlaceInv, RemotePc, Remote, CloseSandbox
  <2>2. CASE UNCHANGED srv
    BY <2>1, <2>2 DEF CodexInv, QuietInv, Quiet, OpenPc, FlowPc, NanoPc, DeferPc
  <2>3. CASE srv' = [NoServer EXCEPT !.proc = "dead"]
    BY <2>3, <2>1, ServerGone DEF NoServer, CodexInv, QuietInv, OpenPc, FlowPc, NanoPc, DeferPc
  <2> QED  BY <2>2, <2>3 DEF CloseSandbox
<1>6. FlowInv'
  BY JobFacts DEF CodexInv, Types, PlaceInv, FlowInv, Remote, Staged, Clients, Servers, Watches, Homes, Disks, Lefts, Pc, LaunchPc, OpenPc, FlowPc, NanoPc, LocalPc, RemotePc, AfterPc, EndPc, proposerVars, CloseSandbox, NoServer, Fault
<1>7. DiskInv'
  BY JobFacts DEF CodexInv, Types, PlaceInv, ServerInv, Early, QuietInv, Quiet, FlowInv, DiskInv, Remote, Staged, Clients, Servers, Watches, Homes, Disks, Lefts, Pc, LaunchPc, OpenPc, FlowPc, NanoPc, LocalPc, RemotePc, AfterPc, EndPc, proposerVars, CloseSandbox, NoServer, Fault
<1>8. HomeInv'
  BY JobFacts DEF CodexInv, Types, PlaceInv, ServerInv, Early, QuietInv, Quiet, HomeInv, Remote, Staged, Clients, Servers, Watches, Homes, Disks, Lefts, Pc, LaunchPc, OpenPc, FlowPc, NanoPc, LocalPc, RemotePc, AfterPc, EndPc, proposerVars, CloseSandbox, NoServer, Fault
<1>9. LeftInv'
  BY DEF CodexInv, Types, PlaceInv, RemotePc, CloseSandbox, Lefts, LeftInv, Remote, Staged
<1>10. ShownInv'
  BY DEF CodexInv, ShownInv, Pc, LaunchPc, OpenPc, FlowPc, NanoPc, LocalPc, RemotePc, AfterPc, EndPc, proposerVars, CloseSandbox, NoServer, Fault
<1> QED  BY <1>1, <1>2, <1>3, <1>4, <1>5, <1>6, <1>7, <1>8, <1>9, <1>10 DEF CodexInv

LEMMA sync_workspace_back_Keeps ==
    ASSUME CodexInv, sync_workspace_back, UNCHANGED proposerVars
    PROVE  CodexInv'
<1>1. Types'
  <2>1. pc' \in Pc
    BY JobFacts DEF CodexInv, Types, PlaceInv, Remote, Staged, Pc, LaunchPc, OpenPc, FlowPc, NanoPc, LocalPc, RemotePc, AfterPc, EndPc, sync_workspace_back, SyncsBack, DaytonaSyncsBack, Fault
  <2>2. disk' \in Disks(turns)
    BY AgentTurnAssumption DEF CodexInv, Types, Disks, sync_workspace_back, SyncsBack, DaytonaSyncsBack, Fault, Remote
  <2>3. faults' \in 0..MaxFaults
    BY AgentTurnAssumption DEF CodexInv, Types, sync_workspace_back, SyncsBack, DaytonaSyncsBack, Fault, Remote
  <2> QED  BY <2>1, <2>2, <2>3 DEF CodexInv, Types, proposerVars, sync_workspace_back, SyncsBack, DaytonaSyncsBack, Fault, Remote
<1>2. PlaceInv'
  BY JobFacts DEF CodexInv, Types, PlaceInv, Remote, Staged, Starting, Clients, Servers, Watches, Homes, Disks, Lefts, Pc, LaunchPc, OpenPc, FlowPc, NanoPc, LocalPc, RemotePc, AfterPc, EndPc, proposerVars, sync_workspace_back, SyncsBack, DaytonaSyncsBack, Fault
<1>3. ServerInv'
  BY JobFacts DEF CodexInv, Types, PlaceInv, ServerInv, Early, Remote, Staged, Alive, OneShot, Clients, Servers, Watches, Homes, Disks, Lefts, Pc, LaunchPc, OpenPc, FlowPc, NanoPc, LocalPc, RemotePc, AfterPc, EndPc, proposerVars, sync_workspace_back, SyncsBack, DaytonaSyncsBack, Fault
<1>4. IdInv'
  BY EmptyFacts, AppendFacts, TailFacts DEF CodexInv, Types, IdInv, Clients, Servers, Watches, Homes, Disks, Lefts, Pc, LaunchPc, OpenPc, FlowPc, NanoPc, LocalPc, RemotePc, AfterPc, EndPc, proposerVars, sync_workspace_back, SyncsBack, DaytonaSyncsBack, Fault, Remote
<1>5. QuietInv'
  BY JobFacts, EmptyFacts, AppendFacts, TailFacts DEF CodexInv, Types, PlaceInv, ServerInv, Early, QuietInv, Quiet, DeferPc, Remote, Staged, Clients, Servers, Watches, Homes, Disks, Lefts, Pc, LaunchPc, OpenPc, FlowPc, NanoPc, LocalPc, RemotePc, AfterPc, EndPc, proposerVars, sync_workspace_back, SyncsBack, DaytonaSyncsBack, Fault
<1>6. FlowInv'
  BY JobFacts DEF CodexInv, Types, PlaceInv, FlowInv, Remote, Staged, Clients, Servers, Watches, Homes, Disks, Lefts, Pc, LaunchPc, OpenPc, FlowPc, NanoPc, LocalPc, RemotePc, AfterPc, EndPc, proposerVars, sync_workspace_back, SyncsBack, DaytonaSyncsBack, Fault
<1>7. DiskInv'
  BY JobFacts DEF CodexInv, Types, PlaceInv, ServerInv, Early, QuietInv, Quiet, FlowInv, DiskInv, Remote, Staged, Clients, Servers, Watches, Homes, Disks, Lefts, Pc, LaunchPc, OpenPc, FlowPc, NanoPc, LocalPc, RemotePc, AfterPc, EndPc, proposerVars, sync_workspace_back, SyncsBack, DaytonaSyncsBack, Fault
<1>8. HomeInv'
  BY JobFacts DEF CodexInv, Types, PlaceInv, ServerInv, Early, QuietInv, Quiet, HomeInv, Remote, Staged, Clients, Servers, Watches, Homes, Disks, Lefts, Pc, LaunchPc, OpenPc, FlowPc, NanoPc, LocalPc, RemotePc, AfterPc, EndPc, proposerVars, sync_workspace_back, SyncsBack, DaytonaSyncsBack, Fault
<1>9. LeftInv'
  BY JobFacts DEF CodexInv, Types, PlaceInv, ServerInv, Early, QuietInv, Quiet, LeftInv, Remote, Staged, Clients, Servers, Watches, Homes, Disks, Lefts, Pc, LaunchPc, OpenPc, FlowPc, NanoPc, LocalPc, RemotePc, AfterPc, EndPc, proposerVars, sync_workspace_back, SyncsBack, DaytonaSyncsBack, Fault
<1>10. ShownInv'
  BY DEF CodexInv, ShownInv, Pc, LaunchPc, OpenPc, FlowPc, NanoPc, LocalPc, RemotePc, AfterPc, EndPc, proposerVars, sync_workspace_back, SyncsBack, DaytonaSyncsBack, Fault, Remote
<1> QED  BY <1>1, <1>2, <1>3, <1>4, <1>5, <1>6, <1>7, <1>8, <1>9, <1>10 DEF CodexInv

LEMMA cleanup_staged_workspace_Keeps ==
    ASSUME CodexInv, cleanup_staged_workspace, UNCHANGED proposerVars
    PROVE  CodexInv'
<1>1. Types'
  <2>1. pc' \in Pc
    BY JobFacts DEF CodexInv, Types, PlaceInv, Remote, Staged, Pc, LaunchPc, OpenPc, FlowPc, NanoPc, LocalPc, RemotePc, AfterPc, EndPc, cleanup_staged_workspace, Fault, Missing
  <2>2. left' \in Lefts
    BY AgentTurnAssumption DEF CodexInv, Types, Lefts, cleanup_staged_workspace, Fault, Missing
  <2>3. home' \in Homes(turns)
    BY AgentTurnAssumption DEF CodexInv, Types, Homes, cleanup_staged_workspace, Fault, Missing
  <2>4. faults' \in 0..MaxFaults
    BY AgentTurnAssumption DEF CodexInv, Types, cleanup_staged_workspace, Fault, Missing
  <2> QED  BY <2>1, <2>2, <2>3, <2>4 DEF CodexInv, Types, proposerVars, cleanup_staged_workspace, Fault, Missing
<1>2. PlaceInv'
  BY JobFacts DEF CodexInv, Types, PlaceInv, Remote, Staged, Starting, Clients, Servers, Watches, Homes, Disks, Lefts, Pc, LaunchPc, OpenPc, FlowPc, NanoPc, LocalPc, RemotePc, AfterPc, EndPc, proposerVars, cleanup_staged_workspace, Fault, Missing
<1>3. ServerInv'
  <2>1. UNCHANGED <<job, srv, wd>> /\ pc = "cleanup" /\ pc' = "returned" /\ left \in Lefts
    BY DEF CodexInv, Types, cleanup_staged_workspace
  <2>2. left'.warned = left.warned
    BY <2>1 DEF cleanup_staged_workspace, Lefts
  <2> QED  BY <2>1, <2>2 DEF CodexInv, ServerInv, Alive, OneShot, Remote, OpenPc, FlowPc, LocalPc, LaunchPc, AfterPc, EndPc, Early
<1>4. IdInv'
  BY EmptyFacts, AppendFacts, TailFacts DEF CodexInv, Types, IdInv, Clients, Servers, Watches, Homes, Disks, Lefts, Pc, LaunchPc, OpenPc, FlowPc, NanoPc, LocalPc, RemotePc, AfterPc, EndPc, proposerVars, cleanup_staged_workspace, Fault, Missing
<1>5. QuietInv'
  BY JobFacts, EmptyFacts, AppendFacts, TailFacts DEF CodexInv, Types, PlaceInv, ServerInv, Early, QuietInv, Quiet, DeferPc, Remote, Staged, Clients, Servers, Watches, Homes, Disks, Lefts, Pc, LaunchPc, OpenPc, FlowPc, NanoPc, LocalPc, RemotePc, AfterPc, EndPc, proposerVars, cleanup_staged_workspace, Fault, Missing
<1>6. FlowInv'
  BY JobFacts DEF CodexInv, Types, PlaceInv, FlowInv, Remote, Staged, Clients, Servers, Watches, Homes, Disks, Lefts, Pc, LaunchPc, OpenPc, FlowPc, NanoPc, LocalPc, RemotePc, AfterPc, EndPc, proposerVars, cleanup_staged_workspace, Fault, Missing
<1>7. DiskInv'
  BY JobFacts DEF CodexInv, Types, PlaceInv, ServerInv, Early, QuietInv, Quiet, FlowInv, DiskInv, Remote, Staged, Clients, Servers, Watches, Homes, Disks, Lefts, Pc, LaunchPc, OpenPc, FlowPc, NanoPc, LocalPc, RemotePc, AfterPc, EndPc, proposerVars, cleanup_staged_workspace, Fault, Missing
<1>8. HomeInv'
  BY JobFacts DEF CodexInv, Types, PlaceInv, ServerInv, Early, QuietInv, Quiet, HomeInv, Remote, Staged, Clients, Servers, Watches, Homes, Disks, Lefts, Pc, LaunchPc, OpenPc, FlowPc, NanoPc, LocalPc, RemotePc, AfterPc, EndPc, proposerVars, cleanup_staged_workspace, Fault, Missing
<1>9. LeftInv'
  BY DEF CodexInv, Types, cleanup_staged_workspace, Lefts, Homes, LeftInv, Remote, Staged, AfterPc
<1>10. ShownInv'
  BY DEF CodexInv, ShownInv, Pc, LaunchPc, OpenPc, FlowPc, NanoPc, LocalPc, RemotePc, AfterPc, EndPc, proposerVars, cleanup_staged_workspace, Fault, Missing
<1> QED  BY <1>1, <1>2, <1>3, <1>4, <1>5, <1>6, <1>7, <1>8, <1>9, <1>10 DEF CodexInv

-----------------------------------------------------------------------------
(* The pool.                                                                *)
LEMMA PoolRun_Keeps ==
    ASSUME CodexInv, PoolRun, UNCHANGED proposerVars
    PROVE  CodexInv'
<1>1. Types'
  <2>1. pc' \in Pc
    BY JobFacts DEF CodexInv, Types, PlaceInv, Remote, Staged, Pc, LaunchPc, OpenPc, FlowPc, NanoPc, LocalPc, RemotePc, AfterPc, EndPc, PoolRun, DropSession, Persisted, NoServer, NoSession, Missing, Invalid
  <2>2. session' \in 0..MaxTurnsPerSession \cup {NoSession}
    BY AgentTurnAssumption DEF CodexInv, Types, PoolRun, DropSession, Persisted, NoServer, NoSession, Missing, Invalid
  <2>3. srv' \in Servers
    BY EmptyFacts, TailFacts, NewTyped DEF CodexInv, Types, Servers, PoolRun, DropSession, Persisted, NoSession, Missing, Invalid
  <2>4. home' \in Homes(turns)
    BY AgentTurnAssumption DEF CodexInv, Types, Homes, PoolRun, DropSession, Persisted, NoServer, NoSession, Missing, Invalid
  <2> QED  BY <2>1, <2>2, <2>3, <2>4 DEF CodexInv, Types, proposerVars, PoolRun, DropSession, Persisted, NoServer, NoSession, Missing, Invalid
<1>2. PlaceInv'
  <2>1. UNCHANGED <<job, ask, attempt>> /\ pc = "pool" /\ pc' \in {"turn", "prepare"} /\ job.call = "nano"
    BY DEF CodexInv, PlaceInv, PoolRun, proposerVars
  <2>2. pc' = "turn" => session' \in 0..(MaxTurnsPerSession - 1)
    BY AgentTurnAssumption DEF CodexInv, Types, PoolRun, NoSession
  <2>3. pc' = "prepare" => session' = NoSession
    BY DEF PoolRun, DropSession
  <2> QED  BY <2>1, <2>2, <2>3, JobFacts DEF CodexInv, Types, PlaceInv, Remote, Staged, NanoPc, FlowPc, RemotePc, LocalPc, AfterPc, Starting
<1>3. ServerInv'
  BY JobFacts DEF CodexInv, Types, PlaceInv, ServerInv, Early, Remote, Staged, Alive, OneShot, Clients, Servers, Watches, Homes, Disks, Lefts, Pc, LaunchPc, OpenPc, FlowPc, NanoPc, LocalPc, RemotePc, AfterPc, EndPc, proposerVars, PoolRun, DropSession, Persisted, NoServer, NoSession, Missing, Invalid
<1>4. IdInv'
  <2>1. UNCHANGED <<job, client, chan, result, turns, own, got, seen>> /\ pc = "pool" /\ pc' \in {"turn", "prepare"}
    BY DEF PoolRun
  <2>2. CASE UNCHANGED <<srv, session>>
    BY <2>1, <2>2 DEF PoolRun, CodexInv, IdInv, Quiet, OpenPc, FlowPc, NanoPc, DeferPc
  <2>3. CASE DropSession /\ pc' = "prepare"
    BY <2>3, <2>1, ServerGone DEF NoServer, DropSession, CodexInv, IdInv, OpenPc, FlowPc, NanoPc,
       DeferPc
  <2> QED  BY <2>2, <2>3 DEF PoolRun
<1>5. QuietInv'
  <2>1. UNCHANGED <<job, client, chan, result, turns, own, got, seen>> /\ pc = "pool" /\ pc' \in {"turn", "prepare"}
    BY DEF PoolRun
  <2>2. CASE UNCHANGED <<srv, session>>
    BY <2>1, <2>2 DEF PoolRun, CodexInv, QuietInv, Quiet, OpenPc, FlowPc, NanoPc, DeferPc
  <2>3. CASE DropSession /\ pc' = "prepare"
    BY <2>3, <2>1, ServerGone DEF NoServer, DropSession, CodexInv, QuietInv, OpenPc, FlowPc,
       NanoPc, DeferPc
  <2> QED  BY <2>2, <2>3 DEF PoolRun
<1>6. FlowInv'
  <2>1. UNCHANGED <<job, client, chan, result, turns, own, got, seen>> /\ pc = "pool" /\ pc' \in {"turn", "prepare"}
    BY DEF PoolRun
  <2>2. CASE UNCHANGED <<srv, session>>
    BY <2>1, <2>2 DEF PoolRun, CodexInv, FlowInv, Quiet, OpenPc, FlowPc, NanoPc, DeferPc
  <2>3. CASE DropSession /\ pc' = "prepare"
    BY <2>3, <2>1, ServerGone DEF NoServer, DropSession, CodexInv, FlowInv, OpenPc, FlowPc, NanoPc,
       DeferPc
  <2> QED  BY <2>2, <2>3 DEF PoolRun
<1>7. DiskInv'
  BY JobFacts DEF CodexInv, Types, PlaceInv, ServerInv, Early, QuietInv, Quiet, FlowInv, DiskInv, Remote, Staged, Clients, Servers, Watches, Homes, Disks, Lefts, Pc, LaunchPc, OpenPc, FlowPc, NanoPc, LocalPc, RemotePc, AfterPc, EndPc, proposerVars, PoolRun, DropSession, Persisted, NoServer, NoSession, Missing, Invalid
<1>8. HomeInv'
  BY JobFacts DEF CodexInv, Types, PlaceInv, ServerInv, Early, QuietInv, Quiet, HomeInv, Remote, Staged, Clients, Servers, Watches, Homes, Disks, Lefts, Pc, LaunchPc, OpenPc, FlowPc, NanoPc, LocalPc, RemotePc, AfterPc, EndPc, proposerVars, PoolRun, DropSession, Persisted, NoServer, NoSession, Missing, Invalid
<1>9. LeftInv'
  BY JobFacts DEF CodexInv, Types, PlaceInv, ServerInv, Early, QuietInv, Quiet, LeftInv, Remote, Staged, Clients, Servers, Watches, Homes, Disks, Lefts, Pc, LaunchPc, OpenPc, FlowPc, NanoPc, LocalPc, RemotePc, AfterPc, EndPc, proposerVars, PoolRun, DropSession, Persisted, NoServer, NoSession, Missing, Invalid
<1>10. ShownInv'
  BY DEF CodexInv, ShownInv, Pc, LaunchPc, OpenPc, FlowPc, NanoPc, LocalPc, RemotePc, AfterPc, EndPc, proposerVars, PoolRun, DropSession, Persisted, NoServer, NoSession, Missing, Invalid
<1> QED  BY <1>1, <1>2, <1>3, <1>4, <1>5, <1>6, <1>7, <1>8, <1>9, <1>10 DEF CodexInv

LEMMA record_turn_Keeps ==
    ASSUME CodexInv, record_turn, UNCHANGED proposerVars
    PROVE  CodexInv'
<1>1. Types'
  <2>1. pc' \in Pc
    BY JobFacts DEF CodexInv, Types, PlaceInv, Remote, Staged, Pc, LaunchPc, OpenPc, FlowPc, NanoPc, LocalPc, RemotePc, AfterPc, EndPc, record_turn, validate_observed_tools, Fault, NoSession
  <2>2. session' \in 0..MaxTurnsPerSession \cup {NoSession}
    BY AgentTurnAssumption DEF CodexInv, Types, PlaceInv, NanoPc, record_turn, validate_observed_tools
  <2>3. faults' \in 0..MaxFaults
    BY AgentTurnAssumption DEF CodexInv, Types, record_turn, validate_observed_tools, Fault, NoSession
  <2> QED  BY <2>1, <2>2, <2>3 DEF CodexInv, Types, proposerVars, record_turn, validate_observed_tools, Fault, NoSession
<1>2. PlaceInv'
  BY JobFacts DEF CodexInv, Types, PlaceInv, Remote, Staged, Starting, Clients, Servers, Watches, Homes, Disks, Lefts, Pc, LaunchPc, OpenPc, FlowPc, NanoPc, LocalPc, RemotePc, AfterPc, EndPc, proposerVars, record_turn, validate_observed_tools, Fault, NoSession
<1>3. ServerInv'
  BY JobFacts DEF CodexInv, Types, PlaceInv, ServerInv, Early, Remote, Staged, Alive, OneShot, Clients, Servers, Watches, Homes, Disks, Lefts, Pc, LaunchPc, OpenPc, FlowPc, NanoPc, LocalPc, RemotePc, AfterPc, EndPc, proposerVars, record_turn, validate_observed_tools, Fault, NoSession
<1>4. IdInv'
  BY EmptyFacts, AppendFacts, TailFacts DEF CodexInv, Types, IdInv, Clients, Servers, Watches, Homes, Disks, Lefts, Pc, LaunchPc, OpenPc, FlowPc, NanoPc, LocalPc, RemotePc, AfterPc, EndPc, proposerVars, record_turn, validate_observed_tools, Fault, NoSession
<1>5. QuietInv'
  BY JobFacts, EmptyFacts, AppendFacts, TailFacts DEF CodexInv, Types, PlaceInv, ServerInv, Early, QuietInv, Quiet, DeferPc, Remote, Staged, Clients, Servers, Watches, Homes, Disks, Lefts, Pc, LaunchPc, OpenPc, FlowPc, NanoPc, LocalPc, RemotePc, AfterPc, EndPc, proposerVars, record_turn, validate_observed_tools, Fault, NoSession
<1>6. FlowInv'
  BY JobFacts DEF CodexInv, Types, PlaceInv, FlowInv, Remote, Staged, Clients, Servers, Watches, Homes, Disks, Lefts, Pc, LaunchPc, OpenPc, FlowPc, NanoPc, LocalPc, RemotePc, AfterPc, EndPc, proposerVars, record_turn, validate_observed_tools, Fault, NoSession
<1>7. DiskInv'
  BY JobFacts DEF CodexInv, Types, PlaceInv, ServerInv, Early, QuietInv, Quiet, FlowInv, DiskInv, Remote, Staged, Clients, Servers, Watches, Homes, Disks, Lefts, Pc, LaunchPc, OpenPc, FlowPc, NanoPc, LocalPc, RemotePc, AfterPc, EndPc, proposerVars, record_turn, validate_observed_tools, Fault, NoSession
<1>8. HomeInv'
  BY JobFacts DEF CodexInv, Types, PlaceInv, ServerInv, Early, QuietInv, Quiet, HomeInv, Remote, Staged, Clients, Servers, Watches, Homes, Disks, Lefts, Pc, LaunchPc, OpenPc, FlowPc, NanoPc, LocalPc, RemotePc, AfterPc, EndPc, proposerVars, record_turn, validate_observed_tools, Fault, NoSession
<1>9. LeftInv'
  BY JobFacts DEF CodexInv, Types, PlaceInv, ServerInv, Early, QuietInv, Quiet, LeftInv, Remote, Staged, Clients, Servers, Watches, Homes, Disks, Lefts, Pc, LaunchPc, OpenPc, FlowPc, NanoPc, LocalPc, RemotePc, AfterPc, EndPc, proposerVars, record_turn, validate_observed_tools, Fault, NoSession
<1>10. ShownInv'
  BY DEF CodexInv, ShownInv, Pc, LaunchPc, OpenPc, FlowPc, NanoPc, LocalPc, RemotePc, AfterPc, EndPc, proposerVars, record_turn, validate_observed_tools, Fault, NoSession
<1> QED  BY <1>1, <1>2, <1>3, <1>4, <1>5, <1>6, <1>7, <1>8, <1>9, <1>10 DEF CodexInv

LEMMA RemoveSession_Keeps ==
    ASSUME CodexInv, RemoveSession, UNCHANGED proposerVars
    PROVE  CodexInv'
<1>1. Types'
  <2>1. pc' \in Pc
    BY JobFacts DEF CodexInv, Types, PlaceInv, Remote, Staged, Pc, LaunchPc, OpenPc, FlowPc, NanoPc, LocalPc, RemotePc, AfterPc, EndPc, RemoveSession, DropSession, Persisted, NoServer, NoSession, Missing, Invalid, Alive
  <2>2. session' \in 0..MaxTurnsPerSession \cup {NoSession}
    BY AgentTurnAssumption DEF CodexInv, Types, RemoveSession, DropSession, Persisted, NoServer, NoSession, Missing, Invalid, Alive
  <2>3. srv' \in Servers
    BY EmptyFacts, TailFacts, NewTyped DEF CodexInv, Types, Servers, RemoveSession, DropSession, Persisted, NoSession, Missing, Invalid, Alive
  <2>4. home' \in Homes(turns)
    BY AgentTurnAssumption DEF CodexInv, Types, Homes, RemoveSession, DropSession, Persisted, NoServer, NoSession, Missing, Invalid, Alive
  <2>5. left' \in Lefts
    <3>1. Alive \in BOOLEAN /\ left \in Lefts
      BY DEF Alive, CodexInv, Types
    <3> QED  BY <3>1 DEF RemoveSession, Lefts
  <2> QED  BY <2>1, <2>2, <2>3, <2>4, <2>5 DEF CodexInv, Types, proposerVars, RemoveSession, DropSession, Persisted, NoServer, NoSession, Missing, Invalid, Alive
<1>2. PlaceInv'
  BY JobFacts DEF CodexInv, Types, PlaceInv, Remote, Staged, Starting, Clients, Servers, Watches, Homes, Disks, Lefts, Pc, LaunchPc, OpenPc, FlowPc, NanoPc, LocalPc, RemotePc, AfterPc, EndPc, proposerVars, RemoveSession, DropSession, Persisted, NoServer, NoSession, Missing, Invalid, Alive
<1>3. ServerInv'
  BY JobFacts DEF CodexInv, Types, PlaceInv, ServerInv, Early, Remote, Staged, Alive, OneShot, Clients, Servers, Watches, Homes, Disks, Lefts, Pc, LaunchPc, OpenPc, FlowPc, NanoPc, LocalPc, RemotePc, AfterPc, EndPc, proposerVars, RemoveSession, DropSession, Persisted, NoServer, NoSession, Missing, Invalid
<1>4. IdInv'
  <2>1. UNCHANGED <<job, client, chan, result, turns, own, got, seen>> /\ pc \in {"drop", "orphan"} /\ pc' = "returned"
    BY DEF RemoveSession
  <2>2. CASE UNCHANGED <<srv, session>> /\ pc = "orphan"
    BY <2>1, <2>2 DEF CodexInv, PlaceInv, IdInv, Quiet, OpenPc, FlowPc, NanoPc, DeferPc
  <2>3. CASE DropSession
    BY <2>3, <2>1, ServerGone DEF NoServer, DropSession, CodexInv, IdInv, OpenPc, FlowPc, NanoPc,
       DeferPc
  <2> QED  BY <2>2, <2>3 DEF RemoveSession
<1>5. QuietInv'
  <2>1. UNCHANGED <<job, client, chan, result, turns, own, got, seen>> /\ pc \in {"drop", "orphan"} /\ pc' = "returned"
    BY DEF RemoveSession
  <2>2. CASE UNCHANGED <<srv, session>> /\ pc = "orphan"
    BY <2>1, <2>2 DEF CodexInv, PlaceInv, QuietInv, Quiet, OpenPc, FlowPc, NanoPc, DeferPc
  <2>3. CASE DropSession
    BY <2>3, <2>1, ServerGone DEF NoServer, DropSession, CodexInv, QuietInv, OpenPc, FlowPc,
       NanoPc, DeferPc
  <2> QED  BY <2>2, <2>3 DEF RemoveSession
<1>6. FlowInv'
  BY DEF CodexInv, FlowInv, FlowPc, RemoveSession, DropSession, NoServer
<1>7. DiskInv'
  BY JobFacts DEF CodexInv, Types, PlaceInv, ServerInv, Early, QuietInv, Quiet, FlowInv, DiskInv, Remote, Staged, Clients, Servers, Watches, Homes, Disks, Lefts, Pc, LaunchPc, OpenPc, FlowPc, NanoPc, LocalPc, RemotePc, AfterPc, EndPc, proposerVars, RemoveSession, DropSession, Persisted, NoServer, NoSession, Missing, Invalid, Alive
<1>8. HomeInv'
  BY JobFacts DEF CodexInv, Types, PlaceInv, ServerInv, Early, QuietInv, Quiet, HomeInv, Remote, Staged, Clients, Servers, Watches, Homes, Disks, Lefts, Pc, LaunchPc, OpenPc, FlowPc, NanoPc, LocalPc, RemotePc, AfterPc, EndPc, proposerVars, RemoveSession, DropSession, Persisted, NoServer, NoSession, Missing, Invalid, Alive
<1>9. LeftInv'
  BY JobFacts DEF CodexInv, Types, PlaceInv, ServerInv, Early, QuietInv, Quiet, LeftInv, Remote, Staged, Clients, Servers, Watches, Homes, Disks, Lefts, Pc, LaunchPc, OpenPc, FlowPc, NanoPc, LocalPc, RemotePc, AfterPc, EndPc, proposerVars, RemoveSession, DropSession, Persisted, NoServer, NoSession, Missing, Invalid, Alive
<1>10. ShownInv'
  BY DEF CodexInv, ShownInv, Pc, LaunchPc, OpenPc, FlowPc, NanoPc, LocalPc, RemotePc, AfterPc, EndPc, proposerVars, RemoveSession, DropSession, Persisted, NoServer, NoSession, Missing, Invalid, Alive
<1> QED  BY <1>1, <1>2, <1>3, <1>4, <1>5, <1>6, <1>7, <1>8, <1>9, <1>10 DEF CodexInv

-----------------------------------------------------------------------------
(* The proposer.                                                            *)
LEMMA materialize_workspace_Keeps ==
    ASSUME CodexInv, materialize_workspace
    PROVE  CodexInv'
<1>1. Types'
  <2>1. pc' \in Pc
    BY JobFacts DEF CodexInv, Types, PlaceInv, Remote, Staged, Pc, LaunchPc, OpenPc, FlowPc, NanoPc, LocalPc, RemotePc, AfterPc, EndPc, materialize_workspace, Entry
  <2>2. disk' \in Disks(turns)
    <3>1. disk \in Disks(turns) /\ turns \in Nat /\ 0 \in 0..turns
      BY DEF CodexInv, Types
    <3> QED  BY <3>1 DEF Disks, materialize_workspace
  <2> QED  BY <2>1, <2>2, BeginCallTyped DEF CodexInv, Types, materialize_workspace
<1>2. PlaceInv'
  BY JobFacts DEF CodexInv, Types, PlaceInv, Remote, Staged, Starting, Clients, Servers, Watches, Homes, Disks, Lefts, Pc, LaunchPc, OpenPc, FlowPc, NanoPc, LocalPc, RemotePc, AfterPc, EndPc, proposerVars, materialize_workspace, BeginCall, OneShot, NoClient, NoServer, NoWatch, Entry, assert_proposer_workspace_no_leaks
<1>3. ServerInv'
  <2>1. /\ UNCHANGED job /\ wd'.at = "gone"
        /\ pc' \in LaunchPc \cup {"returned"}
        /\ pc' \in LaunchPc => result' = "none"
        /\ job.call # "nano" => srv' = NoServer
    BY JobFacts DEF CodexInv, Types, materialize_workspace, BeginCall, NoWatch, OneShot, Entry, LaunchPc
  <2>2. job.call # "nano" => ~Alive'
    BY <2>1 DEF NoServer, Alive
  <2> QED  BY <2>1, <2>2, JobFacts DEF CodexInv, Types, ServerInv, Remote, OneShot, LaunchPc, OpenPc, FlowPc, LocalPc, AfterPc, EndPc, Early
<1>4. IdInv'
  <2>1. /\ UNCHANGED <<job, session, turns>> /\ pc = "idle" /\ own' = 0 /\ got' = 0 /\ seen' = {}
        /\ pc' \in {"pool", "chat", "stage", "prepare", "returned"} /\ result' # "ok"
        /\ pc' = "chat" => job.call = "chat"
    BY JobFacts DEF CodexInv, Types, materialize_workspace, BeginCall, Entry
  <2>2. CASE OneShot
    BY <2>2, <2>1, NewClient DEF materialize_workspace, BeginCall, NoServer, IdInv, OpenPc, FlowPc,
       NanoPc, DeferPc
  <2>3. CASE ~OneShot
    <3>1. UNCHANGED <<client, chan, srv>>
      BY <2>3 DEF materialize_workspace, BeginCall
    <3> QED  BY <2>1, <2>3, <3>1 DEF CodexInv, IdInv, QuietInv, Quiet, OneShot, OpenPc, FlowPc, NanoPc, DeferPc
  <2> QED  BY <2>2, <2>3
<1>5. QuietInv'
  <2>1. /\ UNCHANGED <<job, session, turns>> /\ pc = "idle" /\ own' = 0 /\ got' = 0 /\ seen' = {}
        /\ pc' \in {"pool", "chat", "stage", "prepare", "returned"} /\ result' # "ok"
        /\ pc' = "chat" => job.call = "chat"
    BY JobFacts DEF CodexInv, Types, materialize_workspace, BeginCall, Entry
  <2>2. CASE OneShot
    BY <2>2, <2>1, NewClient DEF materialize_workspace, BeginCall, NoServer, QuietInv, OpenPc,
       FlowPc, NanoPc, DeferPc
  <2>3. CASE ~OneShot
    BY <2>3, <2>1 DEF materialize_workspace, BeginCall, CodexInv, QuietInv, Quiet, OneShot, OpenPc,
       FlowPc, NanoPc, DeferPc
  <2> QED  BY <2>2, <2>3
<1>6. FlowInv'
  <2>1. /\ UNCHANGED <<job, session, turns>> /\ pc = "idle" /\ own' = 0 /\ got' = 0 /\ seen' = {}
        /\ pc' \in {"pool", "chat", "stage", "prepare", "returned"} /\ result' # "ok"
        /\ pc' = "chat" => job.call = "chat"
    BY JobFacts DEF CodexInv, Types, materialize_workspace, BeginCall, Entry
  <2>2. CASE OneShot
    BY <2>2, <2>1, NewClient DEF materialize_workspace, BeginCall, NoServer, FlowInv, OpenPc,
       FlowPc, NanoPc, DeferPc
  <2>3. CASE ~OneShot
    <3>1. UNCHANGED <<client, chan, srv>>
      BY <2>3 DEF materialize_workspace, BeginCall
    <3> QED  BY <2>1, <2>3, <3>1 DEF CodexInv, FlowInv, QuietInv, Quiet, OneShot, OpenPc, FlowPc, NanoPc, DeferPc
  <2> QED  BY <2>2, <2>3
<1>7. DiskInv'
  BY JobFacts DEF CodexInv, Types, PlaceInv, ServerInv, Early, QuietInv, Quiet, FlowInv, DiskInv, Remote, Staged, Clients, Servers, Watches, Homes, Disks, Lefts, Pc, LaunchPc, OpenPc, FlowPc, NanoPc, LocalPc, RemotePc, AfterPc, EndPc, proposerVars, materialize_workspace, BeginCall, OneShot, NoClient, NoServer, NoWatch, Entry, assert_proposer_workspace_no_leaks
<1>8. HomeInv'
  BY JobFacts DEF CodexInv, Types, PlaceInv, ServerInv, Early, QuietInv, Quiet, HomeInv, Remote, Staged, Clients, Servers, Watches, Homes, Disks, Lefts, Pc, LaunchPc, OpenPc, FlowPc, NanoPc, LocalPc, RemotePc, AfterPc, EndPc, proposerVars, materialize_workspace, BeginCall, OneShot, NoClient, NoServer, NoWatch, Entry, assert_proposer_workspace_no_leaks
<1>9. LeftInv'
  BY JobFacts DEF CodexInv, Types, PlaceInv, ServerInv, Early, QuietInv, Quiet, LeftInv, Remote, Staged, Clients, Servers, Watches, Homes, Disks, Lefts, Pc, LaunchPc, OpenPc, FlowPc, NanoPc, LocalPc, RemotePc, AfterPc, EndPc, proposerVars, materialize_workspace, BeginCall, OneShot, NoClient, NoServer, NoWatch, Entry, assert_proposer_workspace_no_leaks
<1>10. ShownInv'
  BY DEF CodexInv, ShownInv, Pc, LaunchPc, OpenPc, FlowPc, NanoPc, LocalPc, RemotePc, AfterPc, EndPc, proposerVars, materialize_workspace, BeginCall, OneShot, NoClient, NoServer, NoWatch, Entry, Staged, assert_proposer_workspace_no_leaks
<1> QED  BY <1>1, <1>2, <1>3, <1>4, <1>5, <1>6, <1>7, <1>8, <1>9, <1>10 DEF CodexInv

LEMMA materialize_staleness_review_workspace_Keeps ==
    ASSUME CodexInv, materialize_staleness_review_workspace
    PROVE  CodexInv'
<1>1. Types'
  <2>1. pc' \in Pc
    BY JobFacts DEF CodexInv, Types, PlaceInv, Remote, Staged, Pc, LaunchPc, OpenPc, FlowPc, NanoPc, LocalPc, RemotePc, AfterPc, EndPc, materialize_staleness_review_workspace, Entry
  <2>2. disk' \in Disks(turns)
    <3>1. disk \in Disks(turns) /\ turns \in Nat /\ 0 \in 0..turns
      BY DEF CodexInv, Types
    <3> QED  BY <3>1 DEF Disks, materialize_staleness_review_workspace
  <2> QED  BY <2>1, <2>2, BeginCallTyped DEF CodexInv, Types, materialize_staleness_review_workspace
<1>2. PlaceInv'
  BY JobFacts DEF CodexInv, Types, PlaceInv, Remote, Staged, Starting, Clients, Servers, Watches, Homes, Disks, Lefts, Pc, LaunchPc, OpenPc, FlowPc, NanoPc, LocalPc, RemotePc, AfterPc, EndPc, proposerVars, materialize_staleness_review_workspace, BeginCall, OneShot, NoClient, NoServer, NoWatch, Entry, assert_proposer_workspace_no_leaks
<1>3. ServerInv'
  <2>1. /\ UNCHANGED job /\ wd'.at = "gone"
        /\ pc' \in LaunchPc \cup {"returned"}
        /\ pc' \in LaunchPc => result' = "none"
        /\ job.call # "nano" => srv' = NoServer
    BY JobFacts DEF CodexInv, Types, materialize_staleness_review_workspace, BeginCall, NoWatch, OneShot, Entry, LaunchPc
  <2>2. job.call # "nano" => ~Alive'
    BY <2>1 DEF NoServer, Alive
  <2> QED  BY <2>1, <2>2, JobFacts DEF CodexInv, Types, ServerInv, Remote, OneShot, LaunchPc, OpenPc, FlowPc, LocalPc, AfterPc, EndPc, Early
<1>4. IdInv'
  <2>1. /\ UNCHANGED <<job, session, turns>> /\ pc = "idle" /\ own' = 0 /\ got' = 0 /\ seen' = {}
        /\ pc' \in {"pool", "chat", "stage", "prepare", "returned"} /\ result' # "ok"
        /\ pc' = "chat" => job.call = "chat"
    BY JobFacts DEF CodexInv, Types, materialize_staleness_review_workspace, BeginCall, Entry
  <2>2. CASE OneShot
    BY <2>2, <2>1, NewClient DEF materialize_staleness_review_workspace, BeginCall, NoServer,
       IdInv, OpenPc, FlowPc, NanoPc, DeferPc
  <2>3. CASE ~OneShot
    <3>1. UNCHANGED <<client, chan, srv>>
      BY <2>3 DEF materialize_staleness_review_workspace, BeginCall
    <3> QED  BY <2>1, <2>3, <3>1 DEF CodexInv, IdInv, QuietInv, Quiet, OneShot, OpenPc, FlowPc, NanoPc, DeferPc
  <2> QED  BY <2>2, <2>3
<1>5. QuietInv'
  <2>1. /\ UNCHANGED <<job, session, turns>> /\ pc = "idle" /\ own' = 0 /\ got' = 0 /\ seen' = {}
        /\ pc' \in {"pool", "chat", "stage", "prepare", "returned"} /\ result' # "ok"
        /\ pc' = "chat" => job.call = "chat"
    BY JobFacts DEF CodexInv, Types, materialize_staleness_review_workspace, BeginCall, Entry
  <2>2. CASE OneShot
    BY <2>2, <2>1, NewClient DEF materialize_staleness_review_workspace, BeginCall, NoServer,
       QuietInv, OpenPc, FlowPc, NanoPc, DeferPc
  <2>3. CASE ~OneShot
    BY <2>3, <2>1 DEF materialize_staleness_review_workspace, BeginCall, CodexInv, QuietInv, Quiet,
       OneShot, OpenPc, FlowPc, NanoPc, DeferPc
  <2> QED  BY <2>2, <2>3
<1>6. FlowInv'
  <2>1. /\ UNCHANGED <<job, session, turns>> /\ pc = "idle" /\ own' = 0 /\ got' = 0 /\ seen' = {}
        /\ pc' \in {"pool", "chat", "stage", "prepare", "returned"} /\ result' # "ok"
        /\ pc' = "chat" => job.call = "chat"
    BY JobFacts DEF CodexInv, Types, materialize_staleness_review_workspace, BeginCall, Entry
  <2>2. CASE OneShot
    BY <2>2, <2>1, NewClient DEF materialize_staleness_review_workspace, BeginCall, NoServer,
       FlowInv, OpenPc, FlowPc, NanoPc, DeferPc
  <2>3. CASE ~OneShot
    <3>1. UNCHANGED <<client, chan, srv>>
      BY <2>3 DEF materialize_staleness_review_workspace, BeginCall
    <3> QED  BY <2>1, <2>3, <3>1 DEF CodexInv, FlowInv, QuietInv, Quiet, OneShot, OpenPc, FlowPc, NanoPc, DeferPc
  <2> QED  BY <2>2, <2>3
<1>7. DiskInv'
  BY JobFacts DEF CodexInv, Types, PlaceInv, ServerInv, Early, QuietInv, Quiet, FlowInv, DiskInv, Remote, Staged, Clients, Servers, Watches, Homes, Disks, Lefts, Pc, LaunchPc, OpenPc, FlowPc, NanoPc, LocalPc, RemotePc, AfterPc, EndPc, proposerVars, materialize_staleness_review_workspace, BeginCall, OneShot, NoClient, NoServer, NoWatch, Entry, assert_proposer_workspace_no_leaks
<1>8. HomeInv'
  BY JobFacts DEF CodexInv, Types, PlaceInv, ServerInv, Early, QuietInv, Quiet, HomeInv, Remote, Staged, Clients, Servers, Watches, Homes, Disks, Lefts, Pc, LaunchPc, OpenPc, FlowPc, NanoPc, LocalPc, RemotePc, AfterPc, EndPc, proposerVars, materialize_staleness_review_workspace, BeginCall, OneShot, NoClient, NoServer, NoWatch, Entry, assert_proposer_workspace_no_leaks
<1>9. LeftInv'
  BY JobFacts DEF CodexInv, Types, PlaceInv, ServerInv, Early, QuietInv, Quiet, LeftInv, Remote, Staged, Clients, Servers, Watches, Homes, Disks, Lefts, Pc, LaunchPc, OpenPc, FlowPc, NanoPc, LocalPc, RemotePc, AfterPc, EndPc, proposerVars, materialize_staleness_review_workspace, BeginCall, OneShot, NoClient, NoServer, NoWatch, Entry, assert_proposer_workspace_no_leaks
<1>10. ShownInv'
  BY DEF CodexInv, ShownInv, Pc, LaunchPc, OpenPc, FlowPc, NanoPc, LocalPc, RemotePc, AfterPc, EndPc, proposerVars, materialize_staleness_review_workspace, BeginCall, OneShot, NoClient, NoServer, NoWatch, Entry, Staged, assert_proposer_workspace_no_leaks
<1> QED  BY <1>1, <1>2, <1>3, <1>4, <1>5, <1>6, <1>7, <1>8, <1>9, <1>10 DEF CodexInv

LEMMA run_command_exec_Keeps ==
    ASSUME CodexInv, run_command_exec
    PROVE  CodexInv'
<1>1. Types'
  <2>1. pc' \in Pc
    BY JobFacts DEF CodexInv, Types, PlaceInv, Remote, Staged, Pc, LaunchPc, OpenPc, FlowPc, NanoPc, LocalPc, RemotePc, AfterPc, EndPc, run_command_exec, Entry
  <2>2. disk' \in Disks(turns)
    BY DEF CodexInv, Types, Disks, run_command_exec
  <2> QED  BY <2>1, <2>2, BeginCallTyped DEF CodexInv, Types, run_command_exec
<1>2. PlaceInv'
  BY JobFacts DEF CodexInv, Types, PlaceInv, Remote, Staged, Starting, Clients, Servers, Watches, Homes, Disks, Lefts, Pc, LaunchPc, OpenPc, FlowPc, NanoPc, LocalPc, RemotePc, AfterPc, EndPc, proposerVars, run_command_exec, BeginCall, OneShot, NoClient, NoServer, NoWatch, Entry, assert_proposer_workspace_no_leaks
<1>3. ServerInv'
  <2>1. /\ UNCHANGED job /\ wd'.at = "gone"
        /\ pc' \in LaunchPc \cup {"returned"}
        /\ pc' \in LaunchPc => result' = "none"
        /\ job.call # "nano" => srv' = NoServer
    BY JobFacts DEF CodexInv, Types, run_command_exec, BeginCall, NoWatch, OneShot, Entry, LaunchPc
  <2>2. job.call # "nano" => ~Alive'
    BY <2>1 DEF NoServer, Alive
  <2> QED  BY <2>1, <2>2, JobFacts DEF CodexInv, Types, ServerInv, Remote, OneShot, LaunchPc, OpenPc, FlowPc, LocalPc, AfterPc, EndPc, Early
<1>4. IdInv'
  <2>1. /\ UNCHANGED <<job, session, turns>> /\ pc = "idle" /\ own' = 0 /\ got' = 0 /\ seen' = {}
        /\ pc' \in {"pool", "chat", "stage", "prepare", "returned"} /\ result' # "ok"
        /\ pc' = "chat" => job.call = "chat"
    BY JobFacts DEF CodexInv, Types, run_command_exec, BeginCall, Entry
  <2>2. CASE OneShot
    BY <2>2, <2>1, NewClient DEF run_command_exec, BeginCall, NoServer, IdInv, OpenPc, FlowPc,
       NanoPc, DeferPc
  <2>3. CASE ~OneShot
    <3>1. UNCHANGED <<client, chan, srv>>
      BY <2>3 DEF run_command_exec, BeginCall
    <3> QED  BY <2>1, <2>3, <3>1 DEF CodexInv, IdInv, QuietInv, Quiet, OneShot, OpenPc, FlowPc, NanoPc, DeferPc
  <2> QED  BY <2>2, <2>3
<1>5. QuietInv'
  <2>1. /\ UNCHANGED <<job, session, turns>> /\ pc = "idle" /\ own' = 0 /\ got' = 0 /\ seen' = {}
        /\ pc' \in {"pool", "chat", "stage", "prepare", "returned"} /\ result' # "ok"
        /\ pc' = "chat" => job.call = "chat"
    BY JobFacts DEF CodexInv, Types, run_command_exec, BeginCall, Entry
  <2>2. CASE OneShot
    BY <2>2, <2>1, NewClient DEF run_command_exec, BeginCall, NoServer, QuietInv, OpenPc, FlowPc,
       NanoPc, DeferPc
  <2>3. CASE ~OneShot
    BY <2>3, <2>1 DEF run_command_exec, BeginCall, CodexInv, QuietInv, Quiet, OneShot, OpenPc,
       FlowPc, NanoPc, DeferPc
  <2> QED  BY <2>2, <2>3
<1>6. FlowInv'
  <2>1. /\ UNCHANGED <<job, session, turns>> /\ pc = "idle" /\ own' = 0 /\ got' = 0 /\ seen' = {}
        /\ pc' \in {"pool", "chat", "stage", "prepare", "returned"} /\ result' # "ok"
        /\ pc' = "chat" => job.call = "chat"
    BY JobFacts DEF CodexInv, Types, run_command_exec, BeginCall, Entry
  <2>2. CASE OneShot
    BY <2>2, <2>1, NewClient DEF run_command_exec, BeginCall, NoServer, FlowInv, OpenPc, FlowPc,
       NanoPc, DeferPc
  <2>3. CASE ~OneShot
    <3>1. UNCHANGED <<client, chan, srv>>
      BY <2>3 DEF run_command_exec, BeginCall
    <3> QED  BY <2>1, <2>3, <3>1 DEF CodexInv, FlowInv, QuietInv, Quiet, OneShot, OpenPc, FlowPc, NanoPc, DeferPc
  <2> QED  BY <2>2, <2>3
<1>7. DiskInv'
  <2>1. /\ UNCHANGED <<job, ask, accepted, disk>> /\ own' = 0 /\ pc = "idle" /\ accepted = NoManifest
        /\ job.call = "exec" /\ disk.latest = 0
    BY DEF CodexInv, PlaceInv, DiskInv, run_command_exec, BeginCall
  <2>2. pc' \in {"stage", "prepare"} /\ result' = "none"
    BY <2>1 DEF run_command_exec, Entry
  <2> QED  BY <2>1, <2>2, JobFacts DEF CodexInv, Types, DiskInv, Staged, Remote, OpenPc, FlowPc, LocalPc
<1>8. HomeInv'
  BY JobFacts DEF CodexInv, Types, PlaceInv, ServerInv, Early, QuietInv, Quiet, HomeInv, Remote, Staged, Clients, Servers, Watches, Homes, Disks, Lefts, Pc, LaunchPc, OpenPc, FlowPc, NanoPc, LocalPc, RemotePc, AfterPc, EndPc, proposerVars, run_command_exec, BeginCall, OneShot, NoClient, NoServer, NoWatch, Entry, assert_proposer_workspace_no_leaks
<1>9. LeftInv'
  BY JobFacts DEF CodexInv, Types, PlaceInv, ServerInv, Early, QuietInv, Quiet, LeftInv, Remote, Staged, Clients, Servers, Watches, Homes, Disks, Lefts, Pc, LaunchPc, OpenPc, FlowPc, NanoPc, LocalPc, RemotePc, AfterPc, EndPc, proposerVars, run_command_exec, BeginCall, OneShot, NoClient, NoServer, NoWatch, Entry, assert_proposer_workspace_no_leaks
<1>10. ShownInv'
  BY DEF CodexInv, ShownInv, Pc, LaunchPc, OpenPc, FlowPc, NanoPc, LocalPc, RemotePc, AfterPc, EndPc, proposerVars, run_command_exec, BeginCall, OneShot, NoClient, NoServer, NoWatch, Entry, Staged, assert_proposer_workspace_no_leaks
<1> QED  BY <1>1, <1>2, <1>3, <1>4, <1>5, <1>6, <1>7, <1>8, <1>9, <1>10 DEF CodexInv

LEMMA run_deepseek_chat_proposer_Types ==
    ASSUME CodexInv, run_deepseek_chat_proposer
    PROVE  Types'
<1>1. /\ UNCHANGED <<job, client, session, srv, chan, wd, home, left, ask, attempt, accepted, tainted, input>>
      /\ pc' \in {"chat", "returned"} /\ pc = "chat"
  BY DEF run_deepseek_chat_proposer, post_deepseek_chat_completion_fails
<1>2. turns \in Nat /\ client \in Clients(turns) /\ home \in Homes(turns) /\ disk \in Disks(turns)
      /\ accepted \in 0..turns \cup {NoManifest} /\ seen \subseteq 1..turns /\ own \in 0..turns /\ got \in 0..turns
  BY DEF CodexInv, Types
<1>3. CASE UNCHANGED <<turns, own, got, seen, disk>> /\ faults' \in {faults, faults + 1} /\ faults' <= MaxFaults
  BY <1>3, AgentTurnAssumption, <1>1, <1>2 DEF CodexInv, Types, Pc, LaunchPc, EndPc
<1>4. CASE /\ turns' = turns + 1 /\ own' = turns + 1 /\ got' = turns + 1 /\ seen' = seen \cup {turns + 1}
           /\ disk' = [disk EXCEPT !.orig = turns + 1, !.latest = turns + 1] /\ UNCHANGED faults
  <2>1. /\ 0..turns \subseteq 0..turns' /\ 1..turns \subseteq 1..turns' /\ Clients(turns) \subseteq Clients(turns')
        /\ Homes(turns) \subseteq Homes(turns') /\ Disks(turns) \subseteq Disks(turns')
    BY <1>2, <1>4, MoreTurns
  <2>2. turns' \in Nat /\ turns + 1 \in 0..turns' /\ turns + 1 \in 1..turns'
    BY <1>2, <1>4
  <2>3. disk' \in Disks(turns')
    BY <1>2, <2>1, <1>4, <2>2 DEF Disks
  <2>4. accepted' \in 0..turns' \cup {NoManifest} /\ seen' \subseteq 1..turns'
    BY <1>1, <1>2, <1>4, <2>1, <2>2
  <2> QED  BY <1>1, <1>2, <1>4, <2>1, <2>2, <2>3, <2>4 DEF CodexInv, Types, Pc, LaunchPc, EndPc
<1>5. \/ UNCHANGED <<turns, own, got, seen, disk>> /\ faults' \in {faults, faults + 1} /\ faults' <= MaxFaults
      \/ /\ turns' = turns + 1 /\ own' = turns + 1 /\ got' = turns + 1 /\ seen' = seen \cup {turns + 1}
         /\ disk' = [disk EXCEPT !.orig = turns + 1, !.latest = turns + 1] /\ UNCHANGED faults
  BY AgentTurnAssumption DEF CodexInv, Types, run_deepseek_chat_proposer,
     post_deepseek_chat_completion_fails, Fault
<1> QED  BY <1>3, <1>4, <1>5

LEMMA run_deepseek_chat_proposer_Keeps ==
    ASSUME CodexInv, run_deepseek_chat_proposer
    PROVE  CodexInv'
<1>1. Types'
  BY run_deepseek_chat_proposer_Types
<1>2. PlaceInv'
  BY JobFacts DEF CodexInv, Types, PlaceInv, Remote, Staged, Starting, Clients, Servers, Watches, Homes, Disks, Lefts, Pc, LaunchPc, OpenPc, FlowPc, NanoPc, LocalPc, RemotePc, AfterPc, EndPc, proposerVars, run_deepseek_chat_proposer, post_deepseek_chat_completion_fails, Fault
<1>3. ServerInv'
  BY JobFacts DEF CodexInv, Types, PlaceInv, ServerInv, Early, Remote, Staged, Alive, OneShot, Clients, Servers, Watches, Homes, Disks, Lefts, Pc, LaunchPc, OpenPc, FlowPc, NanoPc, LocalPc, RemotePc, AfterPc, EndPc, proposerVars, run_deepseek_chat_proposer, post_deepseek_chat_completion_fails, Fault
<1>4. IdInv'
  BY EmptyFacts, AppendFacts, TailFacts DEF CodexInv, Types, IdInv, Clients, Servers, Watches, Homes, Disks, Lefts, Pc, LaunchPc, OpenPc, FlowPc, NanoPc, LocalPc, RemotePc, AfterPc, EndPc, proposerVars, run_deepseek_chat_proposer, post_deepseek_chat_completion_fails, Fault
<1>5. QuietInv'
  BY JobFacts, EmptyFacts, AppendFacts, TailFacts DEF CodexInv, Types, PlaceInv, ServerInv, Early, QuietInv, Quiet, DeferPc, Remote, Staged, Clients, Servers, Watches, Homes, Disks, Lefts, Pc, LaunchPc, OpenPc, FlowPc, NanoPc, LocalPc, RemotePc, AfterPc, EndPc, proposerVars, run_deepseek_chat_proposer, post_deepseek_chat_completion_fails, Fault
<1>6. FlowInv'
  BY DEF CodexInv, QuietInv, Quiet, run_deepseek_chat_proposer,
     post_deepseek_chat_completion_fails, FlowInv, FlowPc
<1>7. DiskInv'
  <2>1. /\ UNCHANGED <<job, ask, accepted>> /\ pc = "chat" /\ job.call = "chat" /\ job.sub = "local"
        /\ disk \in Disks(turns) /\ own = 0 /\ disk.latest = 0 /\ disk.orig = 0 /\ accepted = NoManifest
    BY JobFacts DEF CodexInv, Types, PlaceInv, DiskInv, Staged, LaunchPc, run_deepseek_chat_proposer
  <2>2. CASE UNCHANGED <<own, disk>>
    BY <2>1, <2>2 DEF DiskInv, Staged, Remote
  <2>3. CASE own' = turns + 1 /\ disk' = [disk EXCEPT !.orig = turns + 1, !.latest = turns + 1] /\ pc' = "returned"
    BY <2>1, <2>3 DEF Disks, DiskInv, Staged, Remote, LaunchPc, OpenPc
  <2> QED  BY <2>2, <2>3 DEF run_deepseek_chat_proposer, post_deepseek_chat_completion_fails
<1>8. HomeInv'
  BY JobFacts DEF CodexInv, Types, PlaceInv, ServerInv, Early, QuietInv, Quiet, HomeInv, Remote, Staged, Clients, Servers, Watches, Homes, Disks, Lefts, Pc, LaunchPc, OpenPc, FlowPc, NanoPc, LocalPc, RemotePc, AfterPc, EndPc, proposerVars, run_deepseek_chat_proposer, post_deepseek_chat_completion_fails, Fault
<1>9. LeftInv'
  BY JobFacts DEF CodexInv, Types, PlaceInv, ServerInv, Early, QuietInv, Quiet, LeftInv, Remote, Staged, Clients, Servers, Watches, Homes, Disks, Lefts, Pc, LaunchPc, OpenPc, FlowPc, NanoPc, LocalPc, RemotePc, AfterPc, EndPc, proposerVars, run_deepseek_chat_proposer, post_deepseek_chat_completion_fails, Fault
<1>10. ShownInv'
  BY DEF CodexInv, ShownInv, Pc, LaunchPc, OpenPc, FlowPc, NanoPc, LocalPc, RemotePc, AfterPc, EndPc, proposerVars, run_deepseek_chat_proposer, post_deepseek_chat_completion_fails, Fault
<1> QED  BY <1>1, <1>2, <1>3, <1>4, <1>5, <1>6, <1>7, <1>8, <1>9, <1>10 DEF CodexInv

LEMMA build_response_from_outcome_Keeps ==
    ASSUME CodexInv, build_response_from_outcome
    PROVE  CodexInv'
<1>1. Types'
  <2>1. pc' \in Pc
    BY JobFacts DEF CodexInv, Types, PlaceInv, Remote, Staged, Pc, LaunchPc, OpenPc, FlowPc, NanoPc, LocalPc, RemotePc, AfterPc, EndPc, build_response_from_outcome, proposals_from_manifest, ManifestUnreadable, Retry, Fault, TurnUnchanged, write_agent_artifacts, NoManifest
  <2>2. faults' \in 0..MaxFaults
    BY AgentTurnAssumption DEF CodexInv, Types, build_response_from_outcome, proposals_from_manifest, ManifestUnreadable, Retry, Fault, TurnUnchanged, write_agent_artifacts, NoManifest
  <2> QED  BY <2>1, <2>2 DEF CodexInv, Types, Disks, proposerVars, build_response_from_outcome, proposals_from_manifest, ManifestUnreadable, Retry, Fault, TurnUnchanged, write_agent_artifacts, NoManifest
<1>2. PlaceInv'
  BY JobFacts DEF CodexInv, Types, PlaceInv, Remote, Staged, Starting, Clients, Servers, Watches, Homes, Disks, Lefts, Pc, LaunchPc, OpenPc, FlowPc, NanoPc, LocalPc, RemotePc, AfterPc, EndPc, proposerVars, build_response_from_outcome, proposals_from_manifest, ManifestUnreadable, Retry, Fault, TurnUnchanged, write_agent_artifacts, NoManifest
<1>3. ServerInv'
  BY JobFacts DEF CodexInv, Types, PlaceInv, ServerInv, Early, Remote, Staged, Alive, OneShot, Clients, Servers, Watches, Homes, Disks, Lefts, Pc, LaunchPc, OpenPc, FlowPc, NanoPc, LocalPc, RemotePc, AfterPc, EndPc, proposerVars, build_response_from_outcome, proposals_from_manifest, ManifestUnreadable, Retry, Fault, TurnUnchanged, write_agent_artifacts, NoManifest
<1>4. IdInv'
  BY EmptyFacts, AppendFacts, TailFacts DEF CodexInv, Types, IdInv, Clients, Servers, Watches, Homes, Disks, Lefts, Pc, LaunchPc, OpenPc, FlowPc, NanoPc, LocalPc, RemotePc, AfterPc, EndPc, proposerVars, build_response_from_outcome, proposals_from_manifest, ManifestUnreadable, Retry, Fault, TurnUnchanged, write_agent_artifacts, NoManifest
<1>5. QuietInv'
  BY JobFacts, EmptyFacts, AppendFacts, TailFacts DEF CodexInv, Types, PlaceInv, ServerInv, Early, QuietInv, Quiet, DeferPc, Remote, Staged, Clients, Servers, Watches, Homes, Disks, Lefts, Pc, LaunchPc, OpenPc, FlowPc, NanoPc, LocalPc, RemotePc, AfterPc, EndPc, proposerVars, build_response_from_outcome, proposals_from_manifest, ManifestUnreadable, Retry, Fault, TurnUnchanged, write_agent_artifacts, NoManifest
<1>6. FlowInv'
  BY JobFacts DEF CodexInv, Types, PlaceInv, FlowInv, Remote, Staged, Clients, Servers, Watches, Homes, Disks, Lefts, Pc, LaunchPc, OpenPc, FlowPc, NanoPc, LocalPc, RemotePc, AfterPc, EndPc, proposerVars, build_response_from_outcome, proposals_from_manifest, ManifestUnreadable, Retry, Fault, TurnUnchanged, write_agent_artifacts, NoManifest
<1>7. DiskInv'
  BY JobFacts DEF CodexInv, Types, PlaceInv, ServerInv, Early, QuietInv, Quiet, FlowInv, DiskInv, Remote, Staged, Clients, Servers, Watches, Homes, Disks, Lefts, Pc, LaunchPc, OpenPc, FlowPc, NanoPc, LocalPc, RemotePc, AfterPc, EndPc, proposerVars, build_response_from_outcome, proposals_from_manifest, ManifestUnreadable, Retry, Fault, TurnUnchanged, write_agent_artifacts, NoManifest
<1>8. HomeInv'
  BY JobFacts DEF CodexInv, Types, PlaceInv, ServerInv, Early, QuietInv, Quiet, HomeInv, Remote, Staged, Clients, Servers, Watches, Homes, Disks, Lefts, Pc, LaunchPc, OpenPc, FlowPc, NanoPc, LocalPc, RemotePc, AfterPc, EndPc, proposerVars, build_response_from_outcome, proposals_from_manifest, ManifestUnreadable, Retry, Fault, TurnUnchanged, write_agent_artifacts, NoManifest
<1>9. LeftInv'
  BY JobFacts DEF CodexInv, Types, PlaceInv, ServerInv, Early, QuietInv, Quiet, LeftInv, Remote, Staged, Clients, Servers, Watches, Homes, Disks, Lefts, Pc, LaunchPc, OpenPc, FlowPc, NanoPc, LocalPc, RemotePc, AfterPc, EndPc, proposerVars, build_response_from_outcome, proposals_from_manifest, ManifestUnreadable, Retry, Fault, TurnUnchanged, write_agent_artifacts, NoManifest
<1>10. ShownInv'
  BY DEF CodexInv, ShownInv, Pc, LaunchPc, OpenPc, FlowPc, NanoPc, LocalPc, RemotePc, AfterPc, EndPc, proposerVars, build_response_from_outcome, proposals_from_manifest, ManifestUnreadable, Retry, Fault, TurnUnchanged, write_agent_artifacts, NoManifest
<1> QED  BY <1>1, <1>2, <1>3, <1>4, <1>5, <1>6, <1>7, <1>8, <1>9, <1>10 DEF CodexInv

LEMMA build_staleness_review_response_Keeps ==
    ASSUME CodexInv, build_staleness_review_response
    PROVE  CodexInv'
<1>1. Types'
  <2>1. pc' \in Pc
    BY JobFacts DEF CodexInv, Types, PlaceInv, Remote, Staged, Pc, LaunchPc, OpenPc, FlowPc, NanoPc, LocalPc, RemotePc, AfterPc, EndPc, build_staleness_review_response, VerdictRefused, Retry, Fault, TurnUnchanged, NoManifest
  <2>2. faults' \in 0..MaxFaults
    BY AgentTurnAssumption DEF CodexInv, Types, build_staleness_review_response, VerdictRefused, Retry, Fault, TurnUnchanged, NoManifest
  <2> QED  BY <2>1, <2>2 DEF CodexInv, Types, Disks, proposerVars, build_staleness_review_response, VerdictRefused, Retry, Fault, TurnUnchanged, NoManifest
<1>2. PlaceInv'
  BY JobFacts DEF CodexInv, Types, PlaceInv, Remote, Staged, Starting, Clients, Servers, Watches, Homes, Disks, Lefts, Pc, LaunchPc, OpenPc, FlowPc, NanoPc, LocalPc, RemotePc, AfterPc, EndPc, proposerVars, build_staleness_review_response, VerdictRefused, Retry, Fault, TurnUnchanged, NoManifest
<1>3. ServerInv'
  BY JobFacts DEF CodexInv, Types, PlaceInv, ServerInv, Early, Remote, Staged, Alive, OneShot, Clients, Servers, Watches, Homes, Disks, Lefts, Pc, LaunchPc, OpenPc, FlowPc, NanoPc, LocalPc, RemotePc, AfterPc, EndPc, proposerVars, build_staleness_review_response, VerdictRefused, Retry, Fault, TurnUnchanged, NoManifest
<1>4. IdInv'
  BY EmptyFacts, AppendFacts, TailFacts DEF CodexInv, Types, IdInv, Clients, Servers, Watches, Homes, Disks, Lefts, Pc, LaunchPc, OpenPc, FlowPc, NanoPc, LocalPc, RemotePc, AfterPc, EndPc, proposerVars, build_staleness_review_response, VerdictRefused, Retry, Fault, TurnUnchanged, NoManifest
<1>5. QuietInv'
  BY JobFacts, EmptyFacts, AppendFacts, TailFacts DEF CodexInv, Types, PlaceInv, ServerInv, Early, QuietInv, Quiet, DeferPc, Remote, Staged, Clients, Servers, Watches, Homes, Disks, Lefts, Pc, LaunchPc, OpenPc, FlowPc, NanoPc, LocalPc, RemotePc, AfterPc, EndPc, proposerVars, build_staleness_review_response, VerdictRefused, Retry, Fault, TurnUnchanged, NoManifest
<1>6. FlowInv'
  BY JobFacts DEF CodexInv, Types, PlaceInv, FlowInv, Remote, Staged, Clients, Servers, Watches, Homes, Disks, Lefts, Pc, LaunchPc, OpenPc, FlowPc, NanoPc, LocalPc, RemotePc, AfterPc, EndPc, proposerVars, build_staleness_review_response, VerdictRefused, Retry, Fault, TurnUnchanged, NoManifest
<1>7. DiskInv'
  BY JobFacts DEF CodexInv, Types, PlaceInv, ServerInv, Early, QuietInv, Quiet, FlowInv, DiskInv, Remote, Staged, Clients, Servers, Watches, Homes, Disks, Lefts, Pc, LaunchPc, OpenPc, FlowPc, NanoPc, LocalPc, RemotePc, AfterPc, EndPc, proposerVars, build_staleness_review_response, VerdictRefused, Retry, Fault, TurnUnchanged, NoManifest
<1>8. HomeInv'
  BY JobFacts DEF CodexInv, Types, PlaceInv, ServerInv, Early, QuietInv, Quiet, HomeInv, Remote, Staged, Clients, Servers, Watches, Homes, Disks, Lefts, Pc, LaunchPc, OpenPc, FlowPc, NanoPc, LocalPc, RemotePc, AfterPc, EndPc, proposerVars, build_staleness_review_response, VerdictRefused, Retry, Fault, TurnUnchanged, NoManifest
<1>9. LeftInv'
  BY JobFacts DEF CodexInv, Types, PlaceInv, ServerInv, Early, QuietInv, Quiet, LeftInv, Remote, Staged, Clients, Servers, Watches, Homes, Disks, Lefts, Pc, LaunchPc, OpenPc, FlowPc, NanoPc, LocalPc, RemotePc, AfterPc, EndPc, proposerVars, build_staleness_review_response, VerdictRefused, Retry, Fault, TurnUnchanged, NoManifest
<1>10. ShownInv'
  BY DEF CodexInv, ShownInv, Pc, LaunchPc, OpenPc, FlowPc, NanoPc, LocalPc, RemotePc, AfterPc, EndPc, proposerVars, build_staleness_review_response, VerdictRefused, Retry, Fault, TurnUnchanged, NoManifest
<1> QED  BY <1>1, <1>2, <1>3, <1>4, <1>5, <1>6, <1>7, <1>8, <1>9, <1>10 DEF CodexInv

LEMMA CallEnds_Keeps ==
    ASSUME CodexInv, CallEnds
    PROVE  CodexInv'
<1>1. Types'
  <2>1. pc' \in Pc
    BY JobFacts DEF CodexInv, Types, PlaceInv, Remote, Staged, Pc, LaunchPc, OpenPc, FlowPc, NanoPc, LocalPc, RemotePc, AfterPc, EndPc, CallEnds, Retry, TurnUnchanged
  <2> QED  BY <2>1 DEF CodexInv, Types, proposerVars, CallEnds, Retry, TurnUnchanged
<1>2. PlaceInv'
  BY JobFacts DEF CodexInv, Types, PlaceInv, Remote, Staged, Starting, Clients, Servers, Watches, Homes, Disks, Lefts, Pc, LaunchPc, OpenPc, FlowPc, NanoPc, LocalPc, RemotePc, AfterPc, EndPc, proposerVars, CallEnds, Retry, TurnUnchanged
<1>3. ServerInv'
  BY JobFacts DEF CodexInv, Types, PlaceInv, ServerInv, Early, Remote, Staged, Alive, OneShot, Clients, Servers, Watches, Homes, Disks, Lefts, Pc, LaunchPc, OpenPc, FlowPc, NanoPc, LocalPc, RemotePc, AfterPc, EndPc, proposerVars, CallEnds, Retry, TurnUnchanged
<1>4. IdInv'
  BY EmptyFacts, AppendFacts, TailFacts DEF CodexInv, Types, IdInv, Clients, Servers, Watches, Homes, Disks, Lefts, Pc, LaunchPc, OpenPc, FlowPc, NanoPc, LocalPc, RemotePc, AfterPc, EndPc, proposerVars, CallEnds, Retry, TurnUnchanged
<1>5. QuietInv'
  BY JobFacts, EmptyFacts, AppendFacts, TailFacts DEF CodexInv, Types, PlaceInv, ServerInv, Early, QuietInv, Quiet, DeferPc, Remote, Staged, Clients, Servers, Watches, Homes, Disks, Lefts, Pc, LaunchPc, OpenPc, FlowPc, NanoPc, LocalPc, RemotePc, AfterPc, EndPc, proposerVars, CallEnds, Retry, TurnUnchanged
<1>6. FlowInv'
  BY JobFacts DEF CodexInv, Types, PlaceInv, FlowInv, Remote, Staged, Clients, Servers, Watches, Homes, Disks, Lefts, Pc, LaunchPc, OpenPc, FlowPc, NanoPc, LocalPc, RemotePc, AfterPc, EndPc, proposerVars, CallEnds, Retry, TurnUnchanged
<1>7. DiskInv'
  BY JobFacts DEF CodexInv, Types, PlaceInv, ServerInv, Early, QuietInv, Quiet, FlowInv, DiskInv, Remote, Staged, Clients, Servers, Watches, Homes, Disks, Lefts, Pc, LaunchPc, OpenPc, FlowPc, NanoPc, LocalPc, RemotePc, AfterPc, EndPc, proposerVars, CallEnds, Retry, TurnUnchanged
<1>8. HomeInv'
  BY JobFacts DEF CodexInv, Types, PlaceInv, ServerInv, Early, QuietInv, Quiet, HomeInv, Remote, Staged, Clients, Servers, Watches, Homes, Disks, Lefts, Pc, LaunchPc, OpenPc, FlowPc, NanoPc, LocalPc, RemotePc, AfterPc, EndPc, proposerVars, CallEnds, Retry, TurnUnchanged
<1>9. LeftInv'
  BY JobFacts DEF CodexInv, Types, PlaceInv, ServerInv, Early, QuietInv, Quiet, LeftInv, Remote, Staged, Clients, Servers, Watches, Homes, Disks, Lefts, Pc, LaunchPc, OpenPc, FlowPc, NanoPc, LocalPc, RemotePc, AfterPc, EndPc, proposerVars, CallEnds, Retry, TurnUnchanged
<1>10. ShownInv'
  BY DEF CodexInv, ShownInv, Pc, LaunchPc, OpenPc, FlowPc, NanoPc, LocalPc, RemotePc, AfterPc, EndPc, proposerVars, CallEnds, Retry, TurnUnchanged
<1> QED  BY <1>1, <1>2, <1>3, <1>4, <1>5, <1>6, <1>7, <1>8, <1>9, <1>10 DEF CodexInv

-----------------------------------------------------------------------------
(* The theorems *)

LEMMA StartsSound == Init => CodexInv
<1> SUFFICES ASSUME Init PROVE CodexInv
  OBVIOUS
<1>1. /\ job \in Jobs /\ pc = "idle" /\ result = "none" /\ turns = 0 /\ own = 0 /\ got = 0 /\ seen = {}
      /\ client = NoClient /\ session = NoSession /\ srv = NoServer /\ chan = <<>> /\ wd = NoWatch
      /\ home = [source |-> 0, staged |-> Missing, latest |-> 0]
      /\ disk = [orig |-> 0, staged |-> 0, remote |-> 0, latest |-> 0]
      /\ left = [staging |-> FALSE, sandbox |-> FALSE, warned |-> FALSE, orphan |-> FALSE]
      /\ faults = 0 /\ attempt = 0 /\ accepted = NoManifest /\ shown = {}
  BY DEF Init
<1>2. /\ ask \in {"proposal", "review", "command"}
      /\ ask = "command" <=> job.call = "exec"
  BY <1>1, AgentTurnAssumption DEF Init
<1>3. 0 \in 0..0 /\ 0 \in Nat
  OBVIOUS
<1>4. home \in Homes(0) /\ disk \in Disks(0) /\ left \in Lefts
  BY <1>1, <1>3 DEF Homes, Disks, Lefts
<1>5. Types
  BY <1>1, NewTyped, EmptyFacts, AgentTurnAssumption, CodexProposerAssumption, <1>2, <1>4 DEF Init,
     Types, Pc, EndPc
<1>6. PlaceInv
  BY <1>1, <1>2, CodexProposerAssumption DEF PlaceInv, EndPc, NanoPc, FlowPc, LocalPc, RemotePc, AfterPc
<1>7. ServerInv
  BY <1>1 DEF ServerInv, NoWatch, Early, LaunchPc, OpenPc, FlowPc, LocalPc, AfterPc, EndPc
<1>8. client.next = 1 /\ client.wait = 0 /\ client.deferred = <<>> /\ client.buffer = <<>>
      /\ srv.resp = <<>> /\ srv.notes = <<>>
  BY <1>1 DEF NoClient, NoServer
<1>9. IdInv
  BY <1>1, <1>8, EmptyFacts DEF IdInv
<1>10. QuietInv
  BY <1>1, <1>8, EmptyFacts DEF AllNoted, QuietInv, Quiet
<1>11. FlowInv
  BY <1>1, <1>8 DEF FlowInv, FlowPc
<1>12. DiskInv
  BY <1>1 DEF DiskInv, LaunchPc, OpenPc, FlowPc, LocalPc
<1>13. HomeInv
  BY <1>1 DEF HomeInv, OpenPc, FlowPc, AfterPc
<1>14. LeftInv
  BY <1>1 DEF LeftInv, AfterPc
<1>15. ShownInv
  BY <1>1 DEF ShownInv
<1> QED  BY <1>5, <1>6, <1>7, <1>9, <1>10, <1>11, <1>12, <1>13, <1>14, <1>15 DEF CodexInv

LEMMA StepsSound == CodexInv /\ [Next]_vars => CodexInv'
<1> SUFFICES ASSUME CodexInv, [Next]_vars PROVE CodexInv'
  OBVIOUS
<1>1. CASE UNCHANGED vars
  BY <1>1 DEF vars, turnVars, proposerVars, CodexInv, Types, PlaceInv, ServerInv, IdInv, QuietInv, Quiet,
              FlowInv, DiskInv, HomeInv, LeftInv, ShownInv, Alive, Remote, Staged, OneShot
<1>2. CASE Server /\ UNCHANGED proposerVars
  BY <1>2, ServerResponds_Keeps, ServerReports_Keeps, ServerFails_Keeps DEF Server
<1>3. CASE CallerStep /\ UNCHANGED proposerVars
  BY <1>3, Stage_Keeps, prepare_proposer_codex_launch_Keeps, start_process_Keeps, Provision_Keeps,
     SendRequest_Keeps, ReadError_Keeps, wait_for_response_Keeps, wait_for_turn_started_Keeps,
     wait_for_turn_Keeps, Stall_Keeps, WindowEnds_Keeps, PollFails_Keeps,
     persist_refreshed_auth_home_Keeps, terminate_Keeps, JoinWatchdog_Keeps,
     sync_refreshed_codex_auth_Keeps, sync_output_files_Keeps, CloseSandbox_Keeps,
     sync_workspace_back_Keeps, cleanup_staged_workspace_Keeps,
     PoolRun_Keeps, record_turn_Keeps, RemoveSession_Keeps
     DEF CallerStep
<1>4. CASE (DeadlinePasses \/ WatchdogStep) /\ UNCHANGED proposerVars
  BY <1>4, DeadlinePasses_Keeps, WatchdogStep_Keeps
<1>5. CASE ProposerStep
  BY <1>5, materialize_workspace_Keeps, materialize_staleness_review_workspace_Keeps,
     run_command_exec_Keeps, run_deepseek_chat_proposer_Keeps, build_response_from_outcome_Keeps,
     build_staleness_review_response_Keeps, CallEnds_Keeps
     DEF ProposerStep
<1> QED  BY <1>1, <1>2, <1>3, <1>4, <1>5 DEF Next, TurnStep

\* The rows a workspace shows are made of visible frames and visible scores.
LEMMA RowsApart ==
    ASSUME NEW i \in Inputs, NEW r \in WorkspaceRows(i)
    PROVE  /\ r.stage # "heldout"
           /\ r.task \notin {f.task : f \in {g \in i.frames : g.split = "heldout"}}
           /\ i.pool # {} => r.task \in i.pool
<1>1. \/ r \in proposer_examples_read_model(i)
      \/ r \in reflective_frames_read_model(i)
  <2> DEFINE rows == proposer_examples_read_model(i)
  <2> SUFFICES ASSUME r \notin reflective_frames_read_model(i) PROVE r \in rows
    OBVIOUS
  <2>1. PICK v \in {proposer_failure_summary(rows), proposer_repair_hints(i, rows)} : r \in v.losses \cup v.wins
    BY DEF WorkspaceRows
  <2> HIDE DEF rows
  <2>2. \A s \in proposer_failure_summary(rows).losses \cup proposer_failure_summary(rows).wins : s \in rows
    BY DEF proposer_failure_summary
  <2>3. \A s \in proposer_repair_hints(i, rows).losses \cup proposer_repair_hints(i, rows).wins : s \in rows
    BY DEF proposer_repair_hints
  <2> QED  BY <2>1, <2>2, <2>3
<1>2. \E c \in DOMAIN i.train : r \in proposer_score_only_rows(i, c) \/ r \in proposer_example_rows(i, c)
  BY <1>1 DEF proposer_examples_read_model, reflective_frames_read_model
<1>3. PICK c \in DOMAIN i.train : r \in proposer_score_only_rows(i, c) \/ r \in proposer_example_rows(i, c)
  BY <1>2
<1>4. CASE r \in proposer_score_only_rows(i, c)
  <2>1. PICK s \in i.train[c] \cup i.mini[c] :
          /\ proposer_visible_task(i, s.task) /\ r.task = s.task
          /\ r.stage \in {"train_score", "minibatch_score"}
    <3>1. PICK s \in {x \in IF i.train[c] # {} THEN i.train[c] ELSE i.mini[c] : proposer_visible_task(i, x.task)} :
            r = [cand |-> c, stage |-> IF i.train[c] # {} THEN "train_score" ELSE "minibatch_score",
                 task |-> s.task, win |-> s.win]
      BY <1>4 DEF proposer_score_only_rows
    <3> QED  BY <3>1
  <2>2. ASSUME NEW g \in i.frames, g.split = "heldout" PROVE r.task # g.task
    BY <2>1, <2>2, HeldoutApart
  <2> QED  BY <2>1, <2>2 DEF proposer_visible_task
<1>5. CASE r \in proposer_example_rows(i, c)
  <2>1. PICK f \in i.frames : /\ proposer_visible_frame(i, f)
                              /\ r.task = f.task /\ r.stage = f.stage
    BY <1>5 DEF proposer_example_rows, VisibleFrames
  <2>2. ASSUME NEW g \in i.frames, g.split = "heldout" PROVE r.task # g.task
    BY <2>1, <2>2, HeldoutApart DEF proposer_visible_frame
  <2> QED  BY <2>1, <2>2 DEF proposer_visible_frame, proposer_visible_task
<1> QED  BY <1>3, <1>4, <1>5

LEMMA SoundImplies == CodexInv => CallLeavesNothing /\ WorkspaceSound
<1> SUFFICES ASSUME CodexInv PROVE CallLeavesNothing /\ WorkspaceSound
  OBVIOUS
<1>1. TypeOK
  BY DEF CodexInv, Types, TypeOK, Clients, Servers, Watches, Homes, Disks
<1>2. EndsClean
  BY JobFacts DEF CodexInv, Types, ServerInv, LeftInv, EndsClean, Remote, OpenPc, FlowPc, LocalPc, AfterPc
<1>3. AuthKept
  BY DEF CodexInv, HomeInv, AuthKept
<1>4. AcceptedIsFresh
  BY DEF CodexInv, DiskInv, AcceptedIsFresh
<1>5. WorkspaceWall
  BY RowsApart DEF CodexInv, Types, ShownInv, WorkspaceWall
<1> QED  BY <1>1, <1>2, <1>3, <1>4, <1>5 DEF CallLeavesNothing, WorkspaceSound

\* Only a wait that finds nothing to read ends as stalled.
LEMMA StalledIsStall ==
    ASSUME CodexInv, Next, pc = "turn_wait", result' = "stalled"
    PROVE  Stall
<1>1. result = "none"
  BY DEF CodexInv, ServerInv, Early, FlowPc
<1>2. CASE Server \/ DeadlinePasses \/ WatchdogStep
  BY <1>1, <1>2 DEF Server, ServerResponds, ServerReports, ServerFails, DeadlinePasses, WatchdogStep
<1>3. CASE CallerStep
  <2>1. ~ReadError /\ ~WindowEnds /\ ~PollFails
    BY DEF ReadError, WindowEnds, PollFails, Fail
  <2>2. ~wait_for_turn /\ ~wait_for_turn_started /\ ~wait_for_response
    BY <1>1 DEF wait_for_turn, wait_for_turn_started, wait_for_response
  <2>3. ~SendRequest /\ ~Stage /\ ~prepare_proposer_codex_launch /\ ~start_process /\ ~Provision
    BY DEF SendRequest, Requests, Stage, prepare_proposer_codex_launch, start_process, Provision
  <2>4. /\ ~persist_refreshed_auth_home /\ ~terminate /\ ~JoinWatchdog /\ ~sync_refreshed_codex_auth
        /\ ~sync_output_files /\ ~CloseSandbox /\ ~sync_workspace_back /\ ~cleanup_staged_workspace
    BY DEF persist_refreshed_auth_home, terminate, JoinWatchdog, sync_refreshed_codex_auth,
           sync_output_files, CloseSandbox, sync_workspace_back, cleanup_staged_workspace
  <2>5. ~PoolRun /\ ~record_turn /\ ~RemoveSession
    BY DEF PoolRun, record_turn, RemoveSession
  <2> QED  BY <1>3, <2>1, <2>2, <2>3, <2>4, <2>5 DEF CallerStep
<1>4. CASE ProposerStep
  BY <1>4 DEF ProposerStep, materialize_workspace, materialize_staleness_review_workspace, run_command_exec,
     run_deepseek_chat_proposer, build_response_from_outcome, build_staleness_review_response, CallEnds
<1> QED  BY <1>2, <1>3, <1>4 DEF Next, TurnStep

LEMMA OutcomeStep ==
    CodexInv /\ CodexInv' /\ [Next]_vars =>
        [/\ got' # 0 => got' = own'
         /\ (pc = "turn_wait" /\ result' = "stalled" /\ ~Remote) => own \notin seen]_vars
<1> SUFFICES ASSUME CodexInv, CodexInv', Next
             PROVE  /\ got' # 0 => got' = own'
                    /\ (pc = "turn_wait" /\ result' = "stalled" /\ ~Remote) => own \notin seen
  OBVIOUS
<1>1. got' # 0 => got' = own'
  BY DEF CodexInv, FlowInv
<1>2. ASSUME pc = "turn_wait", result' = "stalled", ~Remote PROVE own \notin seen
  BY <1>2, StalledIsStall, EmptyFacts DEF Stall, Available, CodexInv, QuietInv, DeferPc, FlowInv,
     FlowPc
<1> QED  BY <1>1, <1>2

\* Whatever the jobs, the faults and the evidence, the server of a one-shot
\* call is dead when it returns, nothing staged is left behind unnoticed, and
\* a rotated refresh token is not thrown away.
THEOREM CodexCallLeavesNothing == Spec => []CallLeavesNothing
  BY StartsSound, StepsSound, SoundImplies, PTL DEF Spec

\* The manifest accepted is the one this attempt's turn wrote, and no proposer
\* is shown a rollout of a heldout task or of a task outside its pool.
THEOREM CodexWorkspaceSound == Spec => []WorkspaceSound
  BY StartsSound, StepsSound, SoundImplies, PTL DEF Spec

\* A terminal message accepted is of the turn the server started for the call,
\* and a wait on this host does not give up on a turn whose end has been sent.
THEOREM CodexOutcomeIsItsOwn == Spec => OutcomeIsItsOwn
  BY StartsSound, StepsSound, OutcomeStep, PTL DEF Spec, OutcomeIsItsOwn
=============================================================================
