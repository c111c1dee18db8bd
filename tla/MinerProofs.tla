----------------------------- MODULE MinerProofs -----------------------------
(***************************************************************************)
(* Theorems about the miner program, for any number of sessions, jobs,     *)
(* addresses and lines in flight, and any length of the queue.             *)
(***************************************************************************)
EXTENDS Miner, NaturalFacts, FiniteSetTheorems, SequenceTheorems, TLAPS

-----------------------------------------------------------------------------
(* Facts about lines and sequences of them.                                *)
LEMMA LineMembers ==
  ASSUME NEW l \in Lines
  PROVE  /\ l.kind = "subscribed" => l.session \in Sessions
         /\ l.kind = "difficulty" => l.diff \in Difficulties
         /\ l.kind = "notify" => l.job \in Jobs /\ l.job.session \in Sessions
  BY DEF Lines, Jobs

LEMMA NoLine == <<>> \in Seq(Lines) /\ DOMAIN <<>> = {}
  OBVIOUS

LEMMA Part ==
  ASSUME NEW w \in Seq(Lines), NEW m \in Nat \ {0}, NEW n \in Nat, n <= Len(w)
  PROVE  /\ SubSeq(w, m, n) \in Seq(Lines)
         /\ \A i \in DOMAIN SubSeq(w, m, n) :
              m + i - 1 \in DOMAIN w /\ SubSeq(w, m, n)[i] = w[m + i - 1]
  <1>1. Len(w) \in Nat /\ DOMAIN w = 1 .. Len(w) /\ \A i \in 1 .. Len(w) : w[i] \in Lines
    OBVIOUS
  <1>2. \A i \in m .. n : w[i] \in Lines
    BY <1>1
  <1>3. /\ SubSeq(w, m, n) \in Seq(Lines)
        /\ Len(SubSeq(w, m, n)) = IF m <= n THEN n - m + 1 ELSE 0
        /\ \A i \in 1 .. n - m + 1 : SubSeq(w, m, n)[i] = w[m + i - 1]
    BY <1>2, SubSeqProperties
  <1>4. DOMAIN SubSeq(w, m, n) = 1 .. Len(SubSeq(w, m, n))
    BY <1>3
  <1>5. \A i \in DOMAIN SubSeq(w, m, n) : i \in 1 .. n - m + 1 /\ m + i - 1 \in 1 .. Len(w)
    BY <1>1, <1>3, <1>4
  <1> QED
    BY <1>1, <1>3, <1>5

(* What is left of a wire whose first line has been received in part.      *)
LEMMA Behind ==
  ASSUME NEW rest \in Seq(Lines)
  PROVE  /\ Fragment \in Lines /\ <<Fragment>> \o rest \in Seq(Lines)
         /\ 1 \in DOMAIN (<<Fragment>> \o rest) /\ (<<Fragment>> \o rest)[1] = Fragment
         /\ \A i \in DOMAIN (<<Fragment>> \o rest) \ {1} :
              \E j \in DOMAIN rest : (<<Fragment>> \o rest)[i] = rest[j]
  <1>1. Fragment \in Lines
    BY DEF Fragment, Lines
  <1> HIDE DEF Fragment
  <1> DEFINE cut == <<Fragment>> \o rest
  <1>2. Len(rest) \in Nat /\ DOMAIN rest = 1 .. Len(rest)
    OBVIOUS
  <1>3. <<Fragment>> \in Seq(Lines) /\ Len(<<Fragment>>) = 1 /\ <<Fragment>>[1] = Fragment
    BY <1>1
  <1>4. /\ cut \in Seq(Lines) /\ Len(cut) = 1 + Len(rest)
        /\ \A i \in 1 .. 1 + Len(rest) : cut[i] = IF i <= 1 THEN <<Fragment>>[i] ELSE rest[i - 1]
    BY <1>3, ConcatProperties
  <1>5. DOMAIN cut = 1 .. 1 + Len(rest)
    BY <1>4
  <1> HIDE DEF cut
  <1>6. 1 \in DOMAIN cut /\ cut[1] = Fragment
    BY <1>2, <1>3, <1>4, <1>5
  <1>7. ASSUME NEW i \in DOMAIN cut \ {1}
        PROVE  \E j \in DOMAIN rest : cut[i] = rest[j]
    <2>1. i \in Nat /\ i > 1 /\ i - 1 \in DOMAIN rest
      BY <1>2, <1>5
    <2>2. cut[i] = rest[i - 1]
      BY <1>4, <1>5, <2>1
    <2> QED
      BY <2>1, <2>2
  <1> QED
    BY <1>1, <1>4, <1>6, <1>7 DEF cut

LEMMA Appended ==
  ASSUME NEW w \in Seq(Lines), NEW l \in Lines
  PROVE  /\ Append(w, l) \in Seq(Lines)
         /\ \A i \in DOMAIN Append(w, l) : Append(w, l)[i] = l \/ (i \in DOMAIN w /\ Append(w, l)[i] = w[i])
  <1>1. Append(w, l) \in Seq(Lines) /\ DOMAIN Append(w, l) = 1 .. Len(w) + 1 /\ Len(w) \in Nat
        /\ DOMAIN w = 1 .. Len(w)
    OBVIOUS
  <1> QED
    BY <1>1

LEMMA Unpacked ==
  ASSUME NEW lines \in Seq(Lines), NEW kind, NEW n, n = UnpackReq(lines, kind), n # 0
  PROVE  n \in DOMAIN lines /\ lines[n].kind = kind
  <1> DEFINE found == {i \in DOMAIN lines : lines[i].kind = kind}
  <1>1. found \subseteq Nat
    OBVIOUS
  <1>2. found # {} => \E i \in found : \A m \in found : i <= m
    BY <1>1, LeastNat
  <1>3. UnpackReq(lines, kind) =
          IF found = {} THEN 0 ELSE CHOOSE i \in found : \A m \in found : i <= m
    BY DEF UnpackReq
  <1> HIDE DEF found
  <1>4. n \in found
    BY <1>2, <1>3
  <1> QED
    BY <1>4 DEF found

-----------------------------------------------------------------------------
(* The steps of the program, one by one.                                   *)
LEMMA StepCases ==
  ASSUME [Next]_vars
  PROVE  \/ /\ UNCHANGED mainVars
            /\ \/ BeginConnect \/ AddressFails \/ AddressConnects \/ SendSubscribe
               \/ ConnectReturns \/ TxPool \/ RxLines \/ RxPart \/ RxError \/ RxClosed
               \/ ResConnectNonce \/ ResConnectDiff \/ ResConnectJob
               \/ AuthenticateReturns \/ Reconnect \/ Ignore \/ ResJobDiff \/ ResJob \/ Publish
         \/ PollNothing \/ PollFull \/ PollWork \/ Copy \/ Clear
         \/ UNCHANGED <<clientVars, mainVars>> /\ PoolStep
         \/ UNCHANGED vars
  BY DEF Next, Client, ClientStep, Main, MainStep, Pool

(* What only the connection thread writes.                                 *)
threadVars == <<alive, eState, at, connectVars, buf, partial, sessions, currentWork>>

(* What the main thread writes of the client's.                            *)
LEMMA MainWrites ==
  ASSUME MainStep
  PROVE  UNCHANGED <<threadVars, sock>> /\ (workReady' = workReady \/ workReady' = FALSE)
  BY DEF MainStep, PollNothing, PollFull, PollWork, Copy, Clear, clientVars, rxVars, sharedVars, threadVars

LEMMA Threads ==
  ASSUME [Next]_vars
  PROVE  \/ ClientStep /\ UNCHANGED mainVars
         \/ MainStep /\ UNCHANGED <<threadVars, sock>> /\ (workReady' = workReady \/ workReady' = FALSE)
         \/ PoolStep /\ UNCHANGED <<threadVars, workReady, mainVars>>
         \/ UNCHANGED vars
  BY MainWrites DEF Next, Client, Main, Pool, clientVars, rxVars, sharedVars, threadVars

-----------------------------------------------------------------------------
(* The pool's side of the connection.                                      *)
SockTyped(s) ==
  s \in [link : {"unconnected", "up", "closed", "reset", "down"},
        session : Sessions \cup {0},
        pending : SUBSET Requests, got : SUBSET Requests,
        diff : Difficulties \cup {0}, jobs : 0 .. MaxJobs,
        wire : Seq(Lines)]

Sound(s) ==
  /\ SockTyped(s)
  /\ s.link = "up" => s.session # 0
  /\ s.link \in {"reset", "down"} => s.wire = <<>>
  /\ s.pending \subseteq s.got
  /\ s.got = {} => s.wire = <<>>
  /\ \A i \in DOMAIN s.wire : /\ s.wire[i].kind = "subscribed" => s.wire[i].session = s.session
                              /\ s.wire[i].kind = "notify" => s.wire[i].job.session = s.session

LEMMA SockParts == SockTypeOK /\ SockInv <=> Sound(sock)
  BY DEF SockTypeOK, SockInv, Sound, SockTyped, OfSession

LEMMA FreshSound ==
  ASSUME NEW link \in {"unconnected", "up"}, NEW session \in Sessions \cup {0},
         link = "up" => session # 0
  PROVE  Sound(FreshSock(link, session))
  BY NoLine, WorkAssumption DEF FreshSock, Sound, SockTyped

LEMMA RequestSound ==
  ASSUME Sound(sock), NEW r \in Requests, Request(r)
  PROVE  Sound(sock') /\ sock'.got = sock.got \cup {r} /\ sock'.session = sock.session
         /\ sock'.link = sock.link /\ sock'.wire = sock.wire
  BY DEF Sound, SockTyped, Request

(* A line of this session on a wire that was asked for.                    *)
LEMMA LineSound ==
  ASSUME Sound(sock), sock.got # {}, sock.link = "up", NEW l \in Lines,
         l.kind = "subscribed" => l.session = sock.session,
         l.kind = "notify" => l.job.session = sock.session
  PROVE  Sound(Line(l)) /\ Line(l) = [sock EXCEPT !.wire = Line(l).wire]
  <1>1. sock.wire \in Seq(Lines)
    BY DEF Sound, SockTyped
  <1>2. Append(sock.wire, l) \in Seq(Lines)
    BY <1>1, Appended
  <1>3. \A i \in DOMAIN Append(sock.wire, l) :
          Append(sock.wire, l)[i] = l \/ (i \in DOMAIN sock.wire /\ Append(sock.wire, l)[i] = sock.wire[i])
    BY <1>1, Appended
  <1>4. Line(l) = [sock EXCEPT !.wire = Append(sock.wire, l)]
    BY DEF Line
  <1>5. Line(l).wire = Append(sock.wire, l)
    BY <1>4 DEF Sound, SockTyped
  <1>6. SockTyped(Line(l)) /\ Line(l).got = sock.got /\ Line(l).pending = sock.pending
        /\ Line(l).session = sock.session /\ Line(l).link = sock.link
    BY <1>2, <1>4 DEF Sound, SockTyped
  <1> QED
    BY <1>3, <1>4, <1>5, <1>6 DEF Sound

LEMMA PoolSound ==
  ASSUME Sound(sock), PoolStep
  PROVE  /\ Sound(sock') /\ sock'.got = sock.got /\ sock'.session = sock.session
         /\ sock'.link = "unconnected" <=> sock.link = "unconnected"
  <1> DEFINE Goal == /\ Sound(sock') /\ sock'.got = sock.got /\ sock'.session = sock.session
                     /\ sock'.link = "unconnected" <=> sock.link = "unconnected"
  <1>1. /\ sock.link = "up" => sock.session \in Sessions
        /\ sock.diff \in Difficulties \cup {0} /\ sock.jobs \in 0 .. MaxJobs
    BY DEF Sound, SockTyped
  <1>2. ASSUME NEW l \in Lines, NEW diff \in Difficulties \cup {0}, NEW jobs \in 0 .. MaxJobs,
               NEW pending, pending \subseteq sock.pending,
               sock.got # {}, sock.link = "up",
               l.kind = "subscribed" => l.session = sock.session,
               l.kind = "notify" => l.job.session = sock.session,
               sock' = [Line(l) EXCEPT !.pending = pending, !.diff = diff, !.jobs = jobs]
        PROVE  Goal
    <2>1. Sound(Line(l)) /\ Line(l) = [sock EXCEPT !.wire = Line(l).wire]
      BY <1>2, LineSound
    <2>2. SockTyped(Line(l)) /\ Line(l).got = sock.got /\ Line(l).session = sock.session
          /\ Line(l).pending = sock.pending /\ Line(l).link = sock.link
      BY <2>1 DEF Sound, SockTyped
    <2>3. SockTyped(sock') /\ sock'.wire = Line(l).wire /\ sock'.pending = pending
          /\ sock'.got = Line(l).got /\ sock'.session = Line(l).session /\ sock'.link = Line(l).link
      BY <1>2, <2>2 DEF SockTyped
    <2> QED
      BY <1>2, <2>1, <2>2, <2>3 DEF Sound
  <1>3. CASE AnswerSubscribe
    <2> DEFINE l == [kind |-> "subscribed", session |-> sock.session]
    <2>1. l \in Lines /\ sock.got # {} /\ sock.link = "up" /\ SockTyped(Line(l))
      <3>1. l \in Lines /\ sock.got # {} /\ sock.link = "up"
        BY <1>1, <1>3 DEF AnswerSubscribe, CanSend, Lines, Sound
      <3> QED
        BY <3>1, LineSound DEF Sound
    <2>2. sock' = [Line(l) EXCEPT !.pending = sock.pending \ {"subscribe"}, !.diff = sock.diff,
                                  !.jobs = sock.jobs]
      BY <1>3, <2>1 DEF AnswerSubscribe, Line, SockTyped, Sound
    <2>3. l.kind = "subscribed" /\ l.session = sock.session
      OBVIOUS
    <2>4. l.kind # "notify" /\ sock.pending \ {"subscribe"} \subseteq sock.pending
      OBVIOUS
    <2> HIDE DEF l
    <2> QED
      BY <1>1, <1>2, <2>1, <2>2, <2>3, <2>4
  <1>4. CASE AnswerAuthorize
    <2> DEFINE l == [kind |-> "authorized"]
    <2>1. l \in Lines /\ sock.got # {} /\ sock.link = "up"
      BY <1>4 DEF AnswerAuthorize, CanSend, Lines, Sound
    <2>2. sock' = [Line(l) EXCEPT !.pending = sock.pending \ {"authorize"}, !.diff = sock.diff,
                                  !.jobs = sock.jobs]
      BY <1>4, <2>1 DEF AnswerAuthorize, Line, SockTyped, Sound
    <2>3. l.kind # "subscribed" /\ l.kind # "notify"
          /\ sock.pending \ {"authorize"} \subseteq sock.pending
      OBVIOUS
    <2> HIDE DEF l
    <2> QED
      BY <1>1, <1>2, <2>1, <2>2, <2>3
  <1>5. CASE Announce
    <2>1. PICK d \in Difficulties :
            sock' = [Line([kind |-> "difficulty", diff |-> d]) EXCEPT !.diff = d]
      BY <1>5 DEF Announce
    <2> DEFINE l == [kind |-> "difficulty", diff |-> d]
    <2>2. l \in Lines /\ sock.got # {} /\ sock.link = "up"
      BY <1>5 DEF Announce, CanSend, Subscribed, Lines
    <2>3. sock' = [Line(l) EXCEPT !.pending = sock.pending, !.diff = d, !.jobs = sock.jobs]
      BY <2>1, <2>2 DEF Line, SockTyped, Sound
    <2>4. l.kind = "difficulty"
      OBVIOUS
    <2> HIDE DEF l
    <2> QED
      BY <1>1, <1>2, <2>2, <2>3, <2>4
  <1>6. CASE Notify
    <2> DEFINE job == [session |-> sock.session, number |-> sock.jobs + 1]
               l   == [kind |-> "notify", job |-> job]
    <2>1. sock.jobs + 1 \in 1 .. MaxJobs
      BY <1>6, WorkAssumption DEF Notify, Sound, SockTyped
    <2>2. job \in Jobs /\ sock.got # {} /\ sock.link = "up"
      BY <1>1, <1>6, <2>1 DEF Notify, CanSend, Subscribed, Jobs
    <2>3. l \in Lines
      BY <2>2 DEF Lines
    <2>4. sock' = [Line(l) EXCEPT !.pending = sock.pending, !.diff = sock.diff,
                                  !.jobs = sock.jobs + 1]
      BY <1>6, <2>1 DEF Notify, Line, SockTyped, Sound
    <2>5. l.kind = "notify" /\ l.job.session = sock.session /\ sock.jobs + 1 \in 0 .. MaxJobs
      BY <1>1, <2>1
    <2> HIDE DEF l
    <2> QED
      BY <1>1, <1>2, <2>2, <2>3, <2>4, <2>5
  <1>7. CASE Close \/ Reset
    BY <1>7, NoLine DEF Close, Reset, Sound, SockTyped
  <1> QED
    BY <1>3, <1>4, <1>5, <1>6, <1>7 DEF PoolStep

-----------------------------------------------------------------------------
(* The client's side of the connection.                                    *)
SameSession == sock'.got = sock.got /\ sock'.session = sock.session

(* Behind its first line a wire loses nothing but what is received of it.  *)
LeftOf(rest) ==
  \A i \in DOMAIN rest : rest[i] = Fragment \/ \E j \in DOMAIN sock.wire \ {1} : rest[i] = sock.wire[j]

LEMMA ReceiveSound ==
  ASSUME Sound(sock), sock.wire # <<>>, NEW rest \in Seq(Lines), LeftOf(rest),
         sock' = [sock EXCEPT !.wire = rest], sock.link \notin {"reset", "down"}
  PROVE  Sound(sock') /\ SameSession /\ sock'.link = sock.link
         /\ sock'.wire = rest /\ sock'.pending = sock.pending
  <1>1. /\ SockTyped(sock') /\ sock'.wire = rest /\ sock'.pending = sock.pending
        /\ sock'.got = sock.got /\ sock'.session = sock.session /\ sock'.link = sock.link
    BY DEF Sound, SockTyped
  <1>2. sock.got # {}
    BY DEF Sound
  <1>3. Fragment.kind = "fragment"
    BY DEF Fragment
  <1>4. \A i \in DOMAIN rest :
          /\ rest[i].kind = "subscribed" => rest[i].session = sock.session
          /\ rest[i].kind = "notify" => rest[i].job.session = sock.session
    BY <1>3 DEF Sound, LeftOf
  <1> QED
    BY <1>1, <1>2, <1>4 DEF Sound, SameSession

(* What one recv of whole lines takes and leaves, cut or not.              *)
LEMMA Reads ==
  ASSUME Sound(sock), RxLines
  PROVE  \E lines, rest \in Seq(Lines) :
           /\ Receive(lines, rest) /\ LeftOf(rest)
           /\ 1 \in DOMAIN lines /\ \A i \in DOMAIN lines : i \in DOMAIN sock.wire /\ lines[i] = sock.wire[i]
  <1> DEFINE w == sock.wire
             first(k) == SubSeq(w, 1, k)
             after(k) == SubSeq(w, k + 1, Len(w))
             Begins(lines) == /\ lines \in Seq(Lines) /\ 1 \in DOMAIN lines
                              /\ \A i \in DOMAIN lines : i \in DOMAIN w /\ lines[i] = w[i]
  <1>1. w \in Seq(Lines) /\ Len(w) \in Nat /\ DOMAIN w = 1 .. Len(w)
    BY DEF Sound, SockTyped
  <1>2. ASSUME NEW k \in 1 .. Len(w) PROVE Begins(first(k))
    <2>1. k \in Nat /\ k <= Len(w) /\ 1 \in Nat \ {0} /\ 1 <= k
      BY <1>1
    <2>2. /\ first(k) \in Seq(Lines) /\ Len(first(k)) = k
          /\ \A i \in DOMAIN first(k) : 1 + i - 1 \in DOMAIN w /\ first(k)[i] = w[1 + i - 1]
      BY <1>1, <2>1, Part
    <2> HIDE DEF first
    <2>3. DOMAIN first(k) = 1 .. k /\ \A i \in DOMAIN first(k) : 1 + i - 1 = i
      BY <2>1, <2>2
    <2> QED
      BY <2>1, <2>2, <2>3
  <1>3. ASSUME NEW k \in 1 .. Len(w) PROVE after(k) \in Seq(Lines) /\ LeftOf(after(k))
    <2>1. k + 1 \in Nat \ {0} /\ Len(w) <= Len(w)
      BY <1>1
    <2>2. /\ after(k) \in Seq(Lines)
          /\ \A i \in DOMAIN after(k) : k + 1 + i - 1 \in DOMAIN w /\ after(k)[i] = w[k + 1 + i - 1]
      BY <1>1, <2>1, Part
    <2> HIDE DEF after
    <2>3. \A i \in DOMAIN after(k) : i \in Nat \ {0} /\ k + 1 + i - 1 # 1
      BY <1>1, <2>2
    <2> QED
      BY <2>2, <2>3 DEF LeftOf
  <1>4. ASSUME NEW k \in 1 .. Len(w)
        PROVE  <<Fragment>> \o after(k) \in Seq(Lines) /\ LeftOf(<<Fragment>> \o after(k))
    <2>1. after(k) \in Seq(Lines) /\ LeftOf(after(k))
      BY <1>3
    <2> HIDE DEF after
    <2> QED
      BY <2>1, Behind DEF LeftOf
  <1>5. PICK n \in 1 .. Len(w) :
          \/ Receive(first(n), after(n))
          \/ n < Len(w) /\ \E parsed \in {n, n + 1} : Receive(first(parsed), <<Fragment>> \o after(n + 1))
    BY <1>1 DEF RxLines
  <1> HIDE DEF first, after
  <1>6. CASE Receive(first(n), after(n))
    BY <1>2, <1>3, <1>6
  <1>7. ASSUME n < Len(w), NEW parsed \in {n, n + 1},
               Receive(first(parsed), <<Fragment>> \o after(n + 1))
        PROVE  \E lines, rest \in Seq(Lines) : Receive(lines, rest) /\ LeftOf(rest) /\ Begins(lines)
    <2>1. n + 1 \in 1 .. Len(w) /\ parsed \in 1 .. Len(w)
      BY <1>1, <1>7
    <2> QED
      BY <1>2, <1>4, <1>7, <2>1
  <1> QED
    BY <1>5, <1>6, <1>7

LEMMA RxLinesReads ==
  ASSUME Sound(sock), RxLines
  PROVE  /\ Sound(sock') /\ SameSession /\ sock'.link = sock.link /\ sock.got # {}
         /\ buf' \in Seq(Lines) /\ \A i \in DOMAIN buf' : OfSession(buf'[i])
         /\ at' = "decode" /\ ~partial' /\ sock.link \notin {"reset", "down"}
  <1>1. sock.wire \in Seq(Lines) /\ sock.wire # <<>> /\ sock.got # {}
        /\ sock.link \notin {"reset", "down"}
    BY DEF RxLines, Sound, SockTyped
  <1>2. \A j \in DOMAIN sock.wire : OfSession(sock.wire[j])
    BY DEF Sound, OfSession
  <1>3. PICK lines \in Seq(Lines), rest \in Seq(Lines) :
          /\ Receive(lines, rest) /\ LeftOf(rest)
          /\ \A i \in DOMAIN lines : i \in DOMAIN sock.wire /\ lines[i] = sock.wire[i]
    BY Reads
  <1>4. buf' = lines /\ sock' = [sock EXCEPT !.wire = rest] /\ at' = "decode" /\ ~partial'
    BY <1>3 DEF Receive, Goto
  <1>5. Sound(sock') /\ SameSession /\ sock'.link = sock.link
    BY <1>1, <1>3, <1>4, ReceiveSound
  <1> QED
    BY <1>1, <1>2, <1>3, <1>4, <1>5

(* A part of a line is taken: its rest is no line of any session.          *)
LEMMA RxPartReads ==
  ASSUME Sound(sock), RxPart
  PROVE  /\ Sound(sock') /\ SameSession /\ sock'.link = sock.link
         /\ sock.link \notin {"reset", "down"} /\ sock.got # {}
         /\ sock'.pending = sock.pending /\ sock'.wire \in Seq(Lines) /\ LeftOf(sock'.wire)
         /\ 1 \in DOMAIN sock'.wire /\ sock'.wire[1] = Fragment
         /\ \A i \in DOMAIN sock'.wire \ {1} :
              \E j \in DOMAIN sock.wire \ {1} : sock'.wire[i] = sock.wire[j]
  <1> DEFINE w == sock.wire
             cut == <<Fragment>> \o Tail(w)
  <1>1. w \in Seq(Lines) /\ w # <<>> /\ sock.got # {} /\ sock.link \notin {"reset", "down"}
        /\ Len(w) \in Nat \ {0} /\ DOMAIN w = 1 .. Len(w)
    BY DEF RxPart, Sound, SockTyped
  <1>2. sock' = [sock EXCEPT !.wire = cut]
    BY DEF RxPart, Sound, SockTyped
  <1>3. /\ Tail(w) \in Seq(Lines) /\ DOMAIN Tail(w) = 1 .. Len(w) - 1
        /\ \A j \in 1 .. Len(w) - 1 : Tail(w)[j] = w[j + 1] /\ j + 1 \in DOMAIN w \ {1}
    BY <1>1
  <1>4. /\ cut \in Seq(Lines) /\ 1 \in DOMAIN cut /\ cut[1] = Fragment
        /\ \A i \in DOMAIN cut \ {1} : \E j \in DOMAIN Tail(w) : cut[i] = Tail(w)[j]
    BY <1>3, Behind
  <1> HIDE DEF cut
  <1>5. \A i \in DOMAIN cut \ {1} : \E j \in DOMAIN w \ {1} : cut[i] = w[j]
    BY <1>3, <1>4
  <1>6. LeftOf(cut)
    BY <1>4, <1>5 DEF LeftOf
  <1>7. Sound(sock') /\ SameSession /\ sock'.link = sock.link /\ sock'.wire = cut
        /\ sock'.pending = sock.pending
    BY <1>1, <1>2, <1>4, <1>6, ReceiveSound
  <1> QED
    BY <1>1, <1>4, <1>5, <1>6, <1>7

LEMMA AddressConnectsSound ==
  ASSUME ClientTypeOK, AddressConnects
  PROVE  /\ Sound(sock') /\ sock'.got = {} /\ sock'.session = sessions' /\ sock'.link = "up"
         /\ sessions' \in Sessions
  <1>1. sessions' \in Sessions
    BY WorkAssumption DEF ClientTypeOK, AddressConnects, Sessions
  <1>2. sock' = FreshSock("up", sessions')
    BY DEF AddressConnects
  <1>3. sessions' # 0
    BY <1>1, WorkAssumption DEF Sessions
  <1> QED
    BY <1>1, <1>2, <1>3, FreshSound DEF FreshSock

LEMMA AddressFailsSound ==
  ASSUME AddressFails
  PROVE  Sound(sock') /\ sock'.link = "unconnected"
  BY FreshSound DEF AddressFails, FreshSock

LEMMA SendSound ==
  ASSUME Sound(sock), SendSubscribe \/ TxPool
  PROVE  Sound(sock')
  BY RequestSound DEF SendSubscribe, TxPool, Requests, StartRx

LEMMA RxErrorSound ==
  ASSUME Sound(sock), RxError
  PROVE  Sound(sock') /\ SameSession /\ sock'.link = "down" /\ sock'.wire = <<>>
         /\ sock'.pending = sock.pending
  BY DEF RxError, Sound, SockTyped, SameSession

(* The steps of the client that leave the connection alone.                *)
LEMMA SockWriters ==
  ASSUME ClientStep
  PROVE  \/ AddressFails \/ AddressConnects \/ SendSubscribe \/ TxPool \/ RxLines \/ RxPart
         \/ RxError \/ UNCHANGED sock
  BY DEF ClientStep, BeginConnect, ConnectReturns, RxClosed, ResConnectNonce, ResConnectDiff,
       ResConnectJob, AuthenticateReturns, Reconnect, Ignore, ResJobDiff, ResJob, Publish

LEMMA SoundStep ==
  ASSUME ClientTypeOK, Sound(sock), [Next]_vars
  PROVE  Sound(sock')
  <1>1. CASE ClientStep
    BY <1>1, SockWriters, AddressConnectsSound, AddressFailsSound, SendSound, RxLinesReads,
       RxPartReads, RxErrorSound
  <1>2. CASE PoolStep
    BY <1>2, PoolSound
  <1>3. CASE UNCHANGED sock
    BY <1>3
  <1> QED
    BY <1>1, <1>2, <1>3, Threads DEF vars

-----------------------------------------------------------------------------
(* The types of the client.                                                *)
ControlType ==
  /\ alive \in BOOLEAN /\ sent \in BOOLEAN /\ workReady \in BOOLEAN
  /\ eState \in eSTRATUM_States /\ at \in Places
  /\ eRetVal \in {"CNX_FAIL", "CNX_SUCCESS"} /\ partial \in BOOLEAN

AddressType ==
  addr \in 1 .. NumAddresses + 1 /\ connected \subseteq 1 .. NumAddresses
    /\ sessions \in 0 .. MaxSessions

LEMMA ClientParts ==
  ClientTypeOK <=> ControlType /\ AddressType /\ buf \in Seq(Lines) /\ currentWork \in Works
  BY DEF ClientTypeOK, ControlType, AddressType

LEMMA ControlTyped ==
  ASSUME ControlType, [Next]_vars
  PROVE  ControlType'
  <1> USE DEF ControlType, Places, eSTRATUM_States, Goto, Enter, StartRx, Die, connectVars, rxVars,
              sharedVars
  <1>1. CASE BeginConnect \/ AddressFails \/ AddressConnects \/ SendSubscribe \/ ConnectReturns
    BY <1>1 DEF BeginConnect, AddressFails, AddressConnects, SendSubscribe, ConnectReturns
  <1>2. CASE TxPool \/ RxLines \/ RxPart \/ RxError \/ RxClosed
    BY <1>2 DEF TxPool, RxLines, Receive, RxPart, RxError, RxClosed
  <1>3. CASE ResConnectNonce \/ ResConnectDiff \/ ResConnectJob
    BY <1>3 DEF ResConnectNonce, ResConnectDiff, ResConnectJob
  <1>4. CASE AuthenticateReturns \/ Reconnect \/ Ignore
    BY <1>4 DEF AuthenticateReturns, Reconnect, Ignore
  <1>5. CASE ResJobDiff \/ ResJob \/ Publish
    BY <1>5 DEF ResJobDiff, ResJob, Publish
  <1>6. CASE UNCHANGED threadVars /\ (workReady' = workReady \/ workReady' = FALSE)
    BY <1>6 DEF threadVars
  <1> QED
    BY <1>1, <1>2, <1>3, <1>4, <1>5, <1>6, Threads DEF ClientStep, vars, clientVars, threadVars

LEMMA AddressTyped ==
  ASSUME AddressType, PlaceInv, ControlType, [Next]_vars
  PROVE  AddressType'
  <1> USE AddressAssumption, WorkAssumption DEF AddressType, connectVars, rxVars, sharedVars
  <1>1. CASE BeginConnect
    BY <1>1 DEF BeginConnect
  <1>2. CASE AddressFails
    BY <1>2 DEF AddressFails
  <1>3. CASE AddressConnects
    BY <1>3 DEF AddressConnects
  <1>4. CASE ResConnectJob
    <2>1. addr <= NumAddresses
      BY <1>4 DEF ResConnectJob, PlaceInv
    <2> QED
      BY <1>4, <2>1 DEF ResConnectJob
  <1>5. CASE UNCHANGED <<addr, connected, sessions>>
    BY <1>5
  <1>6. CASE SendSubscribe \/ ConnectReturns \/ TxPool \/ RxLines \/ RxPart \/ RxError \/ RxClosed
    BY <1>5, <1>6 DEF SendSubscribe, ConnectReturns, TxPool, RxLines, RxPart, RxError, RxClosed
  <1>7. CASE ResConnectNonce \/ ResConnectDiff \/ AuthenticateReturns \/ Reconnect
    BY <1>5, <1>7 DEF ResConnectNonce, ResConnectDiff, AuthenticateReturns, Reconnect
  <1>8. CASE Ignore \/ ResJobDiff \/ ResJob \/ Publish
    BY <1>5, <1>8 DEF Ignore, ResJobDiff, ResJob, Publish
  <1>9. CASE UNCHANGED threadVars
    BY <1>5, <1>9 DEF threadVars
  <1> QED
    BY <1>1, <1>2, <1>3, <1>4, <1>6, <1>7, <1>8, <1>9, Threads
      DEF ClientStep, vars, clientVars, threadVars

(* Who writes the buffer, and who the work on offer.                       *)
LEMMA BufWriters ==
  ASSUME [Next]_vars
  PROVE  RxLines \/ buf' = <<>> \/ UNCHANGED buf
  <1>1. ClientStep => RxLines \/ buf' = <<>> \/ UNCHANGED buf
    BY DEF ClientStep, BeginConnect, AddressFails, AddressConnects, SendSubscribe, ConnectReturns,
         TxPool, RxPart, RxError, RxClosed, ResConnectNonce, ResConnectDiff, ResConnectJob,
         AuthenticateReturns, Reconnect, Ignore, ResJobDiff, ResJob, Publish, StartRx, rxVars
  <1> QED
    BY <1>1, Threads DEF threadVars, vars, clientVars, rxVars

LEMMA WorkWriters ==
  ASSUME [Next]_vars
  PROVE  \/ ResConnectNonce \/ ResConnectDiff \/ ResConnectJob \/ ResJobDiff \/ ResJob
         \/ UNCHANGED currentWork
  <1>1. ClientStep => \/ ResConnectNonce \/ ResConnectDiff \/ ResConnectJob \/ ResJobDiff \/ ResJob
                      \/ UNCHANGED currentWork
    BY DEF ClientStep, BeginConnect, AddressFails, AddressConnects, SendSubscribe, ConnectReturns,
         TxPool, RxLines, RxPart, RxError, RxClosed, AuthenticateReturns, Reconnect, Ignore, Publish,
         sharedVars
  <1> QED
    BY <1>1, Threads DEF threadVars, vars, clientVars, rxVars, sharedVars

LEMMA BufTyped ==
  ASSUME Sound(sock), buf \in Seq(Lines), [Next]_vars
  PROVE  buf' \in Seq(Lines)
  BY BufWriters, RxLinesReads, NoLine

(* What the decoders find in the buffer.                                   *)
LEMMA FirstLine ==
  ASSUME buf \in Seq(Lines), First(buf) # "nothing"
  PROVE  1 \in DOMAIN buf /\ buf[1] \in Lines /\ First(buf) = buf[1].kind
  <1>1. Len(buf) \in Nat \ {0} /\ DOMAIN buf = 1 .. Len(buf)
    BY DEF First
  <1> QED
    BY <1>1 DEF First

LEMMA FoundDiff ==
  ASSUME NEW n, buf \in Seq(Lines), n = UnpackReq(buf, "difficulty")
  PROVE  ResDifficulty(n) \in Difficulties \cup {0}
  <1>1. n # 0 => n \in DOMAIN buf /\ buf[n].kind = "difficulty"
    BY Unpacked
  <1>2. n # 0 => buf[n] \in Lines
    BY <1>1
  <1> QED
    BY <1>1, <1>2, LineMembers DEF ResDifficulty

LEMMA FoundJob ==
  ASSUME NEW n, buf \in Seq(Lines), n = UnpackReq(buf, "notify"), n # 0
  PROVE  n \in DOMAIN buf /\ buf[n].kind = "notify" /\ buf[n].job \in Jobs
  <1>1. n \in DOMAIN buf /\ buf[n].kind = "notify"
    BY Unpacked
  <1>2. buf[n] \in Lines
    BY <1>1
  <1> QED
    BY <1>1, <1>2, LineMembers

LEMMA FoundDiffBehind ==
  ASSUME NEW n, NEW d, buf \in Seq(Lines), n \in DOMAIN buf,
         d = UnpackReq(SubSeq(buf, n, Len(buf)), "difficulty"), d # 0
  PROVE  buf[n + d - 1].diff \in Difficulties
  <1> DEFINE rest == SubSeq(buf, n, Len(buf))
  <1>1. n \in Nat \ {0} /\ Len(buf) \in Nat
    OBVIOUS
  <1>2. /\ rest \in Seq(Lines)
        /\ \A i \in DOMAIN rest : n + i - 1 \in DOMAIN buf /\ rest[i] = buf[n + i - 1]
    BY <1>1, Part
  <1>3. d = UnpackReq(rest, "difficulty")
    OBVIOUS
  <1> HIDE DEF rest
  <1>4. d \in DOMAIN rest /\ rest[d].kind = "difficulty"
    BY <1>2, <1>3, Unpacked
  <1>5. n + d - 1 \in DOMAIN buf /\ buf[n + d - 1].kind = "difficulty"
    BY <1>2, <1>4
  <1>6. buf[n + d - 1] \in Lines
    BY <1>5
  <1> QED
    BY <1>5, <1>6, LineMembers

(* The work on offer: its members, and that a job once there stays.        *)
LEMMA WorkTyped ==
  ASSUME buf \in Seq(Lines), currentWork \in Works, [Next]_vars
  PROVE  currentWork' \in Works
  <1> USE DEF Works
  <1>1. CASE ResConnectNonce
    <2>1. First(buf) = "subscribed" => buf[1].session \in Sessions
      BY FirstLine, LineMembers
    <2> QED
      BY <1>1, <2>1 DEF ResConnectNonce, Die
  <1>2. CASE ResConnectDiff
    BY <1>2, FoundDiff DEF ResConnectDiff
  <1>3. CASE ResConnectJob
    <2> DEFINE n == UnpackReq(buf, "notify")
               d == UnpackReq(SubSeq(buf, n, Len(buf)), "difficulty")
    <2>1. n # 0 => n \in DOMAIN buf /\ buf[n].job \in Jobs
      BY FoundJob
    <2>2. n # 0 /\ d # 0 => buf[n + d - 1].diff \in Difficulties
      BY <2>1, FoundDiffBehind
    <2>3. currentWork' =
           IF n = 0 THEN currentWork
           ELSE [currentWork EXCEPT !.job = buf[n].job,
                                    !.diff = IF d = 0 THEN @ ELSE buf[n + d - 1].diff]
      BY <1>3 DEF ResConnectJob
    <2> HIDE DEF n, d
    <2> QED
      BY <2>1, <2>2, <2>3
  <1>4. CASE ResJobDiff
    BY <1>4, FoundDiff DEF ResJobDiff
  <1>5. CASE ResJob
    <2>1. First(buf) = "notify" => buf[1].job \in Jobs
      BY FirstLine, LineMembers
    <2> QED
      BY <1>5, <2>1 DEF ResJob, Die
  <1> QED
    BY <1>1, <1>2, <1>3, <1>4, <1>5, WorkWriters

LEMMA ClientTyped ==
  ASSUME ClientTypeOK, Sound(sock), PlaceInv, [Next]_vars
  PROVE  ClientTypeOK'
  <1>1. ControlType /\ AddressType /\ buf \in Seq(Lines) /\ currentWork \in Works
    BY ClientParts
  <1>2. ControlType' /\ AddressType' /\ buf' \in Seq(Lines) /\ currentWork' \in Works
    BY <1>1, ControlTyped, AddressTyped, BufTyped, WorkTyped
  <1> QED
    BY <1>2 DEF ClientTypeOK, ControlType, AddressType

-----------------------------------------------------------------------------
(* The client's invariant.                                                 *)
Quiet ==
  /\ UNCHANGED threadVars /\ SameSession
  /\ sock'.link = "unconnected" <=> sock.link = "unconnected"
  /\ workReady' => workReady

LEMMA QuietSteps ==
  ASSUME Sound(sock), [Next]_vars
  PROVE  ClientStep \/ Quiet
  <1>1. CASE PoolStep /\ UNCHANGED <<threadVars, workReady, mainVars>>
    BY <1>1, PoolSound DEF Quiet, SameSession
  <1>2. CASE UNCHANGED <<threadVars, sock>> /\ (workReady' = workReady \/ workReady' = FALSE)
    BY <1>2 DEF Quiet, SameSession
  <1>3. CASE UNCHANGED vars
    BY <1>3 DEF Quiet, SameSession, vars, clientVars, rxVars, sharedVars, threadVars
  <1> QED
    BY <1>1, <1>2, <1>3, Threads

LEMMA PlaceStep ==
  ASSUME AddressType, PlaceInv, Sound(sock), [Next]_vars
  PROVE  PlaceInv'
  <1> USE AddressAssumption DEF PlaceInv, AddressType, Goto, Enter, StartRx, Die, connectVars, rxVars,
              sharedVars
  <1>1. CASE BeginConnect \/ AddressFails \/ AddressConnects \/ SendSubscribe \/ ConnectReturns
    BY <1>1 DEF BeginConnect, AddressFails, AddressConnects, SendSubscribe, ConnectReturns
  <1>2. CASE TxPool \/ RxLines \/ RxPart \/ RxError \/ RxClosed
    BY <1>2 DEF TxPool, RxLines, Receive, RxPart, RxError, RxClosed
  <1>3. CASE ResConnectNonce \/ ResConnectDiff \/ ResConnectJob
    BY <1>3 DEF ResConnectNonce, ResConnectDiff, ResConnectJob
  <1>4. CASE AuthenticateReturns \/ Reconnect \/ Ignore
    BY <1>4 DEF AuthenticateReturns, Reconnect, Ignore
  <1>5. CASE ResJobDiff \/ ResJob \/ Publish
    BY <1>5 DEF ResJobDiff, ResJob, Publish
  <1>6. CASE Quiet
    BY <1>6 DEF Quiet, threadVars
  <1> QED
    BY <1>1, <1>2, <1>3, <1>4, <1>5, <1>6, QuietSteps DEF ClientStep

LEMMA BufStep ==
  ASSUME PlaceInv, Sound(sock), BufInv, [Next]_vars
  PROVE  BufInv'
  <1> USE DEF Goto, Enter, StartRx, rxVars
  <1>1. CASE RxLines
    BY <1>1, RxLinesReads DEF BufInv, OfSession, SameSession
  <1>2. CASE RxError
    BY <1>2 DEF RxError, BufInv
  <1>3. CASE at' \notin {"decode", "diff", "job"}
    BY <1>3 DEF BufInv
  <1>4. CASE UNCHANGED buf /\ SameSession /\ at \in {"decode", "diff", "job"}
    BY <1>4 DEF BufInv, OfSession, SameSession
  <1>5. CASE BeginConnect \/ AddressFails \/ AddressConnects \/ SendSubscribe \/ ConnectReturns
    BY <1>3, <1>5 DEF BeginConnect, AddressFails, AddressConnects, SendSubscribe, ConnectReturns
  <1>6. CASE TxPool \/ RxPart \/ RxClosed \/ ResConnectJob \/ AuthenticateReturns
    BY <1>3, <1>6 DEF TxPool, RxPart, RxClosed, ResConnectJob, AuthenticateReturns
  <1>7. CASE Reconnect \/ Ignore \/ Publish
    BY <1>3, <1>7 DEF Reconnect, Ignore, Publish
  <1>8. CASE ResConnectNonce \/ ResConnectDiff \/ ResJobDiff \/ ResJob
    BY <1>4, <1>8 DEF ResConnectNonce, ResConnectDiff, ResJobDiff, ResJob, SameSession
  <1>9. CASE Quiet
    BY <1>3, <1>4, <1>9 DEF Quiet, threadVars
  <1> QED
    BY <1>1, <1>2, <1>5, <1>6, <1>7, <1>8, <1>9, QuietSteps DEF ClientStep

LEMMA ConnectStep ==
  ASSUME ClientTypeOK, PlaceInv, Sound(sock), BufInv, ConnectInv, [Next]_vars
  PROVE  ConnectInv'
  <1> USE DEF connectVars, rxVars, sharedVars
  <1>1. CASE BeginConnect
    BY <1>1 DEF BeginConnect, ConnectInv, Goto
  <1>2. CASE AddressFails
    <2>1. eState = "CONNECTING" /\ at = "address" /\ eRetVal \in {"CNX_FAIL", "CNX_SUCCESS"}
      BY <1>2 DEF AddressFails, PlaceInv, ClientTypeOK, eSTRATUM_States
    <2>2. sock'.link = "unconnected"
      BY <1>2, AddressFailsSound
    <2> QED
      BY <1>2, <2>1, <2>2 DEF AddressFails, ConnectInv, Established
  <1>3. CASE AddressConnects
    <2>1. eState = "CONNECTING" /\ at = "address"
      BY <1>3 DEF AddressConnects, PlaceInv, ClientTypeOK, eSTRATUM_States
    <2>2. sock'.got = {} /\ sock'.session = sessions' /\ addr \in 1 .. NumAddresses
      BY <1>3, AddressConnectsSound, AddressAssumption DEF AddressConnects, ClientTypeOK
    <2>3. eRetVal = "CNX_FAIL" => OnlySession({})'
      BY <1>3, <2>1, <2>2 DEF AddressConnects, ConnectInv, OnlySession
    <2> QED
      BY <1>3, <2>1, <2>2, <2>3 DEF AddressConnects, ConnectInv, Goto
  <1>4. CASE SendSubscribe
    <2>1. eState = "CONNECTING" /\ at = "subscribe"
      BY <1>4 DEF SendSubscribe, PlaceInv, ClientTypeOK, eSTRATUM_States
    <2>2. CASE sent
      BY <1>4, <2>1, <2>2 DEF SendSubscribe, ConnectInv, StartRx, Goto
    <2>3. CASE ~sent /\ sock.link = "reset"
      BY <1>4, <2>1, <2>3 DEF SendSubscribe, ConnectInv, Goto
    <2>4. CASE ~sent /\ sock.link # "reset"
      <3>1. eRetVal = "CNX_FAIL" /\ OnlySession({})
        BY <2>1, <2>4 DEF ConnectInv, ClientTypeOK
      <3>2. Request("subscribe") /\ sent' /\ at' = "receive"
        BY <1>4, <2>4 DEF SendSubscribe, StartRx, Goto
      <3>3. sock'.got = sock.got \cup {"subscribe"} /\ sock'.session = sock.session
        BY <3>2, RequestSound DEF Requests
      <3>4. OnlySession({"subscribe"})'
        BY <1>4, <3>1, <3>3 DEF SendSubscribe, OnlySession
      <3> QED
        BY <1>4, <2>1, <3>1, <3>2, <3>4 DEF SendSubscribe, ConnectInv
    <2> QED
      BY <2>2, <2>3, <2>4
  <1>5. CASE ConnectReturns
    <2>1. eState = "CONNECTING" /\ at = "address"
      BY <1>5 DEF ConnectReturns, PlaceInv, ClientTypeOK, eSTRATUM_States
    <2>2. Established' <=> Established
      BY <1>5 DEF ConnectReturns, Established, OnlySession
    <2> QED
      BY <1>5, <2>1, <2>2 DEF ConnectReturns, ConnectInv, Enter
  <1>6. CASE TxPool
    BY <1>6 DEF TxPool, PlaceInv, ClientTypeOK, eSTRATUM_States, ConnectInv, StartRx, Goto
  <1>7. CASE RxLines
    <2>1. SameSession /\ sock.got # {} /\ at' = "decode" /\ at = "receive"
      BY <1>7, RxLinesReads DEF RxLines
    <2>2. OnlySession({"subscribe"})' <=> OnlySession({"subscribe"})
      BY <1>7, <2>1 DEF RxLines, OnlySession, SameSession
    <2> QED
      BY <1>7, <2>1, <2>2 DEF RxLines, ConnectInv
  <1>8. CASE RxError
    <2>1. /\ SameSession /\ at = "receive"
          /\ at' = "receive" \/ (at' = "decode" /\ buf' = <<>>)
      BY <1>8, RxErrorSound DEF RxError, Goto
    <2>2. OnlySession({"subscribe"})' <=> OnlySession({"subscribe"})
      BY <1>8, <2>1 DEF RxError, OnlySession, SameSession
    <2> QED
      BY <1>8, <2>1, <2>2 DEF RxError, ConnectInv, SameSession
  <1>17. CASE RxPart
    <2>1. SameSession /\ at = "receive" /\ at' = "receive"
      BY <1>17, RxPartReads DEF RxPart
    <2>2. OnlySession({"subscribe"})' <=> OnlySession({"subscribe"})
      BY <1>17, <2>1 DEF RxPart, OnlySession, SameSession
    <2> QED
      BY <1>17, <2>1, <2>2 DEF RxPart, ConnectInv, SameSession
  <1>9. CASE RxClosed
    BY <1>9 DEF RxClosed, ConnectInv, Goto
  <1>10. CASE ResConnectNonce
    <2>1. eState = "CONNECTING" /\ at = "decode" /\ eRetVal \in {"CNX_FAIL", "CNX_SUCCESS"}
      BY <1>10 DEF ResConnectNonce, ClientTypeOK
    <2>2. \A requests : OnlySession(requests)' <=> OnlySession(requests)
      BY <1>10 DEF ResConnectNonce, OnlySession
    <2>3. CASE First(buf) = "subscribed"
      <3>1. 1 \in DOMAIN buf /\ buf[1].kind = "subscribed" /\ buf[1] \in Lines
        BY <2>3, FirstLine DEF ClientTypeOK
      <3>2. buf[1].session = sock.session
        BY <2>1, <3>1 DEF BufInv, OfSession
      <3>3. buf # <<>>
        BY <3>1
      <3>4. eRetVal = "CNX_FAIL"
        BY <2>1, <3>3 DEF ConnectInv
      <3>5. currentWork'.nonce1 = sock.session
        BY <1>10, <2>3, <3>2 DEF ResConnectNonce, ClientTypeOK, Works
      <3> QED
        BY <1>10, <2>1, <2>2, <2>3, <3>4, <3>5 DEF ResConnectNonce, ConnectInv, Goto
    <2>4. CASE First(buf) # "subscribed"
      BY <1>10, <2>1, <2>2, <2>4 DEF ResConnectNonce, ConnectInv, Die
    <2> QED
      BY <2>3, <2>4
  <1>11. CASE ResConnectDiff
    <2>1. eState = "CONNECTING" /\ at = "diff" /\ eRetVal = "CNX_FAIL"
      BY <1>11 DEF ResConnectDiff, ConnectInv, ClientTypeOK
    <2>2. OnlySession({"subscribe"})' <=> OnlySession({"subscribe"})
      BY <1>11 DEF ResConnectDiff, OnlySession
    <2>3. currentWork'.nonce1 = currentWork.nonce1
      BY <1>11 DEF ResConnectDiff, ClientTypeOK, Works
    <2> QED
      BY <1>11, <2>1, <2>2, <2>3 DEF ResConnectDiff, ConnectInv, Goto
  <1>12. CASE ResConnectJob
    <2>1. eState = "CONNECTING" /\ at = "job" /\ eRetVal = "CNX_FAIL"
      BY <1>12 DEF ResConnectJob, ConnectInv, ClientTypeOK
    <2>2. OnlySession({"subscribe"})' <=> OnlySession({"subscribe"})
      BY <1>12 DEF ResConnectJob, OnlySession
    <2>3. currentWork'.nonce1 = currentWork.nonce1
      BY <1>12 DEF ResConnectJob, ClientTypeOK, Works
    <2> QED
      BY <1>12, <2>1, <2>2, <2>3 DEF ResConnectJob, ConnectInv, Established, Goto
  <1>13. CASE AuthenticateReturns \/ Reconnect
    BY <1>13 DEF AuthenticateReturns, Reconnect, ConnectInv, Enter, StartRx, Goto
  <1>14. CASE Ignore \/ ResJobDiff \/ ResJob
    BY <1>14 DEF Ignore, ResJobDiff, ResJob, ConnectInv, StartRx, Goto, Die
  <1>15. CASE Publish
    BY <1>15 DEF Publish, ConnectInv, StartRx, Goto
  <1>16. CASE Quiet
    <2>1. \A requests : OnlySession(requests)' <=> OnlySession(requests)
      BY <1>16 DEF Quiet, threadVars, OnlySession, SameSession
    <2>2. Established' <=> Established
      BY <1>16, <2>1 DEF Quiet, threadVars, Established, SameSession
    <2> QED
      BY <1>16, <2>1, <2>2 DEF Quiet, threadVars, ConnectInv, SameSession
  <1> QED
    BY <1>1, <1>2, <1>3, <1>4, <1>5, <1>6, <1>7, <1>8, <1>9, <1>10, <1>11, <1>12, <1>13, <1>14,
       <1>15, <1>16, <1>17, QuietSteps DEF ClientStep

LEMMA ListenStep ==
  ASSUME ClientTypeOK, PlaceInv, Sound(sock), ConnectInv, ListenInv, [Next]_vars
  PROVE  ListenInv'
  <1> USE DEF connectVars, rxVars, sharedVars
  <1> DEFINE Listens == \/ eState \in {"LISTENING", "PUBLISHING"}
                        \/ eState = "AUTHENTICATING" /\ at \in {"receive", "decode"}
  <1>1. CASE ~Listens'
    BY <1>1 DEF ListenInv
  <1>2. CASE Listens /\ SameSession /\ UNCHANGED <<connected, sessions>>
               /\ currentWork'.nonce1 = currentWork.nonce1
    BY <1>2 DEF ListenInv, OnlySession, SameSession
  <1>3. CASE BeginConnect \/ SendSubscribe \/ ConnectReturns
    BY <1>1, <1>3 DEF BeginConnect, SendSubscribe, ConnectReturns, PlaceInv, ClientTypeOK,
         eSTRATUM_States, Enter
  <1>4. CASE AddressFails \/ AddressConnects \/ Reconnect
    BY <1>1, <1>4 DEF AddressFails, AddressConnects, Reconnect, PlaceInv, ClientTypeOK,
         eSTRATUM_States, Enter
  <1>5. CASE ResConnectNonce \/ ResConnectDiff \/ ResConnectJob
    BY <1>1, <1>5 DEF ResConnectNonce, ResConnectDiff, ResConnectJob, Die
  <1>6. CASE TxPool
    <2>1. eState' = "AUTHENTICATING" /\ Established
      BY <1>6 DEF TxPool, PlaceInv, ClientTypeOK, eSTRATUM_States, ConnectInv
    <2>2. CASE sock.link \in {"up", "closed"}
      <3>1. Request("authorize") /\ at' = "receive"
        BY <1>6, <2>2 DEF TxPool, StartRx, Goto
      <3>2. sock'.got = sock.got \cup {"authorize"} /\ sock'.session = sock.session
        BY <3>1, RequestSound DEF Requests
      <3>3. OnlySession({"subscribe"}) /\ currentWork.nonce1 = sock.session
        BY <2>1, <2>2 DEF Established
      <3>4. OnlySession(Requests)'
        BY <1>6, <3>2, <3>3 DEF TxPool, OnlySession, Requests
      <3> QED
        BY <1>6, <3>2, <3>3, <3>4 DEF TxPool, ListenInv
    <2>3. CASE sock.link \notin {"up", "closed"}
      BY <1>1, <1>6, <2>1, <2>3 DEF TxPool, Goto
    <2> QED
      BY <2>2, <2>3
  <1>7. CASE RxLines
    <2>1. SameSession /\ at = "receive"
      BY <1>7, RxLinesReads DEF RxLines
    <2> QED
      BY <1>1, <1>2, <1>7, <2>1 DEF RxLines
  <1>8. CASE RxError
    <2>1. SameSession /\ at = "receive"
      BY <1>8, RxErrorSound DEF RxError
    <2> QED
      BY <1>1, <1>2, <1>8, <2>1 DEF RxError
  <1>14. CASE RxPart
    <2>1. SameSession /\ at = "receive"
      BY <1>14, RxPartReads DEF RxPart
    <2> QED
      BY <1>1, <1>2, <1>14, <2>1 DEF RxPart
  <1>9. CASE RxClosed
    BY <1>1, <1>2, <1>9 DEF RxClosed, SameSession
  <1>10. CASE AuthenticateReturns
    BY <1>1, <1>2, <1>10 DEF AuthenticateReturns, Enter, SameSession
  <1>11. CASE Ignore \/ ResJob \/ Publish
    <2>1. CASE Ignore \/ ResJob
      BY <1>2, <2>1 DEF Ignore, ResJob, Die, SameSession, ClientTypeOK, Works
    <2>2. CASE Publish
      BY <1>2, <2>2 DEF Publish, SameSession, PlaceInv, ClientTypeOK, eSTRATUM_States
    <2> QED
      BY <1>11, <2>1, <2>2
  <1>12. CASE ResJobDiff
    BY <1>2, <1>12 DEF ResJobDiff, SameSession, ClientTypeOK, Works
  <1>13. CASE Quiet
    BY <1>1, <1>2, <1>13 DEF Quiet, threadVars
  <1> QED
    BY <1>3, <1>4, <1>5, <1>6, <1>7, <1>8, <1>9, <1>10, <1>11, <1>12, <1>13, <1>14, QuietSteps
      DEF ClientStep

LEMMA JobStep ==
  ASSUME ClientTypeOK, PlaceInv, Sound(sock), BufInv, JobInv, [Next]_vars
  PROVE  JobInv'
  <1> USE DEF connectVars, rxVars, sharedVars
  <1> DEFINE Offers == at = "publish" \/ eState = "PUBLISHING"
  <1>1. currentWork.job # NoJob => currentWork'.job # NoJob
    <2>1. CASE ResConnectNonce \/ ResConnectDiff \/ ResJobDiff
      BY <2>1 DEF ResConnectNonce, ResConnectDiff, ResJobDiff, Die, ClientTypeOK, Works
    <2>2. CASE ResConnectJob
      <3> DEFINE n == UnpackReq(buf, "notify")
      <3>1. n # 0 => buf[n].job # NoJob
        BY FoundJob, NoJobAssumption DEF ClientTypeOK
      <3>2. currentWork'.job = IF n = 0 THEN currentWork.job ELSE buf[n].job
        BY <2>2 DEF ResConnectJob, ClientTypeOK, Works
      <3> QED
        BY <3>1, <3>2
    <2>3. CASE ResJob
      <3>1. First(buf) = "notify" => buf[1].job \in Jobs
        BY FirstLine, LineMembers DEF ClientTypeOK
      <3> QED
        BY <2>3, <3>1, NoJobAssumption DEF ResJob, Die, ClientTypeOK, Works
    <2> QED
      BY <2>1, <2>2, <2>3, WorkWriters
  <1>2. ASSUME workReady' PROVE workReady \/ currentWork.job # NoJob
    <2>1. CASE ClientStep
      <3>1. workReady' = workReady \/ Publish
        BY <2>1 DEF ClientStep, BeginConnect, AddressFails, AddressConnects, SendSubscribe,
             ConnectReturns, TxPool, RxLines, RxPart, RxError, RxClosed, ResConnectNonce, ResConnectDiff,
             ResConnectJob, AuthenticateReturns, Reconnect, Ignore, ResJobDiff, ResJob
      <3> QED
        BY <1>2, <3>1 DEF Publish, JobInv
    <2> QED
      BY <1>2, <2>1, QuietSteps DEF Quiet
  <1>3. Offers' => currentWork'.job # NoJob /\ currentWork'.job.session = sock'.session
    <2>1. CASE ~Offers'
      BY <2>1
    <2>2. CASE Offers /\ SameSession /\ UNCHANGED currentWork
      BY <2>2 DEF JobInv, SameSession
    <2>3. CASE BeginConnect \/ SendSubscribe \/ ConnectReturns
      BY <2>1, <2>3 DEF BeginConnect, SendSubscribe, ConnectReturns, PlaceInv, ClientTypeOK,
           eSTRATUM_States, Enter, StartRx, Goto
    <2>4. CASE AddressFails \/ AddressConnects \/ Reconnect
      BY <2>1, <2>4 DEF AddressFails, AddressConnects, Reconnect, PlaceInv, ClientTypeOK,
           eSTRATUM_States, Enter, Goto
    <2>5. CASE ResConnectNonce \/ ResConnectDiff \/ ResConnectJob
      BY <2>1, <2>5 DEF ResConnectNonce, ResConnectDiff, ResConnectJob, Die, Goto
    <2>6. CASE TxPool
      BY <2>1, <2>6 DEF TxPool, PlaceInv, ClientTypeOK, eSTRATUM_States, StartRx, Goto
    <2>7. CASE RxLines
      <3>1. SameSession /\ at' = "decode"
        BY <2>7, RxLinesReads
      <3> QED
        BY <2>1, <2>2, <2>7, <3>1 DEF RxLines
    <2>8. CASE RxError
      <3>1. SameSession /\ at' # "publish"
        BY <2>8, RxErrorSound DEF RxError, Goto
      <3> QED
        BY <2>1, <2>2, <2>8, <3>1 DEF RxError
    <2>14. CASE RxPart
      <3>1. SameSession /\ at' # "publish"
        BY <2>14, RxPartReads DEF RxPart
      <3> QED
        BY <2>1, <2>2, <2>14, <3>1 DEF RxPart
    <2>9. CASE RxClosed
      BY <2>1, <2>2, <2>9 DEF RxClosed, SameSession, Goto
    <2>10. CASE AuthenticateReturns \/ ResJobDiff
      BY <2>1, <2>10 DEF AuthenticateReturns, ResJobDiff, Enter, StartRx, Goto
    <2>11. CASE Ignore \/ Publish
      BY <2>2, <2>11 DEF Ignore, Publish, SameSession
    <2>12. CASE ResJob
      <3>1. CASE First(buf) = "notify"
        <4>1. 1 \in DOMAIN buf /\ buf[1].kind = "notify" /\ buf[1].job \in Jobs
          BY <3>1, FirstLine, LineMembers DEF ClientTypeOK
        <4>2. buf[1].job.session = sock.session
          BY <2>12, <4>1 DEF ResJob, BufInv, OfSession
        <4>3. currentWork'.job = buf[1].job /\ sock' = sock
          BY <2>12, <3>1 DEF ResJob, ClientTypeOK, Works
        <4> QED
          BY <4>1, <4>2, <4>3, NoJobAssumption
      <3>2. CASE First(buf) # "notify"
        BY <2>1, <2>12, <3>2 DEF ResJob, Die
      <3> QED
        BY <3>1, <3>2
    <2>13. CASE Quiet
      BY <2>1, <2>2, <2>13 DEF Quiet, threadVars
    <2> QED
      BY <2>3, <2>4, <2>5, <2>6, <2>7, <2>8, <2>9, <2>10, <2>11, <2>12, <2>13, <2>14, QuietSteps
        DEF ClientStep
  <1> QED
    BY <1>1, <1>2, <1>3 DEF JobInv

-----------------------------------------------------------------------------
(* The reply to the subscription.                                          *)
(* The lines of a wire that begins with one of this kind.                  *)
FirstIs(w, kind) ==
  \A i \in DOMAIN w : IF i = 1 THEN w[i].kind = kind ELSE w[i].kind # "subscribed"

LEMMA EndOf ==
  ASSUME NEW w \in Seq(Lines), NEW l \in Lines, l.kind # "subscribed", NEW kind
  PROVE  /\ NoReply(w) => NoReply(Append(w, l))
         /\ w # <<>> /\ FirstIs(w, kind) => FirstIs(Append(w, l), kind)
         /\ Append(w, l) # <<>>
  <1>1. /\ Len(w) \in Nat /\ DOMAIN w = 1 .. Len(w)
        /\ DOMAIN Append(w, l) = 1 .. Len(w) + 1
        /\ \A i \in 1 .. Len(w) : Append(w, l)[i] = w[i]
        /\ Append(w, l)[Len(w) + 1] = l
        /\ w # <<>> => Len(w) # 0
    OBVIOUS
  <1>2. 1 \in DOMAIN Append(w, l) /\ DOMAIN <<>> = {}
    BY <1>1
  <1> QED
    BY <1>1, <1>2 DEF NoReply, FirstIs

ReplyKind == IF partial THEN "fragment" ELSE "subscribed"

LEMMA ReplyFirstIs ==
  ReplyFirst <=>
    IF "subscribe" \in sock.pending
      THEN sock.wire = <<>> /\ ~partial
      ELSE (sock.wire = <<>> => sock.link # "up") /\ FirstIs(sock.wire, ReplyKind)
  BY DEF ReplyFirst, FirstIs, ReplyKind

(* Behind the first line there is no reply, and it stays so.               *)
LEMMA PoolReplies ==
  ASSUME Sound(sock), PoolStep, UNCHANGED partial
  PROVE  /\ Replied => Replied'
         /\ sock.got = {"subscribe"} /\ ReplyFirst => ReplyFirst'
         /\ sock'.link = "unconnected" <=> sock.link = "unconnected"
  <1>1. sock.wire \in Seq(Lines) /\ SockTyped(sock) /\ sock.pending \subseteq sock.got
    BY DEF Sound, SockTyped
  <1>2. sock'.link = "unconnected" <=> sock.link = "unconnected"
    BY PoolSound
  <1>3. CASE AnswerSubscribe
    <2> DEFINE l == [kind |-> "subscribed", session |-> sock.session]
    <2>1. "subscribe" \in sock.pending /\ sock'.pending = sock.pending \ {"subscribe"}
          /\ sock'.wire = Append(sock.wire, l)
      BY <1>1, <1>3 DEF AnswerSubscribe, Line, SockTyped
    <2>2. sock.wire = <<>> => sock'.wire = <<l>>
      BY <2>1
    <2>3. DOMAIN <<l>> = {1} /\ <<l>>[1] = l /\ <<l>> # <<>> /\ l.kind = "subscribed"
      OBVIOUS
    <2> HIDE DEF l
    <2> QED
      BY <1>2, <2>1, <2>2, <2>3 DEF Replied, ReplyFirst
  <1>4. ASSUME NEW l \in Lines, l.kind # "subscribed", sock.link = "up", sock'.link = sock.link,
               sock'.wire = Append(sock.wire, l), sock'.pending \subseteq sock.pending,
               "subscribe" \in sock.pending => sock.got # {"subscribe"}
        PROVE  /\ Replied => Replied'
               /\ sock.got = {"subscribe"} /\ ReplyFirst => ReplyFirst'
    <2>1. Replied => Replied'
      BY <1>1, <1>4, EndOf DEF Replied
    <2>2. ASSUME sock.got = {"subscribe"}, ReplyFirst PROVE ReplyFirst'
      <3>1. "subscribe" \notin sock.pending /\ sock.wire # <<>> /\ FirstIs(sock.wire, ReplyKind)
        BY <1>4, <2>2, ReplyFirstIs
      <3>2. FirstIs(sock'.wire, ReplyKind) /\ sock'.wire # <<>> /\ "subscribe" \notin sock'.pending
        BY <1>1, <1>4, <3>1, EndOf
      <3> QED
        BY <3>2 DEF ReplyFirst, FirstIs, ReplyKind
    <2> QED
      BY <2>1, <2>2
  <1>5. CASE AnswerAuthorize
    <2> DEFINE l == [kind |-> "authorized"]
    <2>1. /\ "authorize" \in sock.got /\ sock.link = "up" /\ sock'.link = sock.link
          /\ sock'.wire = Append(sock.wire, l) /\ sock'.pending \subseteq sock.pending
      BY <1>1, <1>5 DEF AnswerAuthorize, CanSend, Line, SockTyped
    <2>2. l \in Lines /\ l.kind # "subscribed" /\ sock.got # {"subscribe"}
      BY <2>1 DEF Lines
    <2> HIDE DEF l
    <2> QED
      BY <1>2, <1>4, <2>1, <2>2
  <1>6. CASE Announce
    <2>1. PICK d \in Difficulties \ {sock.diff} :
            sock' = [Line([kind |-> "difficulty", diff |-> d]) EXCEPT !.diff = d]
      BY <1>6 DEF Announce
    <2> DEFINE l == [kind |-> "difficulty", diff |-> d]
    <2>2. /\ sock.link = "up" /\ sock'.link = sock.link /\ "subscribe" \notin sock.pending
          /\ sock'.wire = Append(sock.wire, l) /\ sock'.pending \subseteq sock.pending
      BY <1>1, <1>6, <2>1 DEF Announce, CanSend, Subscribed, Line, SockTyped
    <2>3. l \in Lines /\ l.kind # "subscribed"
      BY DEF Lines
    <2> HIDE DEF l
    <2> QED
      BY <1>2, <1>4, <2>2, <2>3
  <1>7. CASE Notify
    <2> DEFINE job == [session |-> sock.session, number |-> sock.jobs + 1]
               l   == [kind |-> "notify", job |-> job]
    <2>1. /\ sock.link = "up" /\ sock'.link = sock.link /\ "subscribe" \notin sock.pending
          /\ sock'.wire = Append(sock.wire, l) /\ sock'.pending \subseteq sock.pending
      BY <1>1, <1>7 DEF Notify, CanSend, Subscribed, Line, SockTyped
    <2>2. job \in Jobs
      BY <1>1, <1>7, <2>1, WorkAssumption DEF Notify, Jobs, SockTyped, Sound
    <2>3. l \in Lines /\ l.kind # "subscribed"
      BY <2>2 DEF Lines
    <2> HIDE DEF l
    <2> QED
      BY <1>2, <1>4, <2>1, <2>3
  <1>8. CASE Close
    BY <1>1, <1>2, <1>8 DEF Close, Replied, ReplyFirst, SockTyped
  <1>9. CASE Reset
    <2>1. sock'.wire = <<>> /\ sock'.pending = sock.pending /\ sock'.link = "reset"
      BY <1>1, <1>9 DEF Reset, SockTyped
    <2> QED
      BY <1>2, <2>1, NoLine DEF Replied, ReplyFirst, NoReply
  <1> QED
    BY <1>2, <1>3, <1>5, <1>6, <1>7, <1>8, <1>9 DEF PoolStep

(* What a recv of whole lines takes and leaves.                            *)
LEMMA ReceivesReply ==
  ASSUME Sound(sock), RxLines
  PROVE  /\ buf' # <<>> /\ sock'.pending = sock.pending
         /\ Replied => Replied' /\ NoReply(buf')
         /\ ReplyFirst => /\ First(buf') \in {"fragment", "subscribed"}
                          /\ Replied'
  <1>1. PICK lines \in Seq(Lines), rest \in Seq(Lines) :
          /\ Receive(lines, rest) /\ LeftOf(rest)
          /\ 1 \in DOMAIN lines /\ \A i \in DOMAIN lines : i \in DOMAIN sock.wire /\ lines[i] = sock.wire[i]
    BY Reads
  <1>2. buf' = lines /\ sock'.wire = rest /\ sock'.pending = sock.pending
    BY <1>1 DEF Receive, Sound, SockTyped
  <1>3. buf' # <<>> /\ First(buf') = sock.wire[1].kind /\ 1 \in DOMAIN sock.wire
    BY <1>1, <1>2 DEF First
  <1>4. Fragment.kind = "fragment"
    BY DEF Fragment
  <1>5. ASSUME \A j \in DOMAIN sock.wire \ {1} : sock.wire[j].kind # "subscribed"
        PROVE  NoReply(sock'.wire)
    BY <1>1, <1>2, <1>4, <1>5 DEF LeftOf, NoReply
  <1>6. ASSUME Replied PROVE Replied' /\ NoReply(buf')
    <2>1. NoReply(sock.wire) /\ "subscribe" \notin sock.pending
      BY <1>6 DEF Replied
    <2>2. NoReply(sock'.wire) /\ NoReply(buf')
      BY <1>1, <1>2, <1>5, <2>1 DEF NoReply
    <2> QED
      BY <1>2, <2>1, <2>2 DEF Replied, NoReply
  <1>7. ASSUME ReplyFirst PROVE First(buf') \in {"fragment", "subscribed"} /\ Replied'
    <2>1. "subscribe" \notin sock.pending /\ FirstIs(sock.wire, ReplyKind)
      BY <1>3, <1>7, NoLine, ReplyFirstIs
    <2>2. NoReply(sock'.wire) /\ First(buf') = ReplyKind
      BY <1>3, <1>5, <2>1 DEF FirstIs
    <2> QED
      BY <1>2, <2>1, <2>2 DEF Replied, NoReply, ReplyKind
  <1> QED
    BY <1>2, <1>3, <1>6, <1>7

(* And what a recv of a part does.                                         *)
LEMMA PartOfReply ==
  ASSUME Sound(sock), RxPart
  PROVE  /\ Replied => Replied'
         /\ ReplyFirst => ReplyFirst'
  <1>1. /\ sock'.pending = sock.pending /\ 1 \in DOMAIN sock'.wire /\ sock'.wire[1] = Fragment
        /\ \A i \in DOMAIN sock'.wire \ {1} :
             \E j \in DOMAIN sock.wire \ {1} : sock'.wire[i] = sock.wire[j]
        /\ partial' /\ sock.wire # <<>>
    BY RxPartReads DEF RxPart
  <1>2. Fragment.kind = "fragment" /\ sock'.wire # <<>>
    BY <1>1 DEF Fragment
  <1>3. Replied => Replied'
    BY <1>1, <1>2 DEF Replied, NoReply
  <1>4. ASSUME ReplyFirst PROVE ReplyFirst'
    <2>1. "subscribe" \notin sock.pending /\ FirstIs(sock.wire, ReplyKind)
      BY <1>1, <1>4, ReplyFirstIs
    <2>2. FirstIs(sock'.wire, "fragment")
      BY <1>1, <1>2, <2>1 DEF FirstIs
    <2> QED
      BY <1>1, <1>2, <2>1, <2>2 DEF ReplyFirst, FirstIs
  <1> QED
    BY <1>3, <1>4

LEMMA ReplyStep ==
  ASSUME ClientTypeOK, PlaceInv, Sound(sock), ConnectInv, ReplyInv, [Next]_vars
  PROVE  ReplyInv'
  <1>19. UNCHANGED vars => UNCHANGED <<threadVars, sock>>
    BY DEF vars, clientVars, rxVars, sharedVars, threadVars
  <1>20. \/ ClientStep
         \/ PoolStep /\ UNCHANGED threadVars
         \/ UNCHANGED <<threadVars, sock>>
    BY <1>19, Threads
  <1> USE DEF connectVars, rxVars, sharedVars
  <1>1. UNCHANGED sock => (Replied' <=> Replied)
                          /\ (UNCHANGED partial => (ReplyFirst' <=> ReplyFirst))
    BY DEF Replied, ReplyFirst, NoReply
  <1>2. UNCHANGED buf => First(buf') = First(buf) /\ (NoReply(buf)' <=> NoReply(buf))
    BY DEF First, NoReply
  <1>3. CASE BeginConnect
    BY <1>3 DEF BeginConnect, ReplyInv, Goto
  <1>4. CASE AddressFails
    <2>1. eState = "CONNECTING" /\ at = "address"
      BY <1>4 DEF AddressFails, PlaceInv, ClientTypeOK, eSTRATUM_States
    <2>2. sock'.link = "unconnected"
      BY <1>4, AddressFailsSound
    <2> QED
      BY <1>4, <2>1, <2>2 DEF AddressFails, ReplyInv
  <1>5. CASE AddressConnects
    <2>1. eState = "CONNECTING" /\ at = "address"
      BY <1>5 DEF AddressConnects, PlaceInv, ClientTypeOK, eSTRATUM_States
    <2> QED
      BY <1>5, <2>1 DEF AddressConnects, ReplyInv, Goto
  <1>6. CASE SendSubscribe
    <2>1. eState = "CONNECTING" /\ at = "subscribe"
      BY <1>6 DEF SendSubscribe, PlaceInv, ClientTypeOK, eSTRATUM_States
    <2>2. CASE sent
      <3>1. eRetVal = "CNX_SUCCESS"
        BY <2>1, <2>2 DEF ConnectInv, ClientTypeOK
      <3> QED
        BY <1>6, <2>1, <2>2, <3>1 DEF SendSubscribe, ReplyInv, StartRx, Goto
    <2>3. CASE ~sent /\ sock.link = "reset"
      BY <1>6, <2>1, <2>3 DEF SendSubscribe, ReplyInv, Goto
    <2>4. CASE ~sent /\ sock.link # "reset"
      <3>1. eRetVal = "CNX_FAIL" /\ sock.got = {}
        BY <2>1, <2>4 DEF ConnectInv, ClientTypeOK, OnlySession
      <3>2. Request("subscribe") /\ at' = "receive" /\ ~partial'
        BY <1>6, <2>4 DEF SendSubscribe, StartRx, Goto
      <3>3. sock'.wire = <<>> /\ ~partial' /\ "subscribe" \in sock'.pending
        BY <3>1, <3>2 DEF Sound, SockTyped, Request
      <3>4. ReplyFirst'
        BY <3>3 DEF ReplyFirst
      <3> QED
        BY <1>6, <2>1, <3>2, <3>4 DEF SendSubscribe, ReplyInv
    <2> QED
      BY <2>2, <2>3, <2>4
  <1>7. CASE ConnectReturns
    <2>1. eState = "CONNECTING" /\ at = "address"
      BY <1>7 DEF ConnectReturns, PlaceInv, ClientTypeOK, eSTRATUM_States
    <2> QED
      BY <1>1, <1>7, <2>1 DEF ConnectReturns, ReplyInv, Enter
  <1>8. CASE TxPool
    <2>1. eState = "AUTHENTICATING" /\ at = "authorize"
      BY <1>8 DEF TxPool, PlaceInv, ClientTypeOK, eSTRATUM_States
    <2>2. CASE sock.link \in {"up", "closed"}
      <3>1. Request("authorize") /\ at' = "receive"
        BY <1>8, <2>2 DEF TxPool, StartRx, Goto
      <3>2. sock'.wire = sock.wire /\ sock'.pending = sock.pending \cup {"authorize"}
        BY <3>1 DEF Sound, SockTyped, Request
      <3>3. Replied /\ Replied'
        BY <2>1, <2>2, <3>2 DEF ReplyInv, Replied, NoReply
      <3> QED
        BY <1>8, <2>1, <3>1, <3>3 DEF TxPool, ReplyInv
    <2>3. CASE sock.link \notin {"up", "closed"}
      BY <1>8, <2>1, <2>3 DEF TxPool, ReplyInv, Goto
    <2> QED
      BY <2>2, <2>3
  <1>9. CASE RxLines
    <2>1. at = "receive" /\ at' = "decode" /\ UNCHANGED <<eState, eRetVal>>
      BY <1>9, RxLinesReads DEF RxLines
    <2>2. eState \in eSTRATUM_States /\ eRetVal \in {"CNX_FAIL", "CNX_SUCCESS"}
      BY DEF ClientTypeOK
    <2>3. CASE eState = "CONNECTING"
      <3>1. sock.got # {}
        BY <1>9, RxLinesReads
      <3>2. eRetVal = "CNX_FAIL" /\ ReplyFirst
        BY <2>1, <2>2, <2>3, <3>1 DEF ConnectInv, ReplyInv
      <3> QED
        BY <1>9, <2>1, <2>3, <3>2, ReceivesReply DEF ReplyInv
    <2>4. CASE eState # "CONNECTING"
      <3>1. Replied /\ Replied' /\ NoReply(buf')
        BY <1>9, <2>1, <2>2, <2>4, ReceivesReply DEF ReplyInv, eSTRATUM_States
      <3> QED
        BY <2>1, <2>4, <3>1 DEF ReplyInv, NoReply
    <2> QED
      BY <2>3, <2>4
  <1>10. CASE RxError
    <2>1. /\ sock'.wire = <<>> /\ sock'.pending = sock.pending /\ sock'.link = "down"
          /\ at = "receive" /\ UNCHANGED <<eState, eRetVal>>
      BY <1>10, RxErrorSound DEF RxError
    <2>2. Replied => Replied'
      BY <2>1, NoLine DEF Replied, NoReply
    <2>3. CASE partial
      <3>1. at' = "receive" /\ UNCHANGED partial
        BY <1>10, <2>1, <2>3 DEF RxError
      <3>2. ReplyFirst => ReplyFirst'
        BY <2>1, <2>3, <3>1, NoLine DEF ReplyFirst
      <3> QED
        BY <2>1, <2>2, <3>1, <3>2 DEF ReplyInv
    <2>4. CASE ~partial
      <3>1. at' = "decode" /\ buf' = <<>>
        BY <1>10, <2>4 DEF RxError, Goto
      <3>2. NoReply(buf') /\ First(buf') = "nothing"
        BY <3>1, NoLine DEF NoReply, First
      <3> QED
        BY <2>1, <2>2, <3>1, <3>2 DEF ReplyInv, NoReply
    <2> QED
      BY <2>3, <2>4
  <1>21. CASE RxPart
    <2>1. at = "receive" /\ at' = "receive" /\ UNCHANGED <<eState, eRetVal>>
      BY <1>21 DEF RxPart
    <2> QED
      BY <1>21, <2>1, PartOfReply DEF ReplyInv
  <1>11. CASE RxClosed
    BY <1>1, <1>2, <1>11 DEF RxClosed, ReplyInv, Goto
  <1>12. CASE ResConnectNonce
    BY <1>1, <1>2, <1>12 DEF ResConnectNonce, ReplyInv, Goto, Die
  <1>13. CASE ResConnectDiff \/ ResConnectJob
    BY <1>1, <1>2, <1>13 DEF ResConnectDiff, ResConnectJob, ReplyInv, Goto
  <1>14. CASE AuthenticateReturns \/ Reconnect
    BY <1>1, <1>2, <1>14 DEF AuthenticateReturns, Reconnect, ReplyInv, Enter, StartRx, Goto
  <1>15. CASE Ignore \/ ResJobDiff
    BY <1>1, <1>2, <1>15 DEF Ignore, ResJobDiff, ReplyInv, StartRx, Goto
  <1>16. CASE ResJob \/ Publish
    BY <1>1, <1>2, <1>16 DEF ResJob, Publish, ReplyInv, PlaceInv, ClientTypeOK,
         eSTRATUM_States, StartRx, Goto, Die
  <1>17. CASE PoolStep /\ UNCHANGED threadVars
    <2>1. /\ Replied => Replied'
          /\ sock.got = {"subscribe"} /\ ReplyFirst => ReplyFirst'
          /\ sock'.link = "unconnected" <=> sock.link = "unconnected"
      BY <1>17, PoolReplies DEF threadVars
    <2>2. eState = "CONNECTING" /\ eRetVal = "CNX_FAIL" /\ at = "receive" =>
            sock.got = {"subscribe"}
      BY DEF ConnectInv, OnlySession
    <2> QED
      BY <1>2, <1>17, <2>1, <2>2 DEF ReplyInv, threadVars
  <1>18. CASE UNCHANGED <<threadVars, sock>>
    BY <1>1, <1>2, <1>18 DEF ReplyInv, threadVars
  <1> HIDE DEF connectVars, rxVars, sharedVars
  <1> QED
    BY <1>3, <1>4, <1>5, <1>6, <1>7, <1>8, <1>9, <1>10, <1>11, <1>12, <1>13, <1>14, <1>15, <1>16,
       <1>17, <1>18, <1>20, <1>21 DEF ClientStep

LEMMA DeathStep ==
  ASSUME ClientTypeOK, ConnectInv, ReplyInv, DeathCauses, [Next]_vars
  PROVE  DeathCauses'
  <1> SUFFICES ASSUME ~alive'
               PROVE  \/ First(buf') = "fragment"
                      \/ eState' = "CONNECTING" /\ buf' = <<>>
                      \/ eState' = "LISTENING" /\ First(buf') \in {"difficulty", "authorized"}
    BY DEF DeathCauses, First
  <1>1. CASE ~alive
    <2>1. UNCHANGED <<eState, buf>>
      BY <1>1 DEF Next, Client, Main, Pool, vars, clientVars, rxVars
    <2> QED
      BY <1>1, <2>1 DEF DeathCauses, First
  <1>2. CASE alive
    <2>1. ResConnectNonce \/ ResJob
      BY <1>2, Threads
        DEF ClientStep, BeginConnect, AddressFails, AddressConnects, SendSubscribe, ConnectReturns,
            TxPool, RxLines, RxPart, RxError, RxClosed, ResConnectDiff, ResConnectJob,
            AuthenticateReturns, Reconnect, Ignore, ResJobDiff, Publish, threadVars, vars, clientVars
    <2>2. CASE ResConnectNonce
      <3>1. eState = "CONNECTING" /\ at = "decode" /\ First(buf) # "subscribed"
            /\ UNCHANGED <<eState, buf>>
        BY <1>2, <2>2 DEF ResConnectNonce, Die, rxVars
      <3>2. First(buf) \in {"nothing", "fragment"}
        BY <3>1 DEF ReplyInv
      <3>3. First(buf) = "nothing" => buf = <<>>
        BY DEF First, ClientTypeOK, Lines
      <3> QED
        BY <3>1, <3>2, <3>3 DEF First
    <2>3. CASE ResJob
      <3>1. eState = "LISTENING" /\ at = "job" /\ First(buf) # "notify" /\ UNCHANGED <<eState, buf>>
        BY <1>2, <2>3 DEF ResJob, Die, rxVars
      <3>2. buf # <<>> /\ NoReply(buf)
        BY <3>1 DEF ReplyInv
      <3>3. 1 \in DOMAIN buf /\ buf[1] \in Lines /\ First(buf) = buf[1].kind
        BY <3>2 DEF First, ClientTypeOK
      <3>4. buf[1].kind \in {"subscribed", "difficulty", "notify", "authorized", "fragment"}
        BY <3>3 DEF Lines
      <3> QED
        BY <3>1, <3>2, <3>3, <3>4 DEF NoReply, First
    <2> QED
      BY <2>1, <2>2, <2>3
  <1> QED
    BY <1>1, <1>2 DEF ClientTypeOK

-----------------------------------------------------------------------------
(* The main thread and its queue.                                          *)
LEMMA MainCases ==
  ASSUME [Next]_vars
  PROVE  \/ PollNothing \/ PollFull \/ PollWork \/ Copy \/ Clear
         \/ UNCHANGED mainVars
  BY Threads DEF MainStep, vars, clientVars, rxVars, sharedVars

LEMMA MainTyped ==
  ASSUME MainTypeOK, currentWork \in Works, [Next]_vars
  PROVE  MainTypeOK'
  <1> USE QueueAssumption DEF MainTypeOK, SchedulerTypeOK, pushVars, schedulerVars, queueVars,
              QueueSlots, pstCurrent
  <1>1. CASE SCHEDULER_Bkgnd /\ UNCHANGED <<slot, toCopy>> /\ mainAt' \in {"poll", "copy", "clear"}
    BY <1>1 DEF SCHEDULER_Bkgnd, Select, Stage, Wait
  <1>2. CASE PollNothing
    BY <1>1, <1>2 DEF PollNothing
  <1>3. CASE PollFull
    BY <1>3 DEF PollFull
  <1>4. CASE PollWork
    <2>1. FreeSlot \in QueueSlots
      <3> DEFINE free == {i \in QueueSlots : isFree[i]}
      <3>1. free \subseteq Nat
        OBVIOUS
      <3>2. free # {} => \E i \in free : \A j \in free : i <= j
        BY <3>1, LeastNat
      <3>3. FreeSlot = IF free = {} THEN WORK_QUEUE_SIZE - 1
                       ELSE CHOOSE i \in free : \A j \in free : i <= j
        BY DEF FreeSlot
      <3>4. free \subseteq QueueSlots /\ WORK_QUEUE_SIZE - 1 \in QueueSlots
        OBVIOUS
      <3> HIDE DEF free
      <3> QED
        BY <3>2, <3>3, <3>4
    <2>2. numWork' \in 0 .. WORK_QUEUE_SIZE
      BY <1>4 DEF PollWork, Full, Reserve
    <2> QED
      BY <1>4, <2>1, <2>2 DEF PollWork, Reserve
  <1>5. CASE Copy
    <2>1. PICK f \in toCopy : /\ CopyField(slot, f, currentWork[f])
                              /\ toCopy' = toCopy \ {f}
      BY <1>5 DEF Copy
    <2>2. [workQueue[slot] EXCEPT ![f] = currentWork[f]] \in Works
      BY <2>1 DEF Works, Fields
    <2>3. workQueue' = [workQueue EXCEPT ![slot] = [@ EXCEPT ![f] = currentWork[f]]]
      BY <2>1 DEF CopyField
    <2>4. isFree' \in [QueueSlots -> BOOLEAN] /\ mainAt' \in {"poll", "copy", "clear"}
      BY <1>5 DEF Copy, MarkTaken
    <2>5. toCopy' \subseteq Fields /\ workQueue' \in [QueueSlots -> Works]
      BY <2>1, <2>2, <2>3
    <2> QED
      BY <1>5, <2>4, <2>5 DEF Copy
  <1>6. CASE Clear
    BY <1>1, <1>6 DEF Clear
  <1>7. CASE UNCHANGED mainVars
    BY <1>7 DEF mainVars
  <1> QED
    BY <1>2, <1>3, <1>4, <1>5, <1>6, <1>7, MainCases

(* With the works below it taken, the first free slot is byNumWork.        *)
LEMMA FirstFree ==
  ASSUME NEW n \in Nat, n < WORK_QUEUE_SIZE, \A i \in QueueSlots : ~isFree[i] <=> i < n
  PROVE  FreeSlot = n
  <1> DEFINE free == {i \in QueueSlots : isFree[i]}
  <1>1. n \in free /\ \A j \in free : n <= j /\ j \in Nat
    BY QueueAssumption DEF QueueSlots
  <1>2. FreeSlot = IF free = {} THEN WORK_QUEUE_SIZE - 1
                   ELSE CHOOSE i \in free : \A j \in free : i <= j
    BY DEF FreeSlot
  <1> HIDE DEF free
  <1>3. FreeSlot \in free /\ \A j \in free : FreeSlot <= j
    BY <1>1, <1>2
  <1> QED
    BY <1>1, <1>3

(* A step of the scheduler alone, between two pushes.                      *)
LEMMA BkgndStep ==
  ASSUME MainTypeOK, QueueInv, mainAt # "copy", SCHEDULER_Bkgnd, UNCHANGED pushVars,
         mainAt' = "poll"
  PROVE  QueueInv'
  <1> USE QueueAssumption DEF MainTypeOK, SchedulerTypeOK, QueueInv, QueuePrefix, Taken, QueueSlots,
              queueVars, schedulerVars, pushVars
  <1>1. CASE Select
    <2>1. 0 \in Taken
      BY <1>1 DEF Select
    <2> QED
      BY <1>1, <2>1 DEF Select
  <1>2. CASE Stage
    BY <1>2 DEF Stage, pstCurrent
  <1>3. CASE Wait
    BY <1>3 DEF Wait
  <1> QED
    BY <1>1, <1>2, <1>3 DEF SCHEDULER_Bkgnd

LEMMA QueueStep ==
  ASSUME TypeOK, JobInv, QueueInv, [Next]_vars
  PROVE  QueueInv'
  <1>1. MainTypeOK /\ ClientTypeOK
    BY DEF TypeOK
  <1>2. CASE PollNothing
    BY <1>1, <1>2, BkgndStep DEF PollNothing
  <1>3. CASE PollFull
    BY <1>3 DEF PollFull, QueueInv, QueuePrefix, Taken, schedulerVars, queueVars, pushVars
  <1>4. CASE PollWork
    <2> USE QueueAssumption, <1>1 DEF MainTypeOK, SchedulerTypeOK
    <2>1. numWork \in Nat /\ numWork < WORK_QUEUE_SIZE /\ \A i \in QueueSlots : ~isFree[i] <=> i < numWork
      BY <1>4 DEF PollWork, Full, QueueInv, QueuePrefix
    <2>2. slot' = numWork
      BY <1>4, <2>1, FirstFree DEF PollWork
    <2>3. numWork \notin Taken /\ numWork \in QueueSlots
      BY <2>1 DEF Taken, QueueSlots
    <2>4. numWork' = numWork + 1 /\ UNCHANGED <<isFree, workQueue, schedState, staged>>
      BY <1>4, <2>3 DEF PollWork, Reserve
    <2>5. workReady' /\ toCopy' = Fields /\ mainAt' = "copy"
      BY <1>4 DEF PollWork, clientVars, rxVars, sharedVars
    <2>6. QueuePrefix'
      BY <2>1, <2>4, <2>5 DEF QueuePrefix
    <2>7. Taken' = Taken
      BY <2>4 DEF Taken
    <2>8. numWork' > 0 /\ slot' = numWork' - 1
      BY <2>1, <2>2, <2>4
    <2>9. toCopy' # {} /\ "job" \in toCopy'
      BY <2>5 DEF Fields
    <2> QED
      BY <2>4, <2>5, <2>6, <2>7, <2>8, <2>9 DEF QueueInv
  <1>5. CASE Copy
    <2> USE QueueAssumption, <1>1 DEF MainTypeOK, SchedulerTypeOK
    <2>1. PICK f \in toCopy : /\ CopyField(slot, f, currentWork[f])
                              /\ toCopy' = toCopy \ {f}
      BY <1>5 DEF Copy
    <2>2. mainAt = "copy" /\ workReady /\ numWork > 0 /\ slot = numWork - 1 /\ currentWork.job # NoJob
      BY <1>5 DEF Copy, QueueInv, JobInv
    <2>3. slot \in QueueSlots /\ slot \notin Taken
      BY <2>2 DEF QueueInv, QueuePrefix, Taken, QueueSlots
    <2>4. \A i \in QueueSlots \ {slot} : workQueue'[i] = workQueue[i]
      BY <2>1 DEF CopyField
    <2>5. "job" \notin toCopy' => workQueue'[slot].job # NoJob
      <3>1. CASE f = "job"
        BY <2>1, <2>2, <2>3, <3>1 DEF CopyField, Works
      <3>2. CASE f # "job"
        <4>1. workQueue'[slot].job = workQueue[slot].job
          BY <2>1, <2>3, <3>2 DEF CopyField, Works
        <4> QED
          BY <2>1, <2>2, <3>2, <4>1 DEF QueueInv
      <3> QED
        BY <3>1, <3>2
    <2>6. CASE toCopy' = {}
      <3>1. mainAt' = "clear" /\ isFree' = [isFree EXCEPT ![slot] = FALSE]
            /\ UNCHANGED <<numWork, schedState, staged>>
        BY <1>5, <2>6 DEF Copy, MarkTaken
      <3>2. Taken' = Taken \cup {slot}
        BY <2>3, <3>1 DEF Taken
      <3>3. QueuePrefix'
        BY <2>2, <3>1 DEF QueueInv, QueuePrefix, QueueSlots
      <3>4. \A i \in Taken' : workQueue'[i].job # NoJob
        BY <2>4, <2>5, <2>6, <3>2 DEF QueueInv, Taken
      <3> QED
        BY <3>1, <3>2, <3>3, <3>4 DEF QueueInv
    <2>7. CASE toCopy' # {}
      <3>1. mainAt' = "copy" /\ isFree' = isFree
            /\ UNCHANGED <<numWork, schedState, staged, slot, workReady>>
        BY <1>5, <2>2, <2>7 DEF Copy, clientVars, rxVars, sharedVars
      <3>2. Taken' = Taken /\ QueuePrefix'
        BY <2>2, <3>1 DEF Taken, QueueInv, QueuePrefix
      <3>3. \A i \in Taken' : workQueue'[i].job # NoJob
        BY <2>3, <2>4, <3>2 DEF QueueInv, Taken
      <3> QED
        BY <2>2, <2>5, <2>7, <3>1, <3>2, <3>3 DEF QueueInv
    <2> QED
      BY <2>6, <2>7
  <1>6. CASE Clear
    BY <1>1, <1>6, BkgndStep DEF Clear
  <1>7. CASE UNCHANGED mainVars /\ (workReady => workReady')
    BY <1>7 DEF mainVars, schedulerVars, queueVars, pushVars, QueueInv, QueuePrefix, Taken
  <1>8. ASSUME UNCHANGED mainVars, ClientStep PROVE workReady => workReady'
    BY <1>8 DEF ClientStep, BeginConnect, AddressFails, AddressConnects, SendSubscribe,
         ConnectReturns, TxPool, RxLines, RxPart, RxError, RxClosed, ResConnectNonce, ResConnectDiff,
         ResConnectJob, AuthenticateReturns, Reconnect, Ignore, ResJobDiff, ResJob, Publish,
         sharedVars
  <1>9. CASE MainStep
    BY <1>2, <1>3, <1>4, <1>5, <1>6, <1>9 DEF MainStep
  <1>10. CASE UNCHANGED vars
    BY <1>7, <1>10 DEF vars, clientVars, rxVars, sharedVars
  <1>11. CASE ClientStep /\ UNCHANGED mainVars
    BY <1>7, <1>8, <1>11
  <1>12. CASE UNCHANGED <<threadVars, workReady, mainVars>>
    BY <1>7, <1>12
  <1> QED
    BY <1>9, <1>10, <1>11, <1>12, Threads

-----------------------------------------------------------------------------
(* Where the thread may hang, and the sessions the program knows of.       *)
LEMMA SpinStep ==
  ASSUME ClientTypeOK, PlaceInv, PartialInv, SpinInv, Sound(sock), [Next]_vars
  PROVE  SpinInv'
  <1>1. CASE ClientStep
    <2> SUFFICES ASSUME at' = "spin"
                 PROVE  /\ sock'.link # "up"
                        /\ eState' \in {"LISTENING", "PUBLISHING"} =>
                             sock'.link = "closed" \/ (sock'.link = "down" /\ partial')
      BY DEF SpinInv
    <2>1. SendSubscribe \/ TxPool \/ RxClosed
      BY <1>1 DEF ClientStep, BeginConnect, AddressFails, AddressConnects, SendSubscribe,
           ConnectReturns, TxPool, RxLines, Receive, RxPart, RxError, RxClosed, ResConnectNonce,
           ResConnectDiff, ResConnectJob, AuthenticateReturns, Reconnect, Ignore, ResJobDiff,
           ResJob, Publish, Goto, Enter, StartRx, Die, PlaceInv
    <2>2. CASE SendSubscribe \/ TxPool
      <3>1. eState' = eState /\ sock' = sock /\ sock.link \notin {"up", "closed"}
        BY <2>2 DEF SendSubscribe, TxPool, Goto, StartRx, Sound, SockTyped
      <3>2. eState \notin {"LISTENING", "PUBLISHING"}
        BY <2>2 DEF SendSubscribe, TxPool, PlaceInv
      <3> QED
        BY <3>1, <3>2
    <2>3. CASE RxClosed
      BY <2>3 DEF RxClosed, PartialInv, rxVars
    <2> QED
      BY <2>1, <2>2, <2>3
  <1>2. CASE PoolStep /\ UNCHANGED threadVars
    <2>1. sock.link # "up" => sock'.link = sock.link
      BY <1>2 DEF PoolStep, AnswerSubscribe, AnswerAuthorize, Announce, Notify, CanSend, Close, Reset
    <2> QED
      BY <1>2, <2>1 DEF SpinInv, threadVars
  <1>3. CASE UNCHANGED <<threadVars, sock>>
    BY <1>3 DEF SpinInv, threadVars
  <1> QED
    BY <1>1, <1>2, <1>3, Threads DEF vars, clientVars, rxVars, sharedVars, threadVars

(* What becomes of a part of a line, and of a thread told of a break.      *)
LEMMA PartialStep ==
  ASSUME ClientTypeOK, PlaceInv, PartialInv, Sound(sock), [Next]_vars
  PROVE  PartialInv'
  <1> USE DEF PartialInv, connectVars, rxVars, Goto, Enter, StartRx
  <1>1. CASE BeginConnect \/ ConnectReturns
    BY <1>1 DEF BeginConnect, ConnectReturns
  <1>2. CASE AddressFails
    BY <1>2, AddressFailsSound DEF AddressFails
  <1>3. CASE AddressConnects
    BY <1>3, AddressConnectsSound DEF AddressConnects
  <1>4. CASE SendSubscribe \/ TxPool
    <2>1. sock.link # "down" /\ ~partial
      BY <1>4 DEF SendSubscribe, TxPool
    <2>2. sock'.link = sock.link
      BY <1>4, RequestSound DEF SendSubscribe, TxPool, Requests
    <2> QED
      BY <1>4, <2>1, <2>2 DEF SendSubscribe, TxPool
  <1>5. CASE RxLines
    BY <1>5, RxLinesReads DEF Sound, RxLines
  <1>6. CASE RxPart
    BY <1>6, RxPartReads DEF RxPart
  <1>7. CASE RxError
    BY <1>7 DEF RxError
  <1>8. CASE RxClosed
    BY <1>8 DEF RxClosed
  <1>9. CASE ResConnectNonce
    <2>1. at = "decode" /\ ~partial /\ UNCHANGED <<buf, partial, sock>>
      BY <1>9 DEF ResConnectNonce
    <2>2. buf = <<>> => at' = "decode"
      BY <1>9 DEF ResConnectNonce, First, Die
    <2> QED
      BY <2>1, <2>2
  <1>10. CASE ResConnectDiff \/ ResConnectJob
    BY <1>10 DEF ResConnectDiff, ResConnectJob
  <1>11. CASE AuthenticateReturns \/ Reconnect \/ Ignore
    BY <1>11 DEF AuthenticateReturns, Reconnect, Ignore
  <1>12. CASE ResJobDiff \/ ResJob \/ Publish
    BY <1>12 DEF ResJobDiff, ResJob, Publish, Die
  <1>13. CASE PoolStep /\ UNCHANGED threadVars
    <2>1. sock'.link = "down" => sock.link = "down"
      BY <1>13 DEF PoolStep, AnswerSubscribe, AnswerAuthorize, Announce, Notify, Line, Close, Reset,
           Sound, SockTyped
    <2> QED
      BY <1>13, <2>1 DEF threadVars
  <1>14. CASE UNCHANGED <<threadVars, sock>>
    BY <1>14 DEF threadVars
  <1> QED
    BY <1>1, <1>2, <1>3, <1>4, <1>5, <1>6, <1>7, <1>8, <1>9, <1>10, <1>11, <1>12, <1>13, <1>14,
       Threads DEF ClientStep, vars, clientVars, sharedVars, threadVars

(* A request goes to the session there is.                                 *)
LEMMA SendSession ==
  ASSUME Sound(sock), SendSubscribe \/ TxPool
  PROVE  sock'.session = sock.session
  BY RequestSound DEF SendSubscribe, TxPool, Requests, StartRx

(* No session is forgotten, and the socket's is one of them.               *)
LEMMA SessionsGrow ==
  ASSUME ClientTypeOK, Sound(sock), sock.session <= sessions, [Next]_vars
  PROVE  sessions \in Nat /\ sessions' \in Nat /\ sessions <= sessions'
         /\ sock'.session <= sessions'
  <1>1. sessions \in Nat
    BY WorkAssumption DEF ClientTypeOK
  <1>2. CASE AddressConnects
    <2>1. sessions' = sessions + 1
      BY <1>2 DEF AddressConnects
    <2>2. sock'.session = sessions'
      BY <1>2, AddressConnectsSound
    <2> QED
      BY <1>1, <2>1, <2>2
  <1>3. CASE AddressFails
    <2>1. sock'.session = 0 /\ sessions' = sessions
      BY <1>3 DEF AddressFails, FreshSock
    <2> QED
      BY <1>1, <2>1
  <1>4. CASE UNCHANGED sessions /\ sock'.session = sock.session
    BY <1>1, <1>4
  <1>5. ClientStep => AddressConnects \/ UNCHANGED sessions
    BY DEF ClientStep, BeginConnect, AddressFails, SendSubscribe, ConnectReturns, TxPool,
         RxLines, RxPart, RxError, RxClosed, ResConnectNonce, ResConnectDiff, ResConnectJob,
         AuthenticateReturns, Reconnect, Ignore, ResJobDiff, ResJob, Publish
  <1>6. CASE ClientStep
    <2>1. AddressConnects \/ AddressFails \/ sock'.session = sock.session
      BY <1>6, SockWriters, SendSession, RxLinesReads, RxPartReads, RxErrorSound
        DEF SameSession
    <2> QED
      BY <1>2, <1>3, <1>4, <1>5, <1>6, <2>1
  <1>7. CASE PoolStep /\ UNCHANGED threadVars
    <2>1. sock'.session = sock.session
      BY <1>7, PoolSound
    <2> QED
      BY <1>4, <1>7, <2>1 DEF threadVars
  <1>8. CASE UNCHANGED <<threadVars, sock>>
    BY <1>4, <1>8 DEF threadVars
  <1> QED
    BY <1>6, <1>7, <1>8, Threads DEF vars, clientVars, rxVars, sharedVars, threadVars

(* What is written into the work on offer is of the socket's session, and  *)
(* a job only once its extranonce is there.                                *)
FromSocket ==
  /\ \/ currentWork'.nonce1 = currentWork.nonce1
     \/ currentWork'.nonce1 = sock.session /\ sock.session # 0
  /\ \/ currentWork'.job = currentWork.job
     \/ /\ currentWork'.job.session = sock.session /\ sock.session # 0
        /\ currentWork'.nonce1 = sock.session

LEMMA WorkFromSocket ==
  ASSUME ClientTypeOK, Sound(sock), BufInv, ConnectInv, ListenInv, [Next]_vars
  PROVE  FromSocket
  <1>1. /\ buf \in Seq(Lines) /\ eRetVal \in {"CNX_FAIL", "CNX_SUCCESS"}
        /\ currentWork \in Works /\ 0 \notin Sessions
    BY WorkAssumption DEF ClientTypeOK, Sessions
  <1>2. CASE ResConnectNonce
    <2>1. CASE First(buf) = "subscribed"
      <3>1. 1 \in DOMAIN buf /\ buf[1].session \in Sessions /\ buf[1].kind = "subscribed"
        BY <1>1, <2>1, FirstLine, LineMembers
      <3>2. buf[1].session = sock.session
        BY <1>2, <3>1 DEF ResConnectNonce, BufInv, OfSession
      <3>3. currentWork'.nonce1 = buf[1].session /\ currentWork'.job = currentWork.job
        BY <1>1, <1>2, <2>1 DEF ResConnectNonce, Works
      <3> QED
        BY <1>1, <3>1, <3>2, <3>3 DEF FromSocket
    <2>2. CASE First(buf) # "subscribed"
      BY <1>2, <2>2 DEF ResConnectNonce, Die, FromSocket
    <2> QED
      BY <2>1, <2>2
  <1>3. CASE ResConnectDiff \/ ResJobDiff
    BY <1>1, <1>3 DEF ResConnectDiff, ResJobDiff, Works, FromSocket
  <1>4. CASE ResConnectJob
    <2> DEFINE n == UnpackReq(buf, "notify")
    <2>1. currentWork'.job = (IF n = 0 THEN currentWork.job ELSE buf[n].job)
          /\ currentWork'.nonce1 = currentWork.nonce1
      BY <1>1, <1>4 DEF ResConnectJob, Works
    <2>2. currentWork.nonce1 = sock.session
      BY <1>1, <1>4 DEF ResConnectJob, ConnectInv
    <2>3. n # 0 => n \in DOMAIN buf /\ buf[n].kind = "notify" /\ buf[n].job \in Jobs
      BY <1>1, FoundJob
    <2>4. n # 0 => buf[n].job.session = sock.session
      BY <1>4, <2>3 DEF ResConnectJob, BufInv, OfSession
    <2>5. n # 0 => sock.session # 0
      BY <1>1, <2>3, <2>4 DEF Jobs
    <2> HIDE DEF n
    <2> QED
      BY <2>1, <2>2, <2>4, <2>5 DEF FromSocket
  <1>5. CASE ResJob
    <2>1. CASE First(buf) = "notify"
      <3>1. 1 \in DOMAIN buf /\ buf[1].kind = "notify" /\ buf[1].job \in Jobs
        BY <1>1, <2>1, FirstLine, LineMembers
      <3>2. buf[1].job.session = sock.session
        BY <1>5, <3>1 DEF ResJob, BufInv, OfSession
      <3>3. sock.session # 0
        BY <1>1, <3>1, <3>2 DEF Jobs
      <3>4. currentWork'.job = buf[1].job /\ currentWork'.nonce1 = currentWork.nonce1
        BY <1>1, <1>5, <2>1 DEF ResJob, Works
      <3>5. currentWork.nonce1 = sock.session
        BY <1>5 DEF ResJob, ListenInv
      <3> QED
        BY <3>2, <3>3, <3>4, <3>5 DEF FromSocket
    <2>2. CASE First(buf) # "notify"
      BY <1>5, <2>2 DEF ResJob, Die, FromSocket
    <2> QED
      BY <2>1, <2>2
  <1>6. CASE UNCHANGED currentWork
    BY <1>6 DEF FromSocket
  <1> QED
    BY <1>2, <1>3, <1>4, <1>5, <1>6, WorkWriters

(* A session once known stays known.                                       *)
LEMMA StaysKnown ==
  ASSUME NEW n \in Nat, NEW m \in Nat, n <= m, NEW work \in Works
  PROVE  /\ work.nonce1 \in Nat
         /\ work.job # NoJob => work.job.session \in Nat
         /\ work.nonce1 <= n => work.nonce1 <= m
         /\ work.job # NoJob /\ work.job.session <= n => work.job.session <= m
  <1>1. work.nonce1 \in Nat /\ (work.job # NoJob => work.job.session \in Nat)
    BY WorkAssumption DEF Works, Sessions, Jobs
  <1> QED
    BY <1>1

LEMMA SessionStep ==
  ASSUME TypeOK, Sound(sock), BufInv, ConnectInv, ListenInv, JobInv, QueueInv, SessionInv,
         [Next]_vars
  PROVE  SessionInv'
  <1>1. ClientTypeOK /\ currentWork \in Works /\ currentWork' \in Works
        /\ workQueue \in [QueueSlots -> Works] /\ MainTypeOK
    BY WorkTyped DEF TypeOK, ClientTypeOK, MainTypeOK, SchedulerTypeOK
  <1>2. sessions \in Nat /\ sessions' \in Nat /\ sessions <= sessions'
        /\ sock'.session <= sessions'
    BY <1>1, SessionsGrow DEF SessionInv
  <1>3. sock.session \in Nat /\ sock.session <= sessions /\ FromSocket
    BY <1>1, WorkFromSocket, WorkAssumption DEF SessionInv, Sound, SockTyped, Sessions
  <1>4. /\ currentWork'.nonce1 <= sessions'
        /\ currentWork'.job # NoJob => currentWork'.nonce1 # 0
        /\ currentWork'.job # NoJob => currentWork'.job.session <= sessions'
    <2>1. /\ currentWork.nonce1 \in Nat /\ currentWork.nonce1 <= sessions
          /\ currentWork.job # NoJob => /\ currentWork.nonce1 # 0
                                       /\ currentWork.job.session \in Nat
                                       /\ currentWork.job.session <= sessions
      BY <1>1, <1>2, StaysKnown DEF SessionInv, KnownJob
    <2>2. currentWork'.nonce1 <= sessions'
      BY <1>2, <1>3, <2>1 DEF FromSocket
    <2>3. ASSUME currentWork'.job = currentWork.job, currentWork'.job # NoJob
          PROVE  currentWork'.nonce1 # 0 /\ currentWork'.job.session <= sessions'
      BY <1>2, <1>3, <2>1, <2>3 DEF FromSocket
    <2>4. ASSUME currentWork'.job # currentWork.job
          PROVE  currentWork'.nonce1 # 0 /\ currentWork'.job.session <= sessions'
      BY <1>2, <1>3, <2>4 DEF FromSocket
    <2> QED
      BY <2>2, <2>3, <2>4
  <1>5. ASSUME NEW i \in QueueSlots, NEW j \in QueueSlots, workQueue'[j] = workQueue[i]
        PROVE  /\ KnownNonce(workQueue[i]) => KnownNonce(workQueue[j])'
               /\ KnownJob(workQueue[i]) => KnownJob(workQueue[j])'
    <2> DEFINE work == workQueue[i]
    <2>1. work \in Works
      BY <1>1
    <2>2. /\ work.nonce1 \in Nat
          /\ work.job # NoJob => work.job.session \in Nat
          /\ work.nonce1 <= sessions => work.nonce1 <= sessions'
          /\ work.job # NoJob /\ work.job.session <= sessions => work.job.session <= sessions'
      BY <1>2, <2>1, StaysKnown
    <2> QED
      BY <1>2, <1>5, <2>2 DEF KnownNonce, KnownJob
  <1>6. /\ \A i \in Taken' : KnownNonce(workQueue[i])' /\ KnownJob(workQueue[i])'
        /\ mainAt' = "copy" =>
             /\ "nonce1" \notin toCopy' => KnownNonce(workQueue[slot])'
             /\ "job" \notin toCopy' => KnownJob(workQueue[slot])'
    <2> DEFINE Goal == /\ \A i \in Taken' : KnownNonce(workQueue[i])' /\ KnownJob(workQueue[i])'
                       /\ mainAt' = "copy" =>
                            /\ "nonce1" \notin toCopy' => KnownNonce(workQueue[slot])'
                            /\ "job" \notin toCopy' => KnownJob(workQueue[slot])'
    <2>1. \A i \in Taken : i \in QueueSlots /\ KnownNonce(workQueue[i]) /\ KnownJob(workQueue[i])
      BY DEF SessionInv, Taken
    <2>2. ASSUME UNCHANGED <<isFree, workQueue>>
          PROVE  \A i \in Taken' : KnownNonce(workQueue[i])' /\ KnownJob(workQueue[i])'
      <3>1. Taken' = Taken /\ \A i \in Taken : workQueue'[i] = workQueue[i]
        BY <2>2 DEF Taken
      <3> QED
        BY <1>5, <2>1, <3>1
    <2>3. CASE PollNothing \/ PollFull \/ Clear
      <3>1. UNCHANGED <<isFree, workQueue>>
        BY <2>3 DEF PollNothing, PollFull, Clear, SCHEDULER_Bkgnd, Select, Stage, Wait,
             schedulerVars, queueVars
      <3>2. mainAt' # "copy"
        BY <2>3 DEF PollNothing, PollFull, Clear
      <3> QED
        BY <2>2, <3>1, <3>2
    <2>4. CASE PollWork
      <3>1. UNCHANGED <<isFree, workQueue>> /\ toCopy' = Fields
        BY <2>4 DEF PollWork, Reserve
      <3> QED
        BY <2>2, <3>1 DEF Fields
    <2>5. CASE Copy
      <3>1. PICK f \in toCopy : CopyField(slot, f, currentWork[f]) /\ toCopy' = toCopy \ {f}
        BY <2>5 DEF Copy
      <3>2. /\ mainAt = "copy" /\ slot' = slot /\ sessions' = sessions
            /\ slot \in QueueSlots /\ f \in Fields
        BY <1>1, <2>5, <3>1 DEF Copy, MainTypeOK, clientVars
      <3>3. \A i \in QueueSlots \ {slot} : workQueue'[i] = workQueue[i]
        BY <3>1 DEF CopyField
      <3>4. workQueue'[slot] = [workQueue[slot] EXCEPT ![f] = currentWork[f]]
        BY <1>1, <3>1, <3>2 DEF CopyField
      <3>5. /\ workQueue'[slot].nonce1 = IF f = "nonce1" THEN currentWork.nonce1
                                                        ELSE workQueue[slot].nonce1
            /\ workQueue'[slot].job = IF f = "job" THEN currentWork.job ELSE workQueue[slot].job
        BY <1>1, <3>2, <3>4 DEF Works, Fields
      <3>6. currentWork.nonce1 \in 1 .. sessions /\ KnownJob(currentWork)
        <4>1. currentWork.job # NoJob
          BY <3>2 DEF QueueInv, JobInv
        <4>2. currentWork.nonce1 \in Nat
          BY <1>1, <1>2, StaysKnown
        <4> QED
          BY <1>2, <4>1, <4>2 DEF SessionInv
      <3>7. /\ "nonce1" \notin toCopy' => KnownNonce(workQueue[slot])'
            /\ "job" \notin toCopy' => KnownJob(workQueue[slot])'
        BY <3>1, <3>2, <3>5, <3>6 DEF SessionInv, KnownNonce, KnownJob
      <3>8. CASE toCopy' # {}
        <4>1. Taken' = Taken
          BY <2>5, <3>8 DEF Copy, Taken
        <4>2. slot \notin Taken
          BY <1>1, <3>2, QueueAssumption
            DEF QueueInv, QueuePrefix, Taken, MainTypeOK, SchedulerTypeOK
        <4> QED
          BY <1>5, <2>1, <3>3, <3>7, <4>1, <4>2
      <3>9. CASE toCopy' = {}
        <4>1. Taken' \subseteq Taken \cup {slot} /\ mainAt' # "copy" /\ slot' = slot
          BY <1>1, <2>5, <3>9 DEF Copy, MarkTaken, Taken, MainTypeOK, SchedulerTypeOK
        <4>2. \A i \in Taken \ {slot} : KnownNonce(workQueue[i])' /\ KnownJob(workQueue[i])'
          BY <1>5, <2>1, <3>3
        <4>3. KnownNonce(workQueue[slot])' /\ KnownJob(workQueue[slot])'
          BY <3>7, <3>9
        <4>4. ASSUME NEW i \in Taken'
              PROVE  KnownNonce(workQueue[i])' /\ KnownJob(workQueue[i])'
          <5>1. CASE i = slot
            BY <3>2, <4>3, <5>1 DEF KnownNonce, KnownJob
          <5>2. CASE i # slot
            BY <4>1, <4>2, <5>2
          <5> QED
            BY <5>1, <5>2
        <4> QED
          BY <4>1, <4>4
      <3> QED
        BY <3>8, <3>9
    <2>6. CASE UNCHANGED mainVars
      <3>1. UNCHANGED <<isFree, workQueue, mainAt, slot, toCopy>>
        BY <2>6 DEF mainVars, schedulerVars, queueVars, pushVars
      <3>2. slot \in QueueSlots /\ workQueue'[slot] = workQueue[slot]
        BY <1>1, <3>1 DEF MainTypeOK
      <3>3. KnownNonce(workQueue[slot]) => KnownNonce(workQueue[slot])'
        BY <1>5, <3>1, <3>2 DEF KnownNonce
      <3>4. KnownJob(workQueue[slot]) => KnownJob(workQueue[slot])'
        BY <1>5, <3>1, <3>2 DEF KnownJob
      <3> QED
        BY <2>2, <3>1, <3>3, <3>4 DEF SessionInv
    <2> QED
      BY <2>3, <2>4, <2>5, <2>6, MainCases
  <1> QED
    BY <1>2, <1>4, <1>6 DEF SessionInv, KnownJob

-----------------------------------------------------------------------------
LEMMA Started == ASSUME Init PROVE MinerInv
  <1>1. currentWork = EmptyWork /\ EmptyWork \in Works
    BY DEF Init, ClientInit, EmptyWork, Works
  <1>2. ControlType /\ buf \in Seq(Lines)
    BY NoLine DEF Init, ClientInit, ControlType, eSTRATUM_States, Places
  <1>7. AddressType
    BY AddressAssumption, WorkAssumption DEF Init, ClientInit, AddressType
  <1>3. MainTypeOK
    BY <1>1, QueueAssumption DEF Init, SchedulerInit, MainTypeOK, SchedulerTypeOK, QueueSlots, Fields
  <1>4. Sound(sock)
    BY FreshSound DEF Init, ClientInit
  <1>5. PlaceInv /\ PartialInv /\ BufInv /\ ConnectInv /\ ListenInv /\ JobInv
    BY AddressAssumption
      DEF Init, ClientInit, PlaceInv, PartialInv, BufInv, ConnectInv, ListenInv, JobInv
  <1>8. ReplyInv /\ DeathCauses
    BY DEF Init, ClientInit, ReplyInv, DeathCauses
  <1>6. QueueInv
    BY QueueAssumption
      DEF Init, SchedulerInit, QueueInv, QueuePrefix, Taken, QueueSlots
  <1>9. SpinInv /\ SessionInv
    BY <1>1, QueueAssumption
      DEF Init, ClientInit, SchedulerInit, FreshSock, EmptyWork, SpinInv, SessionInv, KnownJob, Taken
  <1> QED
    BY <1>1, <1>2, <1>3, <1>4, <1>5, <1>6, <1>7, <1>8, <1>9, ClientParts, SockParts
      DEF MinerInv, TypeOK

(* The invariant of the miner program is inductive.                        *)
THEOREM MinerInvariant == Spec => []MinerInv
  <1>1. ASSUME MinerInv, [Next]_vars PROVE MinerInv'
    <2>1. Sound(sock) /\ ClientTypeOK /\ MainTypeOK /\ currentWork \in Works /\ AddressType
      BY <1>1, SockParts, ClientParts DEF MinerInv, TypeOK
    <2>2. Sound(sock')
      BY <1>1, <2>1, SoundStep
    <2>3. SockTypeOK' /\ SockInv'
      BY <2>2 DEF SockTypeOK, SockInv, Sound, SockTyped, OfSession
    <2>4. ClientTypeOK' /\ MainTypeOK'
      BY <1>1, <2>1, ClientTyped, MainTyped DEF MinerInv
    <2>5. PlaceInv' /\ BufInv' /\ ConnectInv' /\ ListenInv' /\ JobInv' /\ QueueInv'
      BY <1>1, <2>1, PlaceStep, BufStep, ConnectStep, ListenStep, JobStep, QueueStep DEF MinerInv
    <2>6. ReplyInv' /\ DeathCauses'
      BY <1>1, <2>1, ReplyStep, DeathStep DEF MinerInv
    <2>7. SpinInv' /\ PartialInv' /\ SessionInv'
      BY <1>1, <2>1, SpinStep, PartialStep, SessionStep DEF MinerInv
    <2> QED
      BY <2>3, <2>4, <2>5, <2>6, <2>7 DEF MinerInv, TypeOK
  <1> QED
    BY Started, <1>1, PTL DEF Spec

(* Type correctness of the two threads and the connection.                 *)
THEOREM TypesCorrect == Spec => []TypeOK
  <1>1. MinerInv => TypeOK
    BY DEF MinerInv
  <1> QED
    BY <1>1, MinerInvariant, PTL

(* The queue is a prefix of complete works (SCHEDULER_PushWork).           *)
THEOREM QueueIsPrefix == Spec => []QueuePrefix
  <1>1. MinerInv => QueuePrefix
    BY DEF MinerInv, QueueInv
  <1> QED
    BY <1>1, MinerInvariant, PTL

(* The process ends for one of three reasons.  Whatever the pool sends,    *)
(* and however it arrives, Connect takes no other line for the reply to    *)
(* its subscription, nor the listening thread the reply for a job.         *)
THEOREM DeathIsExplained == Spec => []DeathCauses
  <1>1. MinerInv => DeathCauses
    BY DEF MinerInv
  <1> QED
    BY <1>1, MinerInvariant, PTL

(* The slot staged holds a work with a job (SCHEDULER_Bkgnd).              *)
THEOREM StagedHasJob == Spec => []StagedIsQueued
  <1>1. MinerInv => StagedIsQueued
    BY DEF MinerInv, QueueInv, StagedIsQueued, pstCurrent
  <1> QED
    BY <1>1, MinerInvariant, PTL

(* What a publishing thread offers is of one session (STRATUM.c:327).      *)
THEOREM PublishedIsCoherent == Spec => []ReadyWorkCoherent
  <1>1. MinerInv => ReadyWorkCoherent
    BY DEF MinerInv, ListenInv, JobInv, ReadyWorkCoherent
  <1> QED
    BY <1>1, MinerInvariant, PTL

(* Jobs come from the one connection that was sent both requests.          *)
THEOREM ListeningIsSubscribed == Spec => []ListeningSubscribed
  <1>1. ASSUME MinerInv PROVE ListeningSubscribed
    <2> SUFFICES ASSUME eState \in {"LISTENING", "PUBLISHING"}
                 PROVE  sock.got = Requests /\ sock.session = sessions /\ Cardinality(connected) = 1
      BY DEF ListeningSubscribed
    <2>1. sock.got = Requests /\ sock.session = sessions
      BY <1>1 DEF MinerInv, ListenInv, OnlySession
    <2>2. PICK a \in 1 .. NumAddresses : connected = {a}
      BY <1>1 DEF MinerInv, ListenInv, OnlySession
    <2> QED
      BY <2>1, <2>2, FS_Singleton
  <1> QED
    BY <1>1, MinerInvariant, PTL

(* No push and no step of either thread changes a work once it is queued.  *)
THEOREM QueuedWorkKept == Spec => TakenSlotsKept
  <1>1. ASSUME MinerInv, [Next]_vars
        PROVE  [\A i \in Taken : i \in Taken' /\ workQueue'[i] = workQueue[i]]_vars
    <2> SUFFICES ASSUME NEW i \in Taken PROVE i \in Taken' /\ workQueue'[i] = workQueue[i]
      OBVIOUS
    <2>1. MainTypeOK
      BY <1>1 DEF MinerInv, TypeOK
    <2>2. CASE Copy
      <3>1. mainAt = "copy" /\ slot = numWork - 1 /\ numWork > 0
        BY <1>1, <2>2 DEF Copy, MinerInv, QueueInv
      <3>2. slot \in QueueSlots /\ slot \notin Taken
        BY <1>1, <2>1, <3>1, QueueAssumption
          DEF MinerInv, QueueInv, QueuePrefix, Taken, QueueSlots, MainTypeOK, SchedulerTypeOK
      <3>3. workQueue'[i] = workQueue[i]
        BY <2>1, <2>2, <3>2 DEF Copy, CopyField, Taken, MainTypeOK, SchedulerTypeOK
      <3>4. isFree'[i] = isFree[i]
        BY <2>1, <2>2, <3>2 DEF Copy, MarkTaken, Taken, MainTypeOK, SchedulerTypeOK
      <3> QED
        BY <3>3, <3>4 DEF Taken
    <2>3. CASE UNCHANGED <<isFree, workQueue>>
      BY <2>3 DEF Taken
    <2>4. CASE PollNothing \/ PollFull \/ PollWork \/ Clear
      BY <2>3, <2>4 DEF PollNothing, PollFull, PollWork, Clear, Reserve, SCHEDULER_Bkgnd, Select,
           Stage, Wait, schedulerVars, queueVars
    <2>5. CASE UNCHANGED mainVars
      BY <2>3, <2>5 DEF mainVars, schedulerVars, queueVars
    <2> QED
      BY <1>1, <2>2, <2>4, <2>5, MainCases
  <1> QED
    BY <1>1, MinerInvariant, PTL DEF Spec, TakenSlotsKept

(* The thread hangs in a loop on its socket only when the connection is    *)
(* gone: no failed send (STRATUM.c:652) and no failed recv is retried on a *)
(* live one.  While it listens two things take it there: a pool that ended *)
(* the connection in order, and a break between the parts of a line, which *)
(* RxPool's sum of lengths hides from its loop (STRATUM.c:691).            *)
THEOREM HangsOnlyDisconnected == Spec => []SpinInv
  <1>1. MinerInv => SpinInv
    BY DEF MinerInv
  <1> QED
    BY <1>1, MinerInvariant, PTL

(* It takes a second connection to queue a work of two sessions: on the    *)
(* first one what STRATUM.c:327 says of a dispatched work is true.         *)
THEOREM TornOnlyByReconnection == Spec => [](sessions <= 1 => QueuedWorkCoherent)
  <1>1. ASSUME MinerInv, sessions <= 1 PROVE QueuedWorkCoherent
    <2> SUFFICES ASSUME NEW i \in Taken, workQueue[i].job # NoJob
                 PROVE  workQueue[i].nonce1 = workQueue[i].job.session
      BY DEF QueuedWorkCoherent
    <2>1. sessions \in Nat /\ workQueue[i] \in Works
      BY <1>1, WorkAssumption
        DEF MinerInv, TypeOK, ClientTypeOK, MainTypeOK, SchedulerTypeOK, Taken
    <2>2. workQueue[i].nonce1 \in 1 .. sessions /\ workQueue[i].job.session <= sessions
      BY <1>1 DEF MinerInv, SessionInv, KnownNonce, KnownJob
    <2>3. workQueue[i].job.session \in Nat \ {0}
      BY <2>1, WorkAssumption DEF Works, Jobs, Sessions
    <2> QED
      BY <1>1, <2>1, <2>2, <2>3
  <1> QED
    BY <1>1, MinerInvariant, PTL

-----------------------------------------------------------------------------
(* How long it takes.  That the threads run is an assumption; these count  *)
(* what is left to do, in steps of the thread that has to do it.           *)
(* Steps of the main thread until it clears bWorkReady, at the longest.    *)
Distance(place, fields) ==
  CASE place = "poll" -> 5
    [] place = "copy" -> Cardinality(fields) + 1
    [] OTHER -> 1

ToClear == Distance(mainAt, toCopy)

TakeLeft == IF workReady THEN ToClear ELSE 0

(* And until the scheduler, once it has a work, has staged it.             *)
StageLeft ==
  CASE schedState = "READY" -> ToClear + 6
    [] schedState = "RECALIBRATION" -> ToClear
    [] OTHER -> 0

(* A listening thread of a connection that broke, which has not received a *)
(* part of a line only, and its steps until it opens another.              *)
Broken ==
  Listening /\ ((sock.link = "reset" /\ ~partial) \/ (at = "decode" /\ buf = <<>>))

ReconnectLeft ==
  IF ~Broken THEN 0
  ELSE CASE at = "decode" -> IF buf = <<>> THEN 1 ELSE 5
         [] at = "receive" -> 2
         [] at = "publish" -> 3
         [] OTHER -> 4

(* A published work waits for five steps of the main thread at most, and   *)
(* none of the other's makes it wait longer (STRATUM_Ptcl_Bkgnd).          *)
TakenOnTime ==
  [][workReady => TakeLeft' <= TakeLeft /\ (Main => TakeLeft' < TakeLeft)]_vars

(* Once a work is queued each step of the main thread brings the first one *)
(* closer to the fabric (SCHEDULER_Bkgnd, SCHEDULER_PushWork).             *)
StagedOnTime ==
  [][numWork > 0 => /\ StageLeft' <= StageLeft
                    /\ Main /\ StageLeft # 0 => StageLeft' < StageLeft]_vars

(* A connection that breaks under a listening thread is replaced after     *)
(* five steps of it at most, unless the process dies first, or the break   *)
(* came between the parts of a line (CnxClient).                           *)
ReconnectsOnTime ==
  [][Broken => /\ Broken' \/ ~Listening'
               /\ ReconnectLeft' <= ReconnectLeft
               /\ Client => ReconnectLeft' < ReconnectLeft]_vars

LEMMA CopySize ==
  ASSUME NEW set \in SUBSET Fields
  PROVE  /\ IsFiniteSet(set) /\ Cardinality(set) \in 0 .. 3
         /\ Cardinality(Fields) = 3
  <1>1. IsFiniteSet({}) /\ Cardinality({}) = 0
    BY FS_EmptySet
  <1>2. IsFiniteSet({"job"}) /\ Cardinality({"job"}) = 1
    BY FS_Singleton
  <1>3. IsFiniteSet({"job"} \cup {"diff"}) /\ Cardinality({"job"} \cup {"diff"}) = 2
    BY <1>2, FS_AddElement
  <1>4. IsFiniteSet({"job"} \cup {"diff"} \cup {"nonce1"})
        /\ Cardinality({"job"} \cup {"diff"} \cup {"nonce1"}) = 3
    BY <1>3, FS_AddElement
  <1>5. Fields = {"job"} \cup {"diff"} \cup {"nonce1"}
    BY DEF Fields
  <1>6. IsFiniteSet(Fields) /\ Cardinality(Fields) = 3
    BY <1>4, <1>5
  <1>7. IsFiniteSet(set) /\ Cardinality(set) <= Cardinality(Fields)
    BY <1>6, FS_Subset
  <1> QED
    BY <1>6, <1>7, FS_CardinalityType

LEMMA DistanceBound ==
  ASSUME NEW place, NEW set \in SUBSET Fields
  PROVE  Distance(place, set) \in 1 .. 5
  BY CopySize DEF Distance

(* What each step of the program does to the distance of the main thread.  *)
LEMMA ToClearStep ==
  ASSUME MainTypeOK, MainTypeOK', [Next]_vars
  PROVE  /\ PollNothing \/ UNCHANGED mainVars => ToClear' = ToClear
         /\ PollFull \/ PollWork \/ Copy => ToClear' < ToClear
         /\ Clear => ToClear = 1
  <1>1. CASE PollNothing \/ UNCHANGED mainVars
    <2>1. UNCHANGED <<mainAt, toCopy>>
      BY <1>1 DEF PollNothing, mainVars, pushVars
    <2>2. ~(PollFull \/ PollWork \/ Copy \/ Clear) \/ mainAt' # mainAt \/ toCopy' # toCopy
      BY DEF PollFull, PollWork, Copy, Clear
    <2> QED
      BY <2>1, <2>2 DEF ToClear, Distance
  <1>2. CASE PollFull
    BY <1>2 DEF PollFull, PollNothing, PollWork, Copy, Clear, ToClear, Distance, mainVars
  <1>3. CASE PollWork
    <2>1. mainAt = "poll" /\ mainAt' = "copy" /\ toCopy' = Fields
      BY <1>3 DEF PollWork
    <2>2. ToClear = 5 /\ ToClear' = 4
      BY <2>1, CopySize DEF ToClear, Distance
    <2> QED
      BY <2>1, <2>2 DEF PollNothing, Clear, mainVars
  <1>4. CASE Copy
    <2>1. PICK f \in toCopy : toCopy' = toCopy \ {f}
      BY <1>4 DEF Copy
    <2>2. Cardinality(toCopy') = Cardinality(toCopy) - 1
      BY <2>1, CopySize, FS_RemoveElement DEF MainTypeOK
    <2>3. Cardinality(toCopy) \in Nat /\ Cardinality(toCopy') \in Nat
      BY <2>1, CopySize DEF MainTypeOK
    <2>4. mainAt = "copy" /\ mainAt' \in {"copy", "clear"}
      BY <1>4 DEF Copy
    <2>5. ToClear' < ToClear
      BY <2>2, <2>3, <2>4 DEF ToClear, Distance
    <2> QED
      BY <2>1, <2>4, <2>5 DEF PollNothing, Clear, mainVars, pushVars
  <1>5. CASE Clear
    BY <1>5 DEF Clear, PollNothing, PollFull, PollWork, Copy, ToClear, Distance, mainVars
  <1> QED
    BY <1>1, <1>2, <1>3, <1>4, <1>5

LEMMA TakeStep ==
  ASSUME TypeOK, TypeOK', [Next]_vars, workReady
  PROVE  TakeLeft' <= TakeLeft /\ (Main => TakeLeft' < TakeLeft)
  <1>1. MainTypeOK /\ MainTypeOK' /\ ToClear \in 1 .. 5 /\ ToClear' \in 1 .. 5
    BY DistanceBound DEF TypeOK, MainTypeOK, ToClear
  <1>2. CASE PollFull \/ PollWork \/ Copy
    BY <1>1, <1>2, ToClearStep DEF TakeLeft
  <1>3. CASE Clear
    BY <1>1, <1>3 DEF Clear, TakeLeft
  <1>4. CASE UNCHANGED mainVars
    <2>1. ToClear' = ToClear
      BY <1>1, <1>4, ToClearStep
    <2>2. ~Main
      <3>1. UNCHANGED <<mainAt, toCopy>>
        BY <1>4 DEF mainVars, pushVars
      <3> QED
        BY <3>1 DEF Main, MainStep, PollNothing, PollFull, PollWork, Copy, Clear
    <2> QED
      BY <1>1, <2>1, <2>2 DEF TakeLeft
  <1>5. ~PollNothing
    BY DEF PollNothing
  <1> QED
    BY <1>2, <1>3, <1>4, <1>5, MainCases

(* A work published is taken within five steps of the main thread.         *)
THEOREM WorkTakenOnTime == Spec => TakenOnTime /\ [](TakeLeft \in 0 .. 5)
  <1>1. ASSUME TypeOK, TypeOK', [Next]_vars
        PROVE  [workReady => TakeLeft' <= TakeLeft /\ (Main => TakeLeft' < TakeLeft)]_vars
    BY <1>1, TakeStep
  <1>2. ASSUME TypeOK PROVE TakeLeft \in 0 .. 5
    BY <1>2, DistanceBound DEF TypeOK, MainTypeOK, ToClear, TakeLeft
  <1> QED
    BY <1>1, <1>2, TypesCorrect, PTL DEF Spec, TakenOnTime

LEMMA StageStep ==
  ASSUME TypeOK, TypeOK', [Next]_vars, numWork > 0
  PROVE  /\ StageLeft' <= StageLeft
         /\ Main /\ StageLeft # 0 => StageLeft' < StageLeft
  <1>1. MainTypeOK /\ MainTypeOK' /\ ToClear \in 1 .. 5 /\ ToClear' \in 1 .. 5
    BY DistanceBound DEF TypeOK, MainTypeOK, ToClear
  <1>2. schedState \in {"READY", "RECALIBRATION", "COMPUTING"}
        /\ schedState' \in {"READY", "RECALIBRATION", "COMPUTING"} /\ numWork \in Nat
    BY <1>1 DEF MainTypeOK, SchedulerTypeOK
  <1>3. CASE SCHEDULER_Bkgnd
    <2>1. CASE Select
      BY <1>1, <2>1 DEF Select, StageLeft
    <2>2. CASE Stage
      BY <1>1, <2>2 DEF Stage, StageLeft
    <2>3. CASE Wait
      <3>1. schedState = "COMPUTING" /\ schedState' = "COMPUTING"
        BY <1>2, <2>3 DEF Wait, schedulerVars
      <3> QED
        BY <3>1 DEF StageLeft
    <2> QED
      BY <1>3, <2>1, <2>2, <2>3 DEF SCHEDULER_Bkgnd
  <1>4. CASE PollFull \/ PollWork \/ Copy
    <2>1. schedState' = schedState
      BY <1>4 DEF PollFull, PollWork, Copy, Reserve, schedulerVars
    <2>2. ToClear' < ToClear
      BY <1>1, <1>4, ToClearStep
    <2> QED
      BY <1>1, <1>2, <2>1, <2>2 DEF StageLeft
  <1>5. CASE UNCHANGED mainVars
    <2>1. ToClear' = ToClear
      BY <1>1, <1>5, ToClearStep
    <2>2. schedState' = schedState
      BY <1>5 DEF mainVars, schedulerVars
    <2>3. Main => SCHEDULER_Bkgnd
      <3>1. UNCHANGED <<mainAt, toCopy>>
        BY <1>5 DEF mainVars, pushVars
      <3> QED
        BY <3>1 DEF Main, MainStep, PollNothing, PollFull, PollWork, Copy, Clear
    <2> QED
      BY <1>1, <1>2, <1>3, <2>1, <2>2, <2>3 DEF StageLeft
  <1> QED
    BY <1>3, <1>4, <1>5, MainCases DEF PollNothing, Clear

(* The first work queued is staged within eleven steps of the main thread, *)
(* and no distance left means that the fabric has it.                      *)
THEOREM FirstWorkStagedOnTime ==
  Spec => StagedOnTime /\ [](StageLeft \in 0 .. 11 /\ (StageLeft = 0 <=> staged = 0))
  <1>1. ASSUME TypeOK, TypeOK', [Next]_vars
        PROVE  [numWork > 0 => /\ StageLeft' <= StageLeft
                               /\ Main /\ StageLeft # 0 => StageLeft' < StageLeft]_vars
    BY <1>1, StageStep
  <1>2. ASSUME MinerInv PROVE StageLeft \in 0 .. 11 /\ (StageLeft = 0 <=> staged = 0)
    <2>1. ToClear \in 1 .. 5 /\ schedState \in {"READY", "RECALIBRATION", "COMPUTING"}
      BY <1>2, DistanceBound DEF MinerInv, TypeOK, MainTypeOK, SchedulerTypeOK, ToClear
    <2>2. schedState = "COMPUTING" <=> staged = 0
      BY <1>2 DEF MinerInv, QueueInv
    <2> QED
      BY <2>1, <2>2 DEF StageLeft
  <1> QED
    BY <1>1, <1>2, TypesCorrect, MinerInvariant, PTL DEF Spec, StagedOnTime

LEMMA BrokenAt ==
  ASSUME PlaceInv, SpinInv, Broken
  PROVE  /\ alive /\ eState \in {"LISTENING", "PUBLISHING"}
         /\ at \in {"receive", "decode", "job", "publish"}
         /\ ~(at = "decode" /\ buf = <<>>) => sock.link = "reset" /\ ~partial
  BY DEF PlaceInv, SpinInv, Broken, Listening

LEMMA ReconnectStep ==
  ASSUME PlaceInv, SpinInv, Sound(sock), [Next]_vars, Broken
  PROVE  /\ Broken' \/ ~Listening'
         /\ ReconnectLeft' <= ReconnectLeft
         /\ Client => ReconnectLeft' < ReconnectLeft
  <1> DEFINE Closer == (Broken' \/ ~Listening') /\ ReconnectLeft' < ReconnectLeft
  <1>1. ReconnectLeft \in 1 .. 5 /\ ReconnectLeft' \in 0 .. 5
    BY DEF ReconnectLeft
  <1>2. CASE ClientStep
    <2>1. ASSUME RxError PROVE Closer
      BY <2>1, BrokenAt DEF RxError, Goto, Broken, Listening, ReconnectLeft
    <2>2. ASSUME Reconnect PROVE Closer
      BY <2>2, BrokenAt DEF Reconnect, Enter, rxVars, Broken, Listening, ReconnectLeft
    <2>3. ASSUME Ignore PROVE Closer
      BY <2>3, BrokenAt DEF Ignore, StartRx, Goto, Broken, Listening, ReconnectLeft
    <2>4. ASSUME ResJobDiff PROVE Closer
      BY <2>4, BrokenAt DEF ResJobDiff, Goto, rxVars, Broken, Listening, ReconnectLeft
    <2>5. ASSUME ResJob PROVE Closer
      <3>1. at = "job" /\ sock.link = "reset" /\ ~partial /\ ReconnectLeft = 4
        BY <2>5, BrokenAt DEF ResJob, ReconnectLeft
      <3>2. CASE First(buf) = "notify"
        <4>1. at' = "publish" /\ UNCHANGED <<alive, eState, buf, partial, sock>>
          BY <2>5, <3>2 DEF ResJob, Goto, rxVars
        <4> QED
          BY <3>1, <4>1 DEF Broken, Listening, ReconnectLeft
      <3>3. CASE First(buf) # "notify"
        <4>1. ~alive' /\ ~Listening'
          BY <2>5, <3>3 DEF ResJob, Die, Listening
        <4> QED
          BY <3>1, <4>1 DEF Broken, ReconnectLeft
      <3> QED
        BY <3>2, <3>3
    <2>6. ASSUME Publish PROVE Closer
      BY <2>6, BrokenAt DEF Publish, StartRx, Goto, Broken, Listening, ReconnectLeft
    <2>7. ~RxLines /\ ~RxPart /\ ~RxClosed
      <3>1. at = "receive" => sock.link = "reset"
        BY BrokenAt
      <3>2. ~RxClosed
        BY <3>1 DEF RxClosed
      <3>3. ~RxLines /\ ~RxPart
        BY <3>1, RxLinesReads, RxPartReads DEF RxLines, RxPart
      <3> QED
        BY <3>2, <3>3
    <2>8. ~(\/ BeginConnect \/ AddressFails \/ AddressConnects \/ SendSubscribe \/ ConnectReturns
            \/ TxPool \/ ResConnectNonce \/ ResConnectDiff \/ ResConnectJob \/ AuthenticateReturns)
      BY BrokenAt DEF BeginConnect, AddressFails, AddressConnects, SendSubscribe, ConnectReturns,
           TxPool, ResConnectNonce, ResConnectDiff, ResConnectJob, AuthenticateReturns
    <2>9. Closer
      BY <1>2, <2>1, <2>2, <2>3, <2>4, <2>5, <2>6, <2>7, <2>8 DEF ClientStep
    <2> QED
      BY <1>1, <2>9
  <1>3. ASSUME UNCHANGED threadVars, sock.link = "reset" => sock'.link = "reset"
        PROVE  Broken' /\ ReconnectLeft' = ReconnectLeft
    <2>1. Broken'
      BY <1>3 DEF threadVars, Broken, Listening
    <2> QED
      BY <1>3, <2>1 DEF threadVars, ReconnectLeft
  <1>4. CASE PoolStep /\ UNCHANGED threadVars
    <2>1. sock.link # "reset"
      BY <1>4 DEF PoolStep, AnswerSubscribe, AnswerAuthorize, Announce, Notify, CanSend, Close, Reset
    <2> QED
      BY <1>1, <1>2, <1>3, <1>4, <2>1 DEF Client
  <1>5. CASE UNCHANGED <<threadVars, sock>>
    BY <1>1, <1>2, <1>3, <1>5 DEF Client
  <1> QED
    BY <1>2, <1>4, <1>5, Threads DEF vars, clientVars, rxVars, sharedVars, threadVars

(* A broken connection is replaced within five steps of the thread that    *)
(* listens to it, at whichever of its places the break catches it, if no   *)
(* part of a line is all it has received; and it is never caught in a loop *)
(* on its socket before that.                                              *)
THEOREM BrokenReplacedOnTime ==
  Spec => ReconnectsOnTime /\ [](ReconnectLeft \in 0 .. 5 /\ (ReconnectLeft = 0 <=> ~Broken))
  <1>1. ASSUME MinerInv, [Next]_vars
        PROVE  [Broken => /\ Broken' \/ ~Listening'
                          /\ ReconnectLeft' <= ReconnectLeft
                          /\ Client => ReconnectLeft' < ReconnectLeft]_vars
    <2>1. PlaceInv /\ SpinInv /\ Sound(sock)
      BY <1>1, SockParts DEF MinerInv, TypeOK
    <2> QED
      BY <1>1, <2>1, ReconnectStep
  <1>2. ReconnectLeft \in 0 .. 5 /\ (ReconnectLeft = 0 <=> ~Broken)
    BY DEF ReconnectLeft
  <1> QED
    BY <1>1, <1>2, MinerInvariant, PTL DEF Spec, ReconnectsOnTime

(* A break between the parts of a line leaves the thread in RxPool for     *)
(* good: nothing that either thread or the pool may do takes it out        *)
(* (STRATUM.c:691, 712).                                                   *)
THEOREM MidLineBreakIsFinal == Spec => MidLineBreakHangs
  <1>1. ASSUME MinerInv, [Next]_vars, BrokenMidLine PROVE BrokenMidLine'
    <2>1. /\ alive /\ eState \in {"LISTENING", "PUBLISHING"} /\ at \in {"receive", "spin"}
          /\ partial /\ sock.link \in {"reset", "down"} /\ sock.wire = <<>>
      BY <1>1 DEF MinerInv, BrokenMidLine, Listening, PartialInv, SockInv
    <2>2. ~PoolStep
      BY <2>1 DEF PoolStep, AnswerSubscribe, AnswerAuthorize, Announce, Notify, CanSend, Close, Reset
    <2>3. CASE ClientStep
      <3>3. ~RxLines /\ ~RxPart
        BY <1>1, <2>1, RxLinesReads, RxPartReads, SockParts DEF MinerInv, TypeOK
      <3>1. RxError \/ RxClosed
        BY <2>1, <2>3, <3>3 DEF ClientStep, BeginConnect, AddressFails, AddressConnects,
             SendSubscribe, ConnectReturns, TxPool, ResConnectNonce, ResConnectDiff,
             ResConnectJob, AuthenticateReturns, Reconnect, Ignore, ResJobDiff, ResJob, Publish
      <3>2. UNCHANGED <<alive, eState, partial>> /\ sock'.link \in {"reset", "down"}
        BY <1>1, <2>1, <3>1, SockParts DEF RxError, RxClosed, rxVars, MinerInv, TypeOK, SockTypeOK
      <3> QED
        BY <2>1, <3>2 DEF BrokenMidLine, Listening
    <2>4. CASE UNCHANGED <<threadVars, sock>>
      BY <2>1, <2>4 DEF threadVars, BrokenMidLine, Listening
    <2> QED
      BY <1>1, <2>2, <2>3, <2>4, Threads DEF vars, clientVars, rxVars, sharedVars, threadVars
  <1> QED
    BY <1>1, MinerInvariant, PTL DEF Spec, MidLineBreakHangs
=============================================================================
