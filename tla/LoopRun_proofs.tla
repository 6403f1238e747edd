---------------------------- MODULE LoopRun_proofs ----------------------------
(***************************************************************************)
(* The safety of LoopRun for every definition of a loop, any number of     *)
(* agents and of dispatches, and inboxes of every size.                    *)
(*                                                                         *)
(* LoopInv is inductive: every message in the system carries the nonce of  *)
(* the dispatch it descends from, every hop is within its budget and no    *)
(* later than the present dispatch, and no two places hold hops of the     *)
(* same dispatch.                                                          *)
(*                                                                         *)
(* And the safety of what is around it: LoopLeases, the instances that     *)
(* loops reserve.                                                          *)
(***************************************************************************)
EXTENDS MCLoopRun, SequenceTheorems, WellFoundedInduction, TLAPS

\* A hop that says truly where it comes from and may still go on.
SoundHop == {h \in Hop : /\ h.nonce = h.of /\ h.of <= nonce
                         /\ h.count <= def.max
                         /\ h.count > 0 => ~IsTerminal(def, h.state)}

SoundReport == {r \in Report : r.nonce = r.of}

\* What an agent holds, in the order in which it will be done with it.
Lines == [a \in Agents |-> work[a] \o inbox[a]]

Unique(line) ==
    \A a, b \in Agents : \A i \in 1 .. Len(line[a]), j \in 1 .. Len(line[b]) :
       line[a][i].of = line[b][j].of => a = b /\ i = j

\* No hop of dispatch d is held.
Fresh(line, d) == \A a \in Agents : \A i \in 1 .. Len(line[a]) : line[a][i].of # d

QueuesInv == /\ inbox \in [Agents -> Seq(SoundHop)]
             /\ work \in [Agents -> Seq(SoundHop)]
             /\ \A a \in Agents : Len(inbox[a]) <= InboxSize /\ Len(work[a]) <= 1
             /\ Unique(Lines)

LoopInv == TypeOK /\ QueuesInv /\ mail \in Seq(SoundReport)

-----------------------------------------------------------------------------
(* An agent that is done with its message, or has lost all of them, does   *)
(* not make two hops of one.                                               *)
LEMMA UniqueTail ==
    ASSUME NEW line \in [Agents -> Seq(Hop)], Unique(line), NEW a \in Agents, line[a] # <<>>
    PROVE  /\ [line EXCEPT ![a] = Tail(@)] \in [Agents -> Seq(Hop)]
           /\ Unique([line EXCEPT ![a] = Tail(@)])
           /\ Fresh([line EXCEPT ![a] = Tail(@)], line[a][1].of)
<1> DEFINE rest == [line EXCEPT ![a] = Tail(@)]
<1>1. /\ line[a] \in Seq(Hop) /\ Len(line[a]) \in Nat \ {0}
      /\ Tail(line[a]) \in Seq(Hop) /\ Len(Tail(line[a])) = Len(line[a]) - 1
      /\ \A i \in 1 .. Len(Tail(line[a])) : Tail(line[a])[i] = line[a][i + 1]
  BY HeadTailProperties, EmptySeq
<1>2. ASSUME NEW b \in Agents, NEW i \in 1 .. Len(rest[b])
      PROVE  \E k \in 1 .. Len(line[b]) : /\ rest[b][i] = line[b][k]
                                          /\ k = IF b = a THEN i + 1 ELSE i
  BY <1>1
<1>3. rest \in [Agents -> Seq(Hop)]
  BY <1>1
<1> HIDE DEF rest
<1>4. ASSUME NEW b \in Agents, NEW c \in Agents, NEW i \in 1 .. Len(rest[b]),
             NEW j \in 1 .. Len(rest[c]), rest[b][i].of = rest[c][j].of
      PROVE  b = c /\ i = j
  <2>1. PICK k \in 1 .. Len(line[b]) : rest[b][i] = line[b][k] /\ k = IF b = a THEN i + 1 ELSE i
    BY <1>2
  <2>2. PICK l \in 1 .. Len(line[c]) : rest[c][j] = line[c][l] /\ l = IF c = a THEN j + 1 ELSE j
    BY <1>2
  <2>3. b = c /\ k = l
    BY <1>4, <2>1, <2>2 DEF Unique
  <2> QED BY <2>1, <2>2, <2>3
<1>5. ASSUME NEW b \in Agents, NEW i \in 1 .. Len(rest[b]) PROVE rest[b][i].of # line[a][1].of
  <2>1. PICK k \in 1 .. Len(line[b]) : rest[b][i] = line[b][k] /\ k = IF b = a THEN i + 1 ELSE i
    BY <1>2
  <2>2. 1 \in 1 .. Len(line[a]) /\ ~(b = a /\ k = 1)
    BY <1>1, <2>1
  <2> QED BY <2>1, <2>2 DEF Unique
<1>6. Unique(rest) /\ Fresh(rest, line[a][1].of)
  BY <1>4, <1>5 DEF Unique, Fresh
<1> QED BY <1>3, <1>6 DEF rest

LEMMA UniqueClear ==
    ASSUME NEW line \in [Agents -> Seq(Hop)], Unique(line), NEW a \in Agents
    PROVE  Unique([line EXCEPT ![a] = <<>>])
<1>1. Len(<<>>) = 0
  OBVIOUS
<1> SUFFICES ASSUME NEW b \in Agents, NEW c \in Agents,
                    NEW i \in 1 .. Len([line EXCEPT ![a] = <<>>][b]),
                    NEW j \in 1 .. Len([line EXCEPT ![a] = <<>>][c]),
                    [line EXCEPT ![a] = <<>>][b][i].of = [line EXCEPT ![a] = <<>>][c][j].of
             PROVE  b = c /\ i = j
  BY DEF Unique
<1>2. b # a /\ c # a
  BY <1>1
<1> QED BY <1>2 DEF Unique

(* A hop of a dispatch that nobody holds may be sent to anybody.           *)
LEMMA UniqueAppend ==
    ASSUME NEW line \in [Agents -> Seq(Hop)], Unique(line), NEW a \in Agents,
           NEW h \in Hop, Fresh(line, h.of)
    PROVE  Unique([line EXCEPT ![a] = Append(@, h)])
<1> DEFINE more == [line EXCEPT ![a] = Append(@, h)]
<1>1. /\ line[a] \in Seq(Hop) /\ Len(line[a]) \in Nat
      /\ Len(Append(line[a], h)) = Len(line[a]) + 1
      /\ \A i \in 1 .. Len(line[a]) : Append(line[a], h)[i] = line[a][i]
      /\ Append(line[a], h)[Len(line[a]) + 1] = h
  BY AppendProperties
<1>2. ASSUME NEW b \in Agents, NEW i \in 1 .. Len(more[b])
      PROVE  \/ i \in 1 .. Len(line[b]) /\ more[b][i] = line[b][i]
             \/ b = a /\ i = Len(line[a]) + 1 /\ more[b][i] = h
  BY <1>1
<1> HIDE DEF more
<1> SUFFICES ASSUME NEW b \in Agents, NEW c \in Agents, NEW i \in 1 .. Len(more[b]),
                    NEW j \in 1 .. Len(more[c]), more[b][i].of = more[c][j].of
             PROVE  b = c /\ i = j
  BY DEF Unique, more
<1>3. CASE i \in 1 .. Len(line[b]) /\ more[b][i] = line[b][i]
  <2>1. line[b][i].of # h.of
    BY <1>3 DEF Fresh
  <2>2. j \in 1 .. Len(line[c]) /\ more[c][j] = line[c][j]
    BY <1>2, <1>3, <2>1
  <2> QED BY <1>3, <2>2 DEF Unique
<1>4. CASE b = a /\ i = Len(line[a]) + 1 /\ more[b][i] = h
  <2>1. ~(j \in 1 .. Len(line[c]) /\ more[c][j] = line[c][j])
    BY <1>4 DEF Fresh
  <2> QED BY <1>2, <1>4, <2>1
<1> QED BY <1>2, <1>3, <1>4

-----------------------------------------------------------------------------
(* What the agents hold, step by step.                                     *)

LEMMA QueueMonotone ==
    ASSUME NEW S, NEW T, S \subseteq T, NEW f \in [Agents -> Seq(S)]
    PROVE  f \in [Agents -> Seq(T)]
<1>1. \A a \in Agents : f[a] \in Seq(T)
  BY SeqMonotonic
<1> QED BY <1>1

LEMMA HoldsHops ==
    ASSUME QueuesInv
    PROVE  /\ inbox \in [Agents -> Seq(Hop)] /\ work \in [Agents -> Seq(Hop)]
           /\ Lines \in [Agents -> Seq(Hop)]
<1>1. SoundHop \subseteq Hop
  BY DEF SoundHop
<1>2. inbox \in [Agents -> Seq(Hop)] /\ work \in [Agents -> Seq(Hop)]
  BY <1>1, QueueMonotone DEF QueuesInv
<1>3. \A a \in Agents : work[a] \o inbox[a] \in Seq(Hop)
  BY <1>2, ConcatProperties
<1> QED BY <1>2, <1>3 DEF Lines

LEMMA FirstAndRest ==
    ASSUME NEW S, NEW x \in S, NEW s \in Seq(S)
    PROVE  <<x>> \o s # <<>> /\ (<<x>> \o s)[1] = x /\ Tail(<<x>> \o s) = s
<1> DEFINE t == <<x>> \o s
<1>1. <<x>> \in Seq(S) /\ Len(<<x>>) = 1 /\ <<x>>[1] = x /\ Len(s) \in Nat
  OBVIOUS
<1>2. /\ t \in Seq(S) /\ Len(t) = Len(<<x>>) + Len(s)
      /\ \A i \in 1 .. Len(<<x>>) + Len(s) :
            t[i] = IF i <= Len(<<x>>) THEN <<x>>[i] ELSE s[i - Len(<<x>>)]
  BY <1>1, ConcatProperties
<1> HIDE DEF t
<1>3. Len(t) = 1 + Len(s) /\ t[1] = x /\ \A i \in 2 .. Len(s) + 1 : t[i] = s[i - 1]
  BY <1>1, <1>2
<1>4. t # <<>>
  BY <1>1, <1>2, <1>3, EmptySeq
<1>5. /\ Tail(t) \in Seq(S) /\ Len(Tail(t)) = Len(t) - 1
      /\ \A i \in 1 .. Len(Tail(t)) : Tail(t)[i] = t[i + 1]
  BY <1>2, <1>4, HeadTailProperties
<1>6. \A i \in 1 .. Len(s) : i + 1 \in 2 .. Len(s) + 1 /\ (i + 1) - 1 = i
  BY <1>1
<1>7. Len(Tail(t)) = Len(s) /\ \A i \in 1 .. Len(Tail(t)) : Tail(t)[i] = s[i]
  BY <1>1, <1>3, <1>5, <1>6
<1>8. Tail(t) = s
  BY <1>5, <1>7, SeqEqual
<1> QED BY <1>3, <1>4, <1>8 DEF t

LEMMA HeadAndTail ==
    ASSUME NEW S, NEW s \in Seq(S), s # <<>>
    PROVE  <<Head(s)>> \o Tail(s) = s
<1> DEFINE t == <<Head(s)>> \o Tail(s)
<1>1. /\ Head(s) \in S /\ Tail(s) \in Seq(S) /\ Len(Tail(s)) = Len(s) - 1 /\ Head(s) = s[1]
      /\ \A i \in 1 .. Len(Tail(s)) : Tail(s)[i] = s[i + 1]
      /\ Len(s) \in Nat /\ Len(s) # 0
  BY HeadTailProperties, EmptySeq
<1>2. <<Head(s)>> \in Seq(S) /\ Len(<<Head(s)>>) = 1 /\ <<Head(s)>>[1] = s[1]
  BY <1>1
<1>3. /\ t \in Seq(S) /\ Len(t) = Len(<<Head(s)>>) + Len(Tail(s))
      /\ \A i \in 1 .. Len(<<Head(s)>>) + Len(Tail(s)) :
            t[i] = IF i <= Len(<<Head(s)>>) THEN <<Head(s)>>[i] ELSE Tail(s)[i - Len(<<Head(s)>>)]
  BY <1>1, <1>2, ConcatProperties
<1> HIDE DEF t
<1>4. Len(t) = Len(s)
  BY <1>1, <1>2, <1>3
<1>5. ASSUME NEW i \in 1 .. Len(t) PROVE t[i] = s[i]
  <2>1. CASE i = 1
    BY <2>1, <1>1, <1>2, <1>3
  <2>2. CASE i # 1
    <3>1. i - 1 \in 1 .. Len(Tail(s)) /\ (i - 1) + 1 = i
      BY <2>2, <1>1, <1>4
    <3> QED BY <2>2, <3>1, <1>1, <1>2, <1>3
  <2> QED BY <2>1, <2>2
<1>6. t = s
  BY <1>3, <1>4, <1>5, SeqEqual
<1> QED BY <1>6 DEF t

LEMMA AppendToConcat ==
    ASSUME NEW S, NEW s \in Seq(S), NEW t \in Seq(S), NEW x \in S
    PROVE  s \o Append(t, x) = Append(s \o t, x)
<1>1. <<x>> \in Seq(S) /\ s \o t \in Seq(S)
  BY ConcatProperties
<1>2. Append(t, x) = t \o <<x>> /\ Append(s \o t, x) = (s \o t) \o <<x>>
  BY <1>1, AppendIsConcat
<1>3. (s \o t) \o <<x>> = s \o (t \o <<x>>)
  BY <1>1, ConcatAssociative
<1> QED BY <1>2, <1>3

LEMMA Single ==
    ASSUME NEW S, NEW s \in Seq(S), Len(s) <= 1, s # <<>>
    PROVE  s[1] \in S /\ s = <<s[1]>>
<1>1. Len(s) \in Nat /\ Len(s) # 0
  BY EmptySeq
<1>2. Len(s) = 1
  BY <1>1
<1> QED BY <1>2

(* The message in work is the first of the line.                           *)
LEMMA AtWork ==
    ASSUME LoopInv, NEW a \in Agents, Working(a)
    PROVE  /\ work[a] = <<At(a)>> /\ At(a) \in SoundHop
           /\ Lines[a] # <<>> /\ Lines[a][1] = At(a) /\ Tail(Lines[a]) = inbox[a]
<1>1. work[a] \in Seq(SoundHop) /\ Len(work[a]) <= 1 /\ work[a] # <<>>
  BY DEF LoopInv, QueuesInv, Working
<1>3. At(a) \in SoundHop
  BY <1>1, Single DEF At
<1>4. work[a] = <<At(a)>>
  BY <1>1, Single DEF At
<1>5. inbox[a] \in Seq(Hop) /\ At(a) \in Hop
  BY <1>3, HoldsHops DEF LoopInv, SoundHop
<1>6. Lines[a] = <<At(a)>> \o inbox[a]
  BY <1>4 DEF Lines
<1> QED BY <1>3, <1>4, <1>5, <1>6, FirstAndRest

LEMMA QueuesUnchanged == QueuesInv /\ UNCHANGED <<def, nonce, inbox, work>> => QueuesInv'
<1> SUFFICES ASSUME QueuesInv, UNCHANGED <<def, nonce, inbox, work>>
             PROVE  QueuesInv'
  OBVIOUS
<1>1. Lines' = Lines
  BY DEF Lines
<1>2. SoundHop' = SoundHop
  BY DEF SoundHop
<1>3. Unique(Lines)' = Unique(Lines)
  BY <1>1 DEF Unique
<1> QED BY <1>1, <1>2, <1>3 DEF QueuesInv

(* An agent that is done with its message.                                 *)
LEMMA QueuesDone ==
    ASSUME LoopInv, NEW a \in Agents, Working(a), UNCHANGED <<def, nonce, inbox>>,
           work' = [work EXCEPT ![a] = <<>>]
    PROVE  QueuesInv' /\ Lines' = [Lines EXCEPT ![a] = Tail(@)] /\ Fresh(Lines', At(a).of)
<1>1. SoundHop' = SoundHop
  BY DEF SoundHop
<1>2. work' \in [Agents -> Seq(SoundHop)] /\ \A b \in Agents : Len(work'[b]) <= 1
  BY EmptySeq DEF LoopInv, QueuesInv
<1>3. Lines' = [Lines EXCEPT ![a] = Tail(@)]
  BY AtWork, HoldsHops, ConcatEmptySeq DEF Lines, LoopInv, QueuesInv
<1>4. Unique(Lines') /\ Fresh(Lines', At(a).of)
  BY <1>3, AtWork, HoldsHops, UniqueTail DEF LoopInv, QueuesInv
<1> QED BY <1>1, <1>2, <1>3, <1>4 DEF LoopInv, QueuesInv

(* A hop that is sent on, by the agent that held the dispatch.             *)
LEMMA QueuesSent ==
    ASSUME LoopInv, NEW a \in Agents, Working(a), NEW to \in Agents, Accepts(to),
           NEW h \in SoundHop, h.of = At(a).of, UNCHANGED <<def, nonce>>,
           inbox' = [inbox EXCEPT ![to] = Append(@, h)], work' = [work EXCEPT ![a] = <<>>]
    PROVE  QueuesInv'
<1> DEFINE rest == [Lines EXCEPT ![a] = Tail(@)]
<1>1. SoundHop' = SoundHop /\ h \in Hop
  BY DEF SoundHop
<1>2. work' \in [Agents -> Seq(SoundHop)] /\ \A b \in Agents : Len(work'[b]) <= 1
  BY EmptySeq DEF LoopInv, QueuesInv
<1>3. /\ inbox' \in [Agents -> Seq(SoundHop)]
      /\ \A b \in Agents : Len(inbox'[b]) <= InboxSize
  <2>1. /\ inbox[to] \in Seq(SoundHop) /\ Append(inbox[to], h) \in Seq(SoundHop)
        /\ Len(Append(inbox[to], h)) = Len(inbox[to]) + 1 /\ Len(inbox[to]) \in Nat
    BY AppendProperties DEF LoopInv, QueuesInv
  <2>2. Len(inbox[to]) + 1 <= InboxSize
    BY <2>1, LoopAssumption DEF Accepts
  <2> QED BY <2>1, <2>2 DEF LoopInv, QueuesInv
<1>4. /\ rest \in [Agents -> Seq(Hop)] /\ Unique(rest) /\ Fresh(rest, h.of)
  <2>1. Lines \in [Agents -> Seq(Hop)] /\ Unique(Lines)
    BY HoldsHops DEF LoopInv, QueuesInv
  <2>2. Lines[a] # <<>> /\ Lines[a][1].of = h.of
    BY AtWork
  <2> QED BY <2>1, <2>2, UniqueTail
<1>5. Lines' = [rest EXCEPT ![to] = Append(@, h)]
  <2>1. ASSUME NEW b \in Agents
        PROVE  work'[b] \o inbox'[b] = [rest EXCEPT ![to] = Append(@, h)][b]
    <3>1. /\ inbox[b] \in Seq(Hop) /\ work[b] \in Seq(Hop)
          /\ inbox'[b] = IF b = to THEN Append(inbox[b], h) ELSE inbox[b]
          /\ work'[b] = IF b = a THEN <<>> ELSE work[b]
      BY HoldsHops DEF LoopInv
    <3>2. work'[b] \in Seq(Hop) /\ inbox'[b] \in Seq(Hop)
      BY <1>1, <3>1, EmptySeq, AppendProperties
    <3>3. rest[b] = work'[b] \o inbox[b]
      BY <3>1, AtWork, ConcatEmptySeq DEF Lines
    <3>4. work'[b] \o Append(inbox[b], h) = Append(work'[b] \o inbox[b], h)
      <4>1. h \in Hop /\ work'[b] \in Seq(Hop) /\ inbox[b] \in Seq(Hop)
        BY <1>1, <3>1, <3>2
      <4>2. \A s, t \in Seq(Hop), x \in Hop : s \o Append(t, x) = Append(s \o t, x)
        BY AppendToConcat
      <4> QED BY <4>1, <4>2, Zenon
    <3> QED BY <3>1, <3>3, <3>4, <1>4
  <2> QED BY <2>1, <1>4 DEF Lines
<1>6. Unique(Lines')
  BY <1>1, <1>4, <1>5, UniqueAppend
<1> QED BY <1>1, <1>2, <1>3, <1>6 DEF QueuesInv

(* A message is taken into work: the line stays as it is.                  *)
LEMMA QueuesTaken ==
    ASSUME LoopInv, NEW a \in Agents, work[a] = <<>>, inbox[a] # <<>>,
           UNCHANGED <<def, nonce>>, inbox' = [inbox EXCEPT ![a] = Tail(@)],
           work' = [work EXCEPT ![a] = <<Head(inbox[a])>>]
    PROVE  QueuesInv' /\ Head(inbox[a]) \in SoundHop
<1>1. SoundHop' = SoundHop
  BY DEF SoundHop
<1>2. inbox[a] \in Seq(SoundHop) /\ Len(inbox[a]) <= InboxSize
  BY DEF LoopInv, QueuesInv
<1>3. /\ Head(inbox[a]) \in SoundHop /\ Tail(inbox[a]) \in Seq(SoundHop)
      /\ Len(Tail(inbox[a])) = Len(inbox[a]) - 1 /\ Len(inbox[a]) \in Nat
  BY <1>2, HeadTailProperties, EmptySeq
<1>4. Len(Tail(inbox[a])) <= InboxSize
  BY <1>2, <1>3, LoopAssumption
<1>5. <<Head(inbox[a])>> \in Seq(SoundHop) /\ Len(<<Head(inbox[a])>>) = 1
  BY <1>3
<1>6. /\ inbox' \in [Agents -> Seq(SoundHop)] /\ work' \in [Agents -> Seq(SoundHop)]
      /\ \A b \in Agents : Len(inbox'[b]) <= InboxSize /\ Len(work'[b]) <= 1
  BY <1>3, <1>4, <1>5 DEF LoopInv, QueuesInv
<1>7. Lines' = Lines
  <2>1. inbox[a] \in Seq(Hop) /\ Head(inbox[a]) \in Hop /\ Tail(inbox[a]) \in Seq(Hop)
    BY HoldsHops, HeadTailProperties DEF LoopInv
  <2>2. <<Head(inbox[a])>> \o Tail(inbox[a]) = inbox[a]
    BY <2>1, HeadAndTail
  <2>3. <<>> \o inbox[a] = inbox[a]
    BY <2>1, ConcatEmptySeq
  <2>4. work'[a] \o inbox'[a] = work[a] \o inbox[a]
    BY <2>2, <2>3, HoldsHops DEF LoopInv
  <2>5. ASSUME NEW b \in Agents \ {a} PROVE work'[b] \o inbox'[b] = work[b] \o inbox[b]
    BY HoldsHops DEF LoopInv
  <2> QED BY <2>4, <2>5 DEF Lines
<1> QED BY <1>1, <1>3, <1>6, <1>7 DEF LoopInv, QueuesInv

(* The first hop of a dispatch that nobody can have seen.                  *)
LEMMA QueuesDispatched ==
    ASSUME LoopInv, NEW to \in Agents, Accepts(to), nonce' = nonce + 1, UNCHANGED <<def, work>>,
           NEW h \in Hop, h.nonce = nonce', h.of = nonce', h.count = 0,
           inbox' = [inbox EXCEPT ![to] = Append(@, h)]
    PROVE  QueuesInv'
<1>1. SoundHop \subseteq SoundHop' /\ nonce \in Nat
  BY LoopAssumption DEF SoundHop, LoopInv, TypeOK, Hop, Nonces
<1>2. h \in SoundHop'
  BY LoopAssumption DEF SoundHop, LoopInv, TypeOK, Hop, Nonces
<1>3. inbox \in [Agents -> Seq(SoundHop')] /\ work \in [Agents -> Seq(SoundHop')]
  BY <1>1, QueueMonotone DEF LoopInv, QueuesInv
<1>4. inbox[to] \in Seq(SoundHop') /\ Len(inbox[to]) \in Nat
  BY <1>3, LenProperties
<1>5. Append(inbox[to], h) \in Seq(SoundHop') /\ Len(Append(inbox[to], h)) = Len(inbox[to]) + 1
  BY <1>2, <1>4, AppendProperties
<1>6. Len(inbox[to]) + 1 <= InboxSize
  BY <1>4, LoopAssumption DEF Accepts
<1>7. /\ inbox' \in [Agents -> Seq(SoundHop')] /\ work' \in [Agents -> Seq(SoundHop')]
      /\ \A b \in Agents : Len(inbox'[b]) <= InboxSize /\ Len(work'[b]) <= 1
  BY <1>3, <1>5, <1>6 DEF LoopInv, QueuesInv
<1>8. Fresh(Lines, nonce')
  <2> SUFFICES ASSUME NEW b \in Agents, NEW i \in 1 .. Len(Lines[b])
               PROVE  Lines[b][i].of # nonce'
    BY DEF Fresh
  <2>1. inbox[b] \in Seq(SoundHop) /\ work[b] \in Seq(SoundHop)
    BY DEF LoopInv, QueuesInv
  <2>2. Lines[b] \in Seq(SoundHop)
    BY <2>1, ConcatProperties DEF Lines
  <2>3. Lines[b][i] \in SoundHop
    BY <2>2, ElementOfSeq
  <2> QED BY <1>1, <2>3 DEF SoundHop, Hop, Nonces
<1>9. Lines' = [Lines EXCEPT ![to] = Append(@, h)]
  <2>1. inbox[to] \in Seq(Hop) /\ work[to] \in Seq(Hop) /\ inbox \in [Agents -> Seq(Hop)]
    BY HoldsHops DEF LoopInv
  <2>2. \A s, t \in Seq(Hop), x \in Hop : s \o Append(t, x) = Append(s \o t, x)
    BY AppendToConcat
  <2>3. work[to] \o Append(inbox[to], h) = Append(work[to] \o inbox[to], h)
    BY <2>1, <2>2, Zenon
  <2> QED BY <2>1, <2>3 DEF Lines
<1>10. Unique(Lines')
  BY <1>8, <1>9, HoldsHops, UniqueAppend DEF LoopInv, QueuesInv
<1> QED BY <1>7, <1>10 DEF QueuesInv

(* An instance that crashes forgets what it holds.                         *)
LEMMA QueuesCrashed ==
    ASSUME LoopInv, NEW a \in Agents, UNCHANGED <<def, nonce>>,
           inbox' = [inbox EXCEPT ![a] = <<>>], work' = [work EXCEPT ![a] = <<>>]
    PROVE  QueuesInv'
<1>1. SoundHop' = SoundHop
  BY DEF SoundHop
<1>2. <<>> \in Seq(SoundHop) /\ Len(<<>>) = 0 /\ <<>> \o <<>> = <<>>
  BY EmptySeq
<1>3. /\ inbox' \in [Agents -> Seq(SoundHop)] /\ work' \in [Agents -> Seq(SoundHop)]
      /\ \A b \in Agents : Len(inbox'[b]) <= InboxSize /\ Len(work'[b]) <= 1
  BY <1>2, LoopAssumption DEF LoopInv, QueuesInv
<1>4. Lines' = [Lines EXCEPT ![a] = <<>>]
  BY <1>2, HoldsHops DEF Lines, LoopInv
<1>5. Unique(Lines')
  BY <1>4, HoldsHops, UniqueClear DEF LoopInv, QueuesInv
<1> QED BY <1>1, <1>3, <1>5 DEF QueuesInv

-----------------------------------------------------------------------------
(* The types and the conductor's mail, step by step.                       *)

LEMMA TellType ==
    ASSUME LoopInv, NEW r \in SoundReport, Tell(r)
    PROVE  /\ mail' \in Seq(SoundReport) /\ Len(mail') <= MailSize
           /\ lost' \in SUBSET Nonces
<1>1. mail \in Seq(SoundReport) /\ Len(mail) <= MailSize /\ Len(mail) \in Nat
  BY LenProperties DEF LoopInv, TypeOK
<1>2. r.of \in Nonces
  BY DEF SoundReport, Report
<1>3. CASE Len(mail) < MailSize
  <2>1. mail' = Append(mail, r) /\ lost' = lost
    BY <1>3 DEF Tell
  <2>2. mail' \in Seq(SoundReport) /\ Len(mail') = Len(mail) + 1
    BY <1>1, <2>1, AppendProperties
  <2> QED BY <1>1, <1>3, <2>1, <2>2, LoopAssumption DEF LoopInv, TypeOK
<1>4. CASE ~(Len(mail) < MailSize)
  BY <1>1, <1>2, <1>4 DEF Tell, LoopInv, TypeOK
<1> QED BY <1>3, <1>4

(* What the agents hold is typed by QueuesInv, whoever moved it.           *)
LEMMA TypeFromQueues ==
    ASSUME LoopInv, QueuesInv', UNCHANGED <<def, timeouts>>,
           status' \in {"pending", "running", "completed", "failed", "escalated"},
           nonce' \in 0 .. MaxDispatches, assigned' \in Agents \cup {NoAgent},
           mail' \in Seq(SoundReport), Len(mail') <= MailSize, up' \in SUBSET Agents,
           crashes' \in 0 .. MaxCrashes, lost' \in SUBSET Nonces
    PROVE  LoopInv'
<1>1. SoundHop' \subseteq Hop /\ SoundReport \subseteq Report
  BY DEF SoundHop, SoundReport
<1>2. inbox' \in [Agents -> Seq(Hop)] /\ work' \in [Agents -> Seq(Hop)]
  BY <1>1, QueueMonotone DEF QueuesInv
<1>3. mail' \in Seq(Report)
  BY <1>1, SeqMonotonic
<1>4. TypeOK'
  BY <1>2, <1>3 DEF LoopInv, TypeOK, QueuesInv
<1> QED BY <1>4 DEF LoopInv

(* The report of an agent on the message it works on.                      *)
LEMMA ReportType ==
    ASSUME LoopInv, NEW a \in Agents, Working(a), NEW type \in {"status", "result"},
           NEW stat \in {"running", "completed", "failed", "escalated"},
           NEW state \in STRING, NEW earned \in BOOLEAN
    PROVE  ReportOf(a, type, stat, state, earned) \in SoundReport
<1>1. At(a).of \in Nonces /\ At(a).nonce = At(a).of /\ At(a).nonce \in Nat
  BY AtWork DEF SoundHop, Hop
<1>2. ReportOf(a, type, stat, state, earned) \in Report
  BY <1>1 DEF ReportOf, Report
<1> QED BY <1>1, <1>2 DEF ReportOf, SoundReport

LEMMA AnswerType ==
    ASSUME LoopInv, NEW a \in Agents, Working(a),
           NEW stat \in {"running", "completed", "failed", "escalated"},
           NEW state \in STRING, NEW earned \in BOOLEAN, Answer(a, stat, state, earned)
    PROVE  /\ mail' \in Seq(SoundReport) /\ Len(mail') <= MailSize
           /\ lost' \in SUBSET Nonces
           /\ work' = [work EXCEPT ![a] = <<>>]
           /\ UNCHANGED <<def, timeouts, status, nonce, assigned, up>>
<1>1. ReportOf(a, "result", stat, state, earned) \in SoundReport
  BY ReportType
<1>2. Tell(ReportOf(a, "result", stat, state, earned))
  BY DEF Answer
<1> QED BY <1>1, <1>2, TellType DEF Answer

(* An answer ends the hop, whatever it says.                               *)
LEMMA AnswerStep ==
    ASSUME LoopInv, NEW a \in Agents, Working(a),
           NEW stat \in {"running", "completed", "failed", "escalated"},
           NEW state \in STRING, NEW earned \in BOOLEAN, Answer(a, stat, state, earned),
           UNCHANGED <<inbox, crashes>>
    PROVE  LoopInv'
<1>1. /\ mail' \in Seq(SoundReport) /\ Len(mail') <= MailSize /\ lost' \in SUBSET Nonces
      /\ work' = [work EXCEPT ![a] = <<>>]
      /\ UNCHANGED <<def, timeouts, status, nonce, assigned, up>>
  BY AnswerType
<1>2. QueuesInv'
  BY <1>1, QueuesDone
<1> QED BY <1>1, <1>2, TypeFromQueues DEF LoopInv, TypeOK

(* What is passed on counts one more and stays within the budget.          *)
LEMMA PassedOnType ==
    ASSUME LoopInv, NEW a \in Agents, Working(a), NEW next \in STRING, NEW verdict,
           ~IsTerminal(def, next), At(a).count < def.max
    PROVE  /\ PassedOn(At(a), next, At(a).count + 1, verdict) \in SoundHop
           /\ PassedOn(At(a), next, At(a).count + 1, verdict).of = At(a).of
<1> DEFINE hop == PassedOn(At(a), next, At(a).count + 1, verdict)
<1>1. /\ At(a).of \in Nonces /\ At(a).nonce \in Nat /\ At(a).count \in Nat
      /\ At(a).nonce = At(a).of /\ At(a).of <= nonce
  BY AtWork DEF SoundHop, Hop
<1>2. /\ hop.of = At(a).of /\ hop.nonce = At(a).nonce /\ hop.count = At(a).count + 1
      /\ hop.state = next
  BY DEF PassedOn
<1>3. (At(a).decisions /\ BuildStatePrompt(next, verdict) = "review") \in BOOLEAN
  OBVIOUS
<1>4. hop \in Hop
  BY <1>1, <1>3 DEF PassedOn, Hop
<1>5. def.max \in Nat
  BY LoopAssumption DEF LoopInv, TypeOK
<1>6. hop.count <= def.max
  BY <1>1, <1>2, <1>5
<1> HIDE DEF hop
<1>7. hop \in SoundHop
  BY <1>1, <1>2, <1>4, <1>6 DEF SoundHop
<1> QED BY <1>2, <1>7 DEF hop

(* A refused, a sent or a broken hop.                                      *)
LEMMA ForwardStep ==
    ASSUME LoopInv, NEW a \in Agents, Working(a), NEW next \in STRING, NEW verdict,
           NEW earned \in BOOLEAN, ~IsTerminal(def, next), At(a).count < def.max,
           Forward(a, next, At(a).count + 1, verdict, earned)
    PROVE  LoopInv'
<1> DEFINE to == def.agent[next]
           hop == PassedOn(At(a), next, At(a).count + 1, verdict)
           sent == [inbox EXCEPT ![to] = Append(@, hop)]
<1>1. hop \in SoundHop /\ hop.of = At(a).of
  BY PassedOnType
<1>2. Accepts(to) => to \in Agents
  BY DEF Accepts, LoopInv, TypeOK
<1>3. CASE /\ Accepts(to) /\ inbox' = sent /\ work' = [work EXCEPT ![a] = <<>>]
           /\ UNCHANGED <<def, timeouts, status, nonce, assigned, mail, up, crashes, lost>>
  <2>1. QueuesInv'
    BY <1>1, <1>2, <1>3, QueuesSent
  <2> QED BY <1>3, <2>1, TypeFromQueues DEF LoopInv, TypeOK
<1>4. CASE Answer(a, "escalated", next, earned) /\ UNCHANGED <<inbox, crashes>>
  BY <1>4, AnswerStep
<1>5. CASE /\ Accepts(to) /\ crashes < MaxCrashes /\ crashes' = crashes + 1
           /\ inbox' \in {inbox, sent} /\ Answer(a, "escalated", next, earned)
  <2>1. /\ mail' \in Seq(SoundReport) /\ Len(mail') <= MailSize /\ lost' \in SUBSET Nonces
        /\ work' = [work EXCEPT ![a] = <<>>]
        /\ UNCHANGED <<def, timeouts, status, nonce, assigned, up>>
    BY <1>5, AnswerType
  <2>2. QueuesInv'
    <3>1. CASE inbox' = inbox
      BY <2>1, <3>1, QueuesDone
    <3>2. CASE inbox' = sent
      BY <1>1, <1>2, <1>5, <2>1, <3>2, QueuesSent
    <3> QED BY <1>5, <3>1, <3>2
  <2>3. crashes' \in 0 .. MaxCrashes
    BY <1>5, LoopAssumption DEF LoopInv, TypeOK
  <2> QED BY <2>1, <2>2, <2>3, TypeFromQueues DEF LoopInv, TypeOK
<1> QED BY <1>3, <1>4, <1>5 DEF Forward

(* A transition that succeeds had budget and is one of the definition's.   *)
LEMMA TransitionResult ==
    ASSUME NEW state, NEW count, NEW next, NEW d,
           Transition(d, state, count, next).outcome = "transitioned"
    PROVE  /\ Transition(d, state, count, next).state = next
           /\ Transition(d, state, count, next).count = count + 1
           /\ ~(count >= d.max)
           /\ \E i \in DOMAIN d.transitions : d.transitions[i].to = next
<1>1. ~IsTerminal(d, state)
  BY DEF Transition
<1>2. ~(count >= d.max)
  BY <1>1 DEF Transition
<1>3. \E i \in From(d, state) : d.transitions[i].to = next
  BY <1>1, <1>2 DEF Transition
<1>4. Transition(d, state, count, next) =
         [outcome |-> "transitioned", state |-> next, count |-> count + 1]
  BY <1>1, <1>2, <1>3 DEF Transition
<1> QED BY <1>2, <1>3, <1>4 DEF From

LEMMA RouteStep ==
    ASSUME LoopInv, NEW a \in Agents, Working(a), NEW verdict, NEW earned \in BOOLEAN,
           Route(a, verdict, earned)
    PROVE  LoopInv'
<1> DEFINE hop  == At(a)
           next == ResolveNextState(def, hop.state, verdict)
           step == Transition(def, hop.state, hop.count, next)
<1>1. hop.state \in STRING /\ hop.count \in Nat
  BY AtWork DEF SoundHop, Hop
<1>2. /\ def.max \in Nat /\ def.transitions \in Seq([from : STRING, to : STRING, on : STRING])
  BY LoopAssumption DEF LoopInv, TypeOK
<1> HIDE DEF next
<1>3. CASE next = "none" \/ step.outcome # "transitioned"
  <2>1. Answer(a, "escalated", hop.state, earned) /\ UNCHANGED <<inbox, crashes>>
    BY <1>3 DEF Route, next
  <2> QED BY <1>1, <2>1, AnswerStep
<1>4. CASE ~(next = "none" \/ step.outcome # "transitioned")
  <2>1. /\ step.state = next /\ step.count = hop.count + 1 /\ ~(hop.count >= def.max)
        /\ \E i \in DOMAIN def.transitions : def.transitions[i].to = next
    BY <1>4, TransitionResult
  <2>2. next \in STRING
    <3>1. \A i \in DOMAIN def.transitions :
             def.transitions[i] \in [from : STRING, to : STRING, on : STRING]
      BY <1>2, LenProperties, ElementOfSeq
    <3> QED BY <2>1, <3>1
  <2>3. hop.count < def.max
    BY <1>1, <1>2, <2>1
  <2>4. CASE IsTerminal(def, next)
    <3>1. Answer(a, "completed", next, earned) /\ UNCHANGED <<inbox, crashes>>
      BY <1>4, <2>1, <2>4 DEF Route, next
    <3> QED BY <2>2, <3>1, AnswerStep
  <2>5. CASE ~IsTerminal(def, next)
    <3>1. Forward(a, next, hop.count + 1, verdict, earned)
      BY <1>4, <2>1, <2>5 DEF Route, next
    <3> QED BY <2>2, <2>3, <2>5, <3>1, ForwardStep
  <2> QED BY <2>4, <2>5
<1> QED BY <1>3, <1>4

-----------------------------------------------------------------------------
LEMMA InitInv == Init => LoopInv
<1> SUFFICES ASSUME Init PROVE LoopInv
  OBVIOUS
<1>1. \A S : <<>> \in Seq(S) /\ Len(<<>>) = 0 /\ <<>> \o <<>> = <<>>
  BY EmptySeq
<1>2. /\ \A a \in Agents : inbox[a] = <<>> /\ work[a] = <<>>
      /\ Lines = [a \in Agents |-> <<>> \o <<>>]
  BY DEF Init, Lines
<1>3. Unique(Lines)
  BY <1>1, <1>2 DEF Unique
<1>4. QueuesInv
  BY <1>1, <1>2, <1>3, LoopAssumption DEF Init, QueuesInv
<1>5. TypeOK
  BY <1>1, <1>2, LoopAssumption DEF Init, TypeOK
<1>6. mail \in Seq(SoundReport)
  BY <1>1 DEF Init
<1> QED BY <1>4, <1>5, <1>6 DEF LoopInv

LEMMA DispatchStep == ASSUME LoopInv, Dispatch PROVE LoopInv'
<1> DEFINE first == def.agent[def.initial]
           hop == [of |-> nonce', nonce |-> nonce', state |-> def.initial, count |-> 0,
                   decisions |-> TRUE, prompted |-> FALSE]
<1>1. nonce' = nonce + 1 /\ nonce' \in 0 .. MaxDispatches /\ nonce' \in Nonces
  BY LoopAssumption DEF Dispatch, LoopInv, TypeOK, Nonces
<1>2. hop \in Hop
  BY <1>1, LoopAssumption DEF LoopInv, TypeOK, Hop, Nonces
<1>3. Validate(def) => first \in Agents \cup {NoAgent}
  BY LoopAssumption DEF LoopInv, TypeOK, Validate
<1>4. UNCHANGED <<def, timeouts, mail, work, up, crashes, lost>>
  BY DEF Dispatch
<1>5. /\ assigned' \in Agents \cup {NoAgent}
      /\ status' \in {"pending", "running", "completed", "failed", "escalated"}
  BY <1>3 DEF Dispatch, LoopInv, TypeOK
<1>6. \/ UNCHANGED inbox
      \/ Accepts(first) /\ inbox' = [inbox EXCEPT ![first] = Append(@, hop)]
  BY DEF Dispatch
<1>7. CASE UNCHANGED inbox
  <2>1. SoundHop \subseteq SoundHop'
    BY <1>1, <1>4, LoopAssumption DEF SoundHop, LoopInv, TypeOK, Hop, Nonces
  <2>2. inbox' \in [Agents -> Seq(SoundHop')] /\ work' \in [Agents -> Seq(SoundHop')]
    BY <2>1, <1>4, <1>7, QueueMonotone DEF LoopInv, QueuesInv
  <2>3. Lines' = Lines
    BY <1>4, <1>7 DEF Lines
  <2>4. QueuesInv'
    BY <2>2, <2>3, <1>4, <1>7 DEF LoopInv, QueuesInv
  <2> QED BY <2>4, <1>1, <1>4, <1>5, TypeFromQueues DEF LoopInv, TypeOK
<1>8. CASE Accepts(first) /\ inbox' = [inbox EXCEPT ![first] = Append(@, hop)]
  <2>1. first \in Agents
    BY <1>8 DEF Accepts, LoopInv, TypeOK
  <2>2. QueuesInv'
    BY <1>1, <1>2, <1>4, <1>8, <2>1, QueuesDispatched
  <2> QED BY <2>2, <1>1, <1>4, <1>5, TypeFromQueues DEF LoopInv, TypeOK
<1> QED BY <1>6, <1>7, <1>8

LEMMA ReceiveStep == ASSUME LoopInv, Receive PROVE LoopInv'
<1>1. mail \in Seq(SoundReport) /\ mail # <<>> /\ mail' = Tail(mail)
  BY DEF LoopInv, Receive
<1>2. /\ Head(mail) \in SoundReport /\ mail' \in Seq(SoundReport)
      /\ Len(mail') = Len(mail) - 1 /\ Len(mail) \in Nat
  BY <1>1, HeadTailProperties, LenProperties
<1>3. Len(mail') <= MailSize
  BY <1>2, LoopAssumption DEF LoopInv, TypeOK
<1>4. /\ assigned' \in Agents \cup {NoAgent}
      /\ status' \in {"pending", "running", "completed", "failed", "escalated"}
  BY <1>2 DEF Receive, LoopInv, TypeOK, SoundReport, Report
<1>5. UNCHANGED <<def, timeouts, nonce, inbox, work, up, crashes, lost>>
  BY DEF Receive
<1>6. QueuesInv'
  BY <1>5, QueuesUnchanged DEF LoopInv
<1> QED BY <1>2, <1>3, <1>4, <1>5, <1>6, TypeFromQueues DEF LoopInv, TypeOK

LEMMA TakeStep == ASSUME LoopInv, NEW a \in Agents, Take(a) PROVE LoopInv'
<1> DEFINE hop == Head(inbox[a])
           report == [type |-> "status", from |-> a, of |-> hop.of, nonce |-> hop.nonce,
                      status |-> "running", state |-> hop.state, earned |-> FALSE]
<1>1. QueuesInv' /\ hop \in SoundHop
  BY QueuesTaken DEF Take
<1>2. report \in Report
  BY <1>1 DEF Report, SoundHop, Hop
<1>3. report \in SoundReport
  BY <1>1, <1>2 DEF SoundReport, SoundHop
<1>4. Tell(report)
  BY DEF Take
<1>5. mail' \in Seq(SoundReport) /\ Len(mail') <= MailSize /\ lost' \in SUBSET Nonces
  BY <1>3, <1>4, TellType
<1>6. UNCHANGED <<def, timeouts, status, nonce, assigned, up, crashes>>
  BY DEF Take
<1> QED BY <1>1, <1>5, <1>6, TypeFromQueues DEF LoopInv, TypeOK

LEMMA CrashStep == ASSUME LoopInv, NEW a \in Agents, Crash(a) PROVE LoopInv'
<1>1. QueuesInv'
  BY QueuesCrashed DEF Crash
<1>2. /\ up' \in SUBSET Agents /\ crashes' \in 0 .. MaxCrashes
      /\ UNCHANGED <<def, timeouts, status, nonce, assigned, mail>>
  BY LoopAssumption DEF Crash, LoopInv, TypeOK
<1>3. Held(a) \subseteq Nonces
  <2>1. inbox[a] \in Seq(Hop) /\ work[a] \in Seq(Hop)
    BY HoldsHops DEF LoopInv
  <2>2. /\ \A i \in DOMAIN inbox[a] : inbox[a][i] \in Hop
        /\ \A i \in DOMAIN work[a] : work[a][i] \in Hop
    BY <2>1, LenProperties, ElementOfSeq
  <2> QED BY <2>2 DEF Held, Hop
<1>4. lost' \in SUBSET Nonces
  BY <1>3 DEF Crash, LoopInv, TypeOK
<1> QED BY <1>1, <1>2, <1>4, TypeFromQueues DEF LoopInv, TypeOK

(* The steps that leave the agents and the mail alone.                     *)
LEMMA ControlStep ==
    ASSUME LoopInv, GiveUp \/ TimeOut \/ Amend \/ (\E a \in Agents : Restart(a)) \/ UNCHANGED vars
    PROVE  LoopInv'
<1>1. UNCHANGED <<def, timeouts, nonce, inbox, work, mail, crashes, lost>>
  BY DEF GiveUp, TimeOut, Amend, Restart, vars
<1>2. /\ status' \in {"pending", "running", "completed", "failed", "escalated"}
      /\ assigned' \in Agents \cup {NoAgent} /\ up' \in SUBSET Agents
  BY DEF GiveUp, TimeOut, Amend, Restart, vars, LoopInv, TypeOK
<1>3. QueuesInv'
  BY <1>1, QueuesUnchanged DEF LoopInv
<1> QED BY <1>1, <1>2, <1>3, TypeFromQueues DEF LoopInv, TypeOK

LEMMA NextStep == ASSUME LoopInv, [Next]_vars PROVE LoopInv'
<1>1. CASE Dispatch
  BY <1>1, DispatchStep
<1>2. CASE Receive
  BY <1>2, ReceiveStep
<1>3. ASSUME NEW a \in Agents, Take(a) PROVE LoopInv'
  BY <1>3, TakeStep
<1>4. ASSUME NEW a \in Agents, FailLoopTask(a) PROVE LoopInv'
  <2>1. At(a).state \in STRING
    BY <1>4, AtWork DEF FailLoopTask, SoundHop, Hop
  <2> QED BY <1>4, <2>1, AnswerStep DEF FailLoopTask
<1>5. ASSUME NEW a \in Agents, CompleteLoopStep(a) PROVE LoopInv'
  <2>1. \A v \in Verdicts : v.earned \in BOOLEAN
    <3> TAKE v \in Verdicts
    <3>1. PICK r \in Reviews :
             v = [verdict |-> Verdict(r), earned |-> r.tools /\ HasEvidence(r)]
      BY Zenon DEF Verdicts
    <3>2. v.earned = (r.tools /\ HasEvidence(r))
      BY <3>1, Zenon
    <3>3. (r.tools /\ HasEvidence(r)) \in BOOLEAN
      OBVIOUS
    <3> QED BY <3>2, <3>3, Zenon
  <2>2. Working(a)
    BY <1>5 DEF CompleteLoopStep
  <2>3. CASE IsReviewState(def, At(a).state)
    <3>1. PICK v \in Verdicts : Route(a, v.verdict, v.earned)
      BY <1>5, <2>3 DEF CompleteLoopStep
    <3> QED BY <3>1, <2>1, <2>2, RouteStep
  <2>4. CASE ~IsReviewState(def, At(a).state)
    BY <1>5, <2>4, <2>2, RouteStep DEF CompleteLoopStep
  <2> QED BY <2>3, <2>4
<1>6. ASSUME NEW a \in Agents, Crash(a) PROVE LoopInv'
  BY <1>6, CrashStep
<1>7. CASE GiveUp \/ TimeOut \/ Amend \/ (\E a \in Agents : Restart(a)) \/ UNCHANGED vars
  BY <1>7, ControlStep
<1> QED BY <1>1, <1>2, <1>3, <1>4, <1>5, <1>6, <1>7 DEF Next, Agent

(* LoopInv holds in every state of every loop.                             *)
THEOREM LoopInvariant == Spec => []LoopInv
<1> USE DEF Spec
<1>1. LoopInv /\ [Next]_vars => LoopInv'
  BY NextStep
<1> QED BY InitInv, <1>1, PTL

(* The state of a loop, its messages and its record is always of its type. *)
THEOREM TypeCorrect == Spec => []TypeOK
<1>1. LoopInv => TypeOK
  BY DEF LoopInv
<1> QED BY LoopInvariant, <1>1, PTL

LEMMA Offset ==
    ASSUME NEW m \in Nat, NEW n \in Nat
    PROVE  /\ \A i \in 1 .. n : i + m \in 1 .. m + n /\ ~(i + m <= m) /\ (i + m) - m = i
           /\ \A i \in 1 .. m : i \in 1 .. m + n /\ i <= m
  OBVIOUS

(* Every hop is in the line of its agent, at one place.                    *)
LEMMA HopsAreInLine ==
    ASSUME LoopInv, NEW a \in Agents
    PROVE  /\ \A i \in DOMAIN inbox[a] : \E k \in 1 .. Len(Lines[a]) : Lines[a][k] = inbox[a][i]
           /\ \A i \in DOMAIN work[a] : \E k \in 1 .. Len(Lines[a]) : Lines[a][k] = work[a][i]
<1>1. /\ inbox[a] \in Seq(Hop) /\ work[a] \in Seq(Hop) /\ Lines[a] = work[a] \o inbox[a]
  BY HoldsHops DEF LoopInv, Lines
<1>2. DOMAIN inbox[a] = 1 .. Len(inbox[a]) /\ DOMAIN work[a] = 1 .. Len(work[a])
  BY <1>1, LenProperties
<1>3. Len(inbox[a]) \in Nat /\ Len(work[a]) \in Nat
  BY <1>1, LenProperties
<1>4. /\ Len(work[a] \o inbox[a]) = Len(work[a]) + Len(inbox[a])
      /\ \A k \in 1 .. Len(work[a]) + Len(inbox[a]) : (work[a] \o inbox[a])[k] =
            IF k <= Len(work[a]) THEN work[a][k] ELSE inbox[a][k - Len(work[a])]
  BY <1>1, ConcatProperties
<1>5. ASSUME NEW i \in 1 .. Len(inbox[a])
      PROVE  \E k \in 1 .. Len(Lines[a]) : Lines[a][k] = inbox[a][i]
  <2>1. /\ i + Len(work[a]) \in 1 .. Len(work[a]) + Len(inbox[a])
        /\ ~(i + Len(work[a]) <= Len(work[a])) /\ (i + Len(work[a])) - Len(work[a]) = i
    BY <1>3, Offset
  <2>2. Lines[a][i + Len(work[a])] = inbox[a][i]
    BY <2>1, <1>1, <1>4
  <2> QED BY <2>1, <2>2, <1>1, <1>4
<1>6. ASSUME NEW i \in 1 .. Len(work[a])
      PROVE  \E k \in 1 .. Len(Lines[a]) : Lines[a][k] = work[a][i]
  <2>1. i \in 1 .. Len(work[a]) + Len(inbox[a]) /\ i <= Len(work[a])
    BY <1>3, Offset
  <2> QED BY <2>1, <1>1, <1>4
<1> QED BY <1>2, <1>5, <1>6

(* A dispatch has one hop at a time, which stays within the budget and does *)
(* not go on in a terminal state.                                           *)
THEOREM Bounded == Spec => []OneBoundedHop
<1>1. ASSUME LoopInv PROVE OneBoundedHop
  <2>1. ASSUME NEW h \in Hops
        PROVE  h \in SoundHop /\ \E a \in Agents : \E k \in 1 .. Len(Lines[a]) : Lines[a][k] = h
    <3>1. PICK a \in Agents : \/ \E i \in DOMAIN inbox[a] : h = inbox[a][i]
                              \/ \E i \in DOMAIN work[a] : h = work[a][i]
      BY DEF Hops
    <3>2. inbox[a] \in Seq(SoundHop) /\ work[a] \in Seq(SoundHop)
      BY <1>1 DEF LoopInv, QueuesInv
    <3>3. /\ \A i \in DOMAIN inbox[a] : inbox[a][i] \in SoundHop
          /\ \A i \in DOMAIN work[a] : work[a][i] \in SoundHop
      BY <3>2, LenProperties, ElementOfSeq
    <3> QED BY <1>1, <3>1, <3>3, HopsAreInLine
  <2>2. Unique(Lines)
    BY <1>1 DEF LoopInv, QueuesInv
  <2>3. ASSUME NEW g \in Hops, NEW h \in Hops, g.of = h.of PROVE g = h
    <3>1. PICK a \in Agents : \E k \in 1 .. Len(Lines[a]) : Lines[a][k] = g
      BY <2>1
    <3>2. PICK b \in Agents : \E l \in 1 .. Len(Lines[b]) : Lines[b][l] = h
      BY <2>1
    <3> QED BY <2>2, <2>3, <3>1, <3>2 DEF Unique
  <2>4. ASSUME NEW a \in Agents, NEW b \in Agents, a # b, NEW d \in Held(a) \cap Held(b)
        PROVE  FALSE
    <3>1. \A c \in Agents : d \in Held(c) => \E k \in 1 .. Len(Lines[c]) : Lines[c][k].of = d
      BY <1>1, HopsAreInLine DEF Held
    <3>2. PICK k \in 1 .. Len(Lines[a]) : Lines[a][k].of = d
      BY <3>1
    <3>3. PICK l \in 1 .. Len(Lines[b]) : Lines[b][l].of = d
      BY <3>1
    <3> QED BY <2>2, <2>4, <3>2, <3>3 DEF Unique
  <2>5. \A h \in Hops : h.count <= def.max /\ (h.count > 0 => ~IsTerminal(def, h.state))
    BY <2>1 DEF SoundHop
  <2> QED BY <2>3, <2>4, <2>5 DEF OneBoundedHop
<1> QED BY LoopInvariant, <1>1, PTL

(* The scheduler alone moves the task.                                     *)
LEMMA AgentsLeaveStatus ==
    ASSUME NEW a \in Agents, Agent(a) \/ Crash(a) \/ Restart(a) PROVE status' = status
<1>1. Take(a) \/ Crash(a) \/ Restart(a) => status' = status
  BY DEF Take, Crash, Restart
<1>2. \A stat, state, earned : Answer(a, stat, state, earned) => status' = status
  BY DEF Answer
<1>3. \A next, count, verdict, earned :
         Forward(a, next, count, verdict, earned) => status' = status
  BY <1>2 DEF Forward
<1>4. \A verdict, earned : Route(a, verdict, earned) => status' = status
  BY <1>2, <1>3 DEF Route
<1> QED BY <1>1, <1>2, <1>4 DEF Agent, FailLoopTask, CompleteLoopStep

(* A task is settled by a result of its present dispatch: the conductor    *)
(* takes results that name no dispatch, and there are none.                *)
THEOREM Settled == Spec => SettledByItsDispatch
<1>1. ASSUME LoopInv, [Next]_vars
      PROVE  [status' # status /\ mail' # mail => Head(mail).of = nonce]_vars
  <2> SUFFICES ASSUME Next, status' # status, mail' # mail PROVE Head(mail).of = nonce
    BY <1>1
  <2>1. Receive
    <3>1. Dispatch \/ GiveUp \/ TimeOut \/ Amend => mail' = mail
      BY DEF Dispatch, GiveUp, TimeOut, Amend
    <3> QED BY <3>1, AgentsLeaveStatus DEF Next
  <2>2. Head(mail) \in SoundReport
    BY <1>1, <2>1, HeadTailProperties DEF LoopInv, Receive
  <2>3. Head(mail).nonce \in {0, nonce}
    BY <2>1 DEF Receive, Current
  <2> QED BY <2>2, <2>3, LoopAssumption DEF SoundReport, Report, Nonces
<1> QED BY LoopInvariant, <1>1, PTL DEF SettledByItsDispatch, Spec

-----------------------------------------------------------------------------
(* What a loop that completes its task has earned.                         *)

\* Every result that waits at the conductor and says completed.
ApprovedReport ==
    {r \in Report : r.type = "result" /\ r.status = "completed" =>
                        r.state \in def.terminal \ {Escalated} /\ r.earned}

ApprovedMail == mail \in Seq(ApprovedReport)

\* A set of numbers that is not empty has a least.
LEMMA LeastNumber ==
    ASSUME NEW T, T \subseteq Nat, T # {}
    PROVE  \E x \in T : \A y \in T : x <= y
<1> DEFINE R == OpToRel(<, Nat)
<1>1. IsWellFoundedOn(R, Nat)
  BY NatLessThanWellFounded
<1>2. \A x, y \in Nat : x < y => <<x, y>> \in R
  BY DEF OpToRel
<1> HIDE DEF R
<1>3. PICK x \in T : \A y \in T : ~ (<<y, x>> \in R)
  BY <1>1, WFMin
<1>4. \A y \in T : ~(y < x)
  BY <1>2, <1>3
<1> QED BY <1>3, <1>4

(* The transition that is chosen is one from the loop's state, on the       *)
(* verdict that was given or on none.                                       *)
LEMMA ResolvedBy ==
    ASSUME NEW d, d.transitions \in Seq([from : STRING, to : STRING, on : STRING]),
           NEW state, NEW verdict, ResolveNextState(d, state, verdict) # "none"
    PROVE  \E i \in From(d, state) : /\ d.transitions[i].to = ResolveNextState(d, state, verdict)
                                     /\ d.transitions[i].on \in {verdict, ""}
<1> DEFINE matching == On(d, state, verdict)
           chosen == IF matching # {} THEN matching ELSE On(d, state, "")
<1>1. chosen # {} /\ ResolveNextState(d, state, verdict) = d.transitions[Earliest(chosen)].to
  BY DEF ResolveNextState
<1>2. chosen \subseteq From(d, state) /\ \A i \in chosen : d.transitions[i].on \in {verdict, ""}
  BY DEF On
<1> HIDE DEF chosen
<1>3. chosen \subseteq Nat
  <2>1. DOMAIN d.transitions = 1 .. Len(d.transitions) /\ Len(d.transitions) \in Nat
    BY LenProperties
  <2>2. From(d, state) \subseteq DOMAIN d.transitions
    BY DEF From
  <2>3. 1 .. Len(d.transitions) \subseteq Nat
    OBVIOUS
  <2> QED BY <1>2, <2>1, <2>2, <2>3, Zenon
<1>4. PICK i \in chosen : \A j \in chosen : i <= j
  BY <1>1, <1>3, LeastNumber
<1>5. Earliest(chosen) \in chosen
  BY <1>4 DEF Earliest
<1> QED BY <1>1, <1>2, <1>5

LEMMA TellApproved ==
    ASSUME ApprovedMail, NEW r \in ApprovedReport, Tell(r), UNCHANGED def
    PROVE  ApprovedMail'
<1>1. ApprovedReport' = ApprovedReport
  BY DEF ApprovedReport
<1>2. Append(mail, r) \in Seq(ApprovedReport)
  BY AppendProperties DEF ApprovedMail
<1> QED BY <1>1, <1>2 DEF Tell, ApprovedMail

LEMMA AnswerApproved ==
    ASSUME LoopInv, ApprovedMail, NEW a \in Agents, Working(a),
           NEW stat \in {"running", "completed", "failed", "escalated"},
           NEW state \in STRING, NEW earned \in BOOLEAN, Answer(a, stat, state, earned),
           stat = "completed" => state \in def.terminal \ {Escalated} /\ earned
    PROVE  ApprovedMail'
<1> DEFINE r == ReportOf(a, "result", stat, state, earned)
<1>1. r \in Report
  BY ReportType DEF SoundReport
<1>2. r.status = stat /\ r.state = state /\ r.earned = earned
  BY DEF ReportOf
<1>3. Tell(r) /\ UNCHANGED def
  BY DEF Answer
<1> HIDE DEF r
<1>4. r \in ApprovedReport
  BY <1>1, <1>2 DEF ApprovedReport
<1> QED BY <1>3, <1>4, TellApproved

(* A review ends the loop on an approval, which has its evidence or was     *)
(* turned into a revision; whoever is not asked for a verdict has none to   *)
(* give.                                                                    *)
LEMMA RouteApproved ==
    ASSUME EndsOnApproval, LoopInv, ApprovedMail, NEW a \in Agents, Working(a),
           NEW verdict, NEW earned \in BOOLEAN, Route(a, verdict, earned),
           IsReviewState(def, At(a).state) /\ verdict = "approved" => earned,
           ~IsReviewState(def, At(a).state) => earned
    PROVE  ApprovedMail'
<1> DEFINE hop  == At(a)
           next == ResolveNextState(def, hop.state, verdict)
           step == Transition(def, hop.state, hop.count, next)
<1>1. hop.state \in STRING /\ hop.count \in Nat
  BY AtWork DEF SoundHop, Hop
<1>2. /\ def \in Defs
      /\ def.transitions \in Seq([from : STRING, to : STRING, on : STRING])
  BY LoopAssumption DEF LoopInv, TypeOK
<1>3. CASE next = "none" \/ step.outcome # "transitioned"
  <2>1. Answer(a, "escalated", hop.state, earned)
    BY <1>3 DEF Route
  <2> QED BY <1>1, <2>1, AnswerApproved
<1>4. CASE ~(next = "none" \/ step.outcome # "transitioned")
  <2>1. PICK i \in From(def, hop.state) : /\ def.transitions[i].to = next
                                         /\ def.transitions[i].on \in {verdict, ""}
    BY <1>2, <1>4, ResolvedBy
  <2>2. i \in DOMAIN def.transitions /\ def.transitions[i].from = hop.state
    BY <2>1 DEF From
  <2>3. next \in STRING
    <3>1. \A j \in DOMAIN def.transitions :
             def.transitions[j] \in [from : STRING, to : STRING, on : STRING]
      BY <1>2, LenProperties, ElementOfSeq
    <3> QED BY <2>1, <2>2, <3>1
  <2> HIDE DEF next
  <2>4. step.state = next /\ step.count = hop.count + 1
    BY <1>4, TransitionResult
  <2>5. CASE IsTerminal(def, next)
    <3>1. Answer(a, "completed", next, earned)
      BY <1>4, <2>4, <2>5 DEF Route, next
    <3>2. next \in def.terminal
      BY <2>5 DEF IsTerminal
    <3>3. /\ next # Escalated
          /\ IsReviewState(def, hop.state) => def.transitions[i].on = "approved"
      BY <1>2, <2>1, <2>2, <3>2 DEF EndsOnApproval
    <3>4. earned
      BY <2>1, <3>3
    <3> QED BY <2>3, <3>1, <3>2, <3>3, <3>4, AnswerApproved
  <2>6. CASE ~IsTerminal(def, next)
    <3>1. Forward(a, next, hop.count + 1, verdict, earned)
      BY <1>4, <2>4, <2>6 DEF Route, next
    <3>2. \/ UNCHANGED <<def, mail>>
          \/ Answer(a, "escalated", next, earned)
      BY <3>1 DEF Forward
    <3>3. CASE UNCHANGED <<def, mail>>
      BY <3>3 DEF ApprovedMail, ApprovedReport
    <3>4. CASE Answer(a, "escalated", next, earned)
      BY <2>3, <3>4, AnswerApproved
    <3> QED BY <3>2, <3>3, <3>4
  <2> QED BY <2>5, <2>6
<1> QED BY <1>3, <1>4

(* What a review comes to is a verdict, and an approval its evidence.      *)
LEMMA VerdictIsEarned ==
    ASSUME NEW v \in Verdicts
    PROVE  v.earned \in BOOLEAN /\ (v.verdict = "approved" => v.earned)
<1>1. PICK r \in Reviews : v = [verdict |-> Verdict(r), earned |-> r.tools /\ HasEvidence(r)]
  BY Zenon DEF Verdicts
<1>2. v.verdict = Verdict(r) /\ v.earned = (r.tools /\ HasEvidence(r))
  BY <1>1, Zenon
<1>3. Verdict(r) = "approved" => r.tools /\ HasEvidence(r)
  <2>1. CASE ExtractVerdictFromEnvelope(r) = "approved" /\ ~(r.tools /\ HasEvidence(r))
    <3>1. Verdict(r) = "revise"
      BY <2>1, Zenon DEF Verdict
    <3>2. "revise" # "approved"
      OBVIOUS
    <3> QED BY <3>1, <3>2, Zenon
  <2>2. CASE ~(ExtractVerdictFromEnvelope(r) = "approved" /\ ~(r.tools /\ HasEvidence(r)))
    <3>1. Verdict(r) = ExtractVerdictFromEnvelope(r)
      BY <2>2, Zenon DEF Verdict
    <3> QED BY <2>2, <3>1, Zenon
  <2> QED BY <2>1, <2>2, Zenon
<1>4. (r.tools /\ HasEvidence(r)) \in BOOLEAN
  OBVIOUS
<1> QED BY <1>2, <1>3, <1>4, Zenon

LEMMA ApprovedStep ==
    ASSUME EndsOnApproval, LoopInv, ApprovedMail, [Next]_vars PROVE ApprovedMail'
<1>1. CASE UNCHANGED <<def, mail>>
  BY <1>1 DEF ApprovedMail, ApprovedReport
<1>2. CASE Receive
  <2>1. mail # <<>> /\ mail' = Tail(mail) /\ UNCHANGED def
    BY <1>2 DEF Receive
  <2>2. ApprovedReport' = ApprovedReport
    BY <2>1 DEF ApprovedReport
  <2> QED BY <2>1, <2>2, HeadTailProperties DEF ApprovedMail
<1>3. ASSUME NEW a \in Agents, Take(a) PROVE ApprovedMail'
  <2> DEFINE hop == Head(inbox[a])
             r == [type |-> "status", from |-> a, of |-> hop.of, nonce |-> hop.nonce,
                   status |-> "running", state |-> hop.state, earned |-> FALSE]
  <2>1. hop \in SoundHop
    BY <1>3, QueuesTaken DEF Take
  <2>2. r \in Report /\ r.type = "status"
    BY <2>1 DEF Report, SoundHop, Hop
  <2>3. Tell(r) /\ UNCHANGED def
    BY <1>3 DEF Take
  <2> HIDE DEF r
  <2>4. r \in ApprovedReport
    BY <2>2 DEF ApprovedReport
  <2> QED BY <2>3, <2>4, TellApproved
<1>4. ASSUME NEW a \in Agents, FailLoopTask(a) PROVE ApprovedMail'
  <2>1. At(a).state \in STRING
    BY <1>4, AtWork DEF FailLoopTask, SoundHop, Hop
  <2> QED BY <1>4, <2>1, AnswerApproved DEF FailLoopTask
<1>5. ASSUME NEW a \in Agents, CompleteLoopStep(a) PROVE ApprovedMail'
  <2>1. Working(a)
    BY <1>5 DEF CompleteLoopStep
  <2>2. CASE IsReviewState(def, At(a).state)
    <3>1. PICK v \in Verdicts : Route(a, v.verdict, v.earned)
      BY <1>5, <2>2 DEF CompleteLoopStep
    <3>2. v.earned \in BOOLEAN /\ (v.verdict = "approved" => v.earned)
      BY VerdictIsEarned
    <3> QED BY <2>1, <2>2, <3>1, <3>2, RouteApproved
  <2>3. CASE ~IsReviewState(def, At(a).state)
    <3>1. Route(a, "", TRUE)
      BY <1>5, <2>3 DEF CompleteLoopStep
    <3> QED BY <2>1, <2>3, <3>1, RouteApproved, Zenon
  <2> QED BY <2>2, <2>3
<1> QED BY <1>1, <1>2, <1>3, <1>4, <1>5
    DEF Next, Agent, Dispatch, GiveUp, TimeOut, Amend, Crash, Restart, vars

(* When every loop ends on an approval, a task completes in a terminal      *)
(* state its loop came to by itself and with the evidence of the last       *)
(* review, whichever reviews, crashes and lost hops came before.            *)
THEOREM Approved == ASSUME EndsOnApproval PROVE Spec => CompletedIsApproved
<1>1. Init => ApprovedMail
  BY EmptySeq DEF Init, ApprovedMail
<1>2. LoopInv /\ ApprovedMail /\ [Next]_vars => ApprovedMail'
  BY ApprovedStep
<1>3. ASSUME LoopInv, ApprovedMail, [Next]_vars
      PROVE  [status = "running" /\ status' = "completed" =>
                 Head(mail).state \in def.terminal \ {Escalated} /\ Head(mail).earned]_vars
  <2> SUFFICES ASSUME Next, status = "running", status' = "completed"
               PROVE  Head(mail).state \in def.terminal \ {Escalated} /\ Head(mail).earned
    BY <1>3
  <2>1. mail # <<>> /\ Current(Head(mail)) /\ Head(mail).status = "completed"
    BY AgentsLeaveStatus DEF Next, Dispatch, Receive, GiveUp, TimeOut, Amend
  <2>2. Head(mail) \in ApprovedReport
    BY <1>3, <2>1, HeadTailProperties DEF ApprovedMail
  <2> QED BY <2>1, <2>2 DEF ApprovedReport, Current
<1> QED BY <1>1, <1>2, <1>3, LoopInvariant, PTL DEF CompletedIsApproved, Spec

-----------------------------------------------------------------------------
(* The leases of loops, for any number of conductors, loops, profiles and   *)
(* instances and whatever lapses, fails or is lost.                         *)
LeaseStages == {"pending", "look", "renew", "acquire", "running", "release", "done", "failed"}

\* Who holds a lease, and what for.
LeaseShape ==
    /\ lease \in [Profiles -> Leases!Reservation \cup {Free}]
    /\ \A p \in Profiles : lease[p] # Free => lease[p].profile = p
    /\ epochs \in [Profiles -> Nat]
    /\ stage \in [Loops -> LeaseStages]
    /\ at \in [Loops -> Nat \ {0}]
    /\ wanted \in [Loops -> Leases!Reservation \cup {Free}]
    /\ held \in [Loops -> SUBSET Leases!Reservation]
    /\ after \in [Loops -> {"pending", "done", "failed"}]
    /\ attempts \in [Loops -> Nat]

Needed(l) == {Needs[l][n] : n \in DOMAIN Needs[l]}

\* A reservation of loop l.
OfLoop(l, r) == r.owner = OwnerOf[l] /\ r.profile \in Needed(l)

OwnLeases(l) ==
    /\ \A h \in held[l] : OfLoop(l, h)
    /\ stage[l] # "pending" => attempts[l] > 0
    /\ stage[l] \in {"renew", "acquire"} =>
          /\ at[l] \in DOMAIN Needs[l]
          /\ wanted[l] \in Leases!Reservation
          /\ wanted[l].profile = Needs[l][at[l]] /\ wanted[l].owner = OwnerOf[l]
    /\ stage[l] \in {"pending", "done", "failed"} => held[l] = {}

\* Until a loop releases what it holds, only those who may take a lease took it.
KeepsLeases(l) ==
    stage[l] # "release" =>
        \A h \in held[l] : \/ lease[h.profile] = h
                           \/ h \in lapsed
                           \/ \E m \in Loops : Leases!Shares(m, l, h.profile)

LeasesInv == /\ LeaseShape /\ Leases!NothingIsLeftReserved
             /\ \A l \in Loops : OwnLeases(l) /\ KeepsLeases(l)

LEMMA LeaseIsReservation ==
    ASSUME NEW l \in Loops, NEW p \in Profiles, NEW i \in Offers[p], NEW e \in Nat
    PROVE  LET r == Leases!Lease(l, p, i, e)
           IN  r \in Leases!Reservation /\ r.profile = p /\ r.owner = OwnerOf[l]
BY DEF Leases!Lease, Leases!Reservation, Leases!Instances

LEMMA GrantIsReservation ==
    ASSUME NEW r \in Leases!Reservation, NEW e \in Nat
    PROVE  LET f == [r EXCEPT !.epoch = e]
           IN  f \in Leases!Reservation /\ f.profile = r.profile /\ f.owner = r.owner
BY DEF Leases!Reservation

LEMMA NeedIsProfile ==
    ASSUME Leases!LoopLeasesAssumption, NEW l \in Loops, NEW n \in Nat \ {0}, n <= Len(Needs[l])
    PROVE  n \in DOMAIN Needs[l] /\ Needs[l][n] \in Profiles /\ Needs[l][n] \in Needed(l)
<1>1. Needs[l] \in Seq(Profiles)
  BY DEF Leases!LoopLeasesAssumption
<1>2. DOMAIN Needs[l] = 1 .. Len(Needs[l]) /\ Len(Needs[l]) \in Nat
  BY <1>1
<1>3. n \in DOMAIN Needs[l]
  BY <1>2
<1>4. Needs[l][n] \in Profiles
  BY <1>1, <1>2, <1>3
<1> QED BY <1>3, <1>4 DEF Needed

\* The way back and the way on keep the shape of what a dispatch has.
LEMMA ShapeOfBack ==
    ASSUME LeaseShape, NEW l \in Loops, NEW to \in {"pending", "done", "failed"},
           Leases!Back(l, to)
    PROVE  /\ stage' \in [Loops -> LeaseStages]
           /\ at' \in [Loops -> Nat \ {0}]
           /\ wanted' \in [Loops -> Leases!Reservation \cup {Free}]
           /\ held' = held
           /\ after' \in [Loops -> {"pending", "done", "failed"}]
           /\ \A k \in Loops \ {l} : stage'[k] = stage[k] /\ at'[k] = at[k] /\ wanted'[k] = wanted[k]
           /\ stage'[l] = IF held[l] = {} THEN to ELSE "release"
BY DEF LeaseShape, LeaseStages, Leases!Back, Leases!Enter

LEMMA ShapeOfGot ==
    ASSUME LeaseShape, NEW l \in Loops, NEW r \in Leases!Reservation, Leases!Got(l, r)
    PROVE  /\ stage' \in [Loops -> LeaseStages]
           /\ at' \in [Loops -> Nat \ {0}]
           /\ wanted' \in [Loops -> Leases!Reservation \cup {Free}]
           /\ held' \in [Loops -> SUBSET Leases!Reservation]
           /\ after' = after
           /\ \A k \in Loops \ {l} : /\ stage'[k] = stage[k] /\ at'[k] = at[k]
                                      /\ wanted'[k] = wanted[k] /\ held'[k] = held[k]
           /\ stage'[l] = "look" /\ held'[l] = held[l] \cup {r}
BY DEF LeaseShape, LeaseStages, Leases!Got, Leases!Enter

LEMMA LeasesShapeStep ==
    ASSUME Leases!LoopLeasesAssumption, LeasesInv, Leases!Next
    PROVE  LeaseShape'
<1>0. LeaseShape /\ \A l \in Loops : OwnLeases(l)
  BY DEF LeasesInv
<1>1. ASSUME NEW l \in Loops,
             Leases!Begin(l) \/ Leases!Skip(l) \/ Leases!Join(l) \/ Leases!Choose(l)
      PROVE  LeaseShape'
  <2>1. UNCHANGED <<lease, epochs, held, after>>
    BY <1>1 DEF Leases!Begin, Leases!Skip, Leases!Join, Leases!Choose, Leases!storeVars
  <2>2. stage' \in [Loops -> LeaseStages]
    BY <1>0, <1>1
       DEF LeaseShape, LeaseStages, Leases!Begin, Leases!Skip, Leases!Join, Leases!Choose,
           Leases!Enter
  <2>3. at' \in [Loops -> Nat \ {0}] /\ attempts' \in [Loops -> Nat]
    BY <1>0, <1>1 DEF LeaseShape, Leases!Begin, Leases!Skip, Leases!Join, Leases!Choose
  <2>4. wanted' \in [Loops -> Leases!Reservation \cup {Free}]
    <3>1. CASE Leases!Begin(l) \/ Leases!Skip(l)
      BY <1>0, <3>1 DEF LeaseShape, Leases!Begin, Leases!Skip
    <3>2. Leases!Considers(l) => Leases!Profile(l) \in Profiles
      BY <1>0, NeedIsProfile DEF LeaseShape, Leases!Considers, Leases!Profile
    <3>3. CASE Leases!Join(l)
      BY <1>0, <3>2, <3>3 DEF LeaseShape, Leases!Join
    <3>4. CASE Leases!Choose(l)
      <4>1. PICK i \in Offers[Leases!Profile(l)] :
               wanted' = [wanted EXCEPT ![l] = Leases!Lease(l, Leases!Profile(l), i, 0)]
        BY <3>4 DEF Leases!Choose, Leases!Schedulable
      <4> QED BY <1>0, <3>2, <3>4, <4>1, LeaseIsReservation DEF LeaseShape, Leases!Choose
    <3> QED BY <1>1, <3>1, <3>3, <3>4
  <2> QED BY <1>0, <2>1, <2>2, <2>3, <2>4 DEF LeaseShape
<1>2. ASSUME NEW l \in Loops, NEW to \in {"pending", "done", "failed"}, Leases!Back(l, to),
             UNCHANGED <<lease, epochs, attempts>>
      PROVE  LeaseShape'
  BY <1>0, <1>2, ShapeOfBack DEF LeaseShape
<1>3. ASSUME NEW l \in Loops,
             Leases!Refused(l) \/ Leases!StoreFails(l) \/ Leases!End(l)
      PROVE  LeaseShape'
  <2>1. UNCHANGED <<lease, epochs, attempts>>
    BY <1>3 DEF Leases!Refused, Leases!StoreFails, Leases!End, Leases!storeVars
  <2>2. \E to \in {"pending", "done", "failed"} : Leases!Back(l, to)
    BY <1>3 DEF Leases!Refused, Leases!StoreFails, Leases!End
  <2> QED BY <1>2, <2>1, <2>2
<1>4. ASSUME NEW l \in Loops, Leases!Ready(l)
      PROVE  LeaseShape'
  <2>1. UNCHANGED <<lease, epochs, attempts>>
    BY <1>4 DEF Leases!Ready, Leases!storeVars
  <2>2. CASE Leases!Back(l, "failed")
    BY <1>2, <2>1, <2>2
  <2>3. CASE Leases!Enter(l, "running") /\ UNCHANGED <<at, wanted, held, after>>
    BY <1>0, <2>1, <2>3 DEF LeaseShape, LeaseStages, Leases!Enter
  <2> QED BY <1>4, <2>2, <2>3 DEF Leases!Ready
<1>5. ASSUME NEW l \in Loops, Leases!Renew(l)
      PROVE  LeaseShape'
  <2>1. UNCHANGED <<lease, epochs, attempts>>
    BY <1>5 DEF Leases!Renew, Leases!storeVars
  <2>2. CASE Leases!Back(l, "pending")
    BY <1>2, <2>1, <2>2
  <2>3. CASE Leases!Got(l, wanted[l])
    <3>1. wanted[l] \in Leases!Reservation
      BY <1>0, <1>5 DEF OwnLeases, Leases!Renew
    <3> QED BY <1>0, <2>1, <2>3, <3>1, ShapeOfGot DEF LeaseShape
  <2> QED BY <1>5, <2>2, <2>3 DEF Leases!Renew
<1>6. ASSUME NEW l \in Loops, Leases!Acquire(l)
      PROVE  LeaseShape'
  <2> DEFINE p == Leases!Profile(l)
             fresh == [wanted[l] EXCEPT !.epoch = epochs[p] + 1]
  <2>1. attempts' = attempts
    BY <1>6 DEF Leases!Acquire
  <2>2. p \in Profiles /\ wanted[l] \in Leases!Reservation /\ wanted[l].profile = p
    BY <1>0, <1>6, NeedIsProfile
       DEF OwnLeases, LeaseShape, Leases!Acquire, Leases!Profile, Leases!LoopLeasesAssumption
  <2>3. epochs[p] + 1 \in Nat
    BY <1>0, <2>2 DEF LeaseShape
  <2>4. fresh \in Leases!Reservation /\ fresh.profile = p
    BY <2>2, <2>3, GrantIsReservation
  <2>5. CASE /\ lease' = [lease EXCEPT ![p] = fresh] /\ epochs' = [epochs EXCEPT ![p] = @ + 1]
             /\ Leases!Got(l, fresh)
    <3> HIDE DEF fresh, p
    <3>1. /\ lease' \in [Profiles -> Leases!Reservation \cup {Free}]
          /\ \A q \in Profiles : lease'[q] # Free => lease'[q].profile = q
      BY <1>0, <2>2, <2>4, <2>5 DEF LeaseShape
    <3>2. epochs' \in [Profiles -> Nat]
      BY <1>0, <2>2, <2>5 DEF LeaseShape
    <3> QED BY <1>0, <2>1, <2>4, <2>5, <3>1, <3>2, ShapeOfGot DEF LeaseShape
  <2>6. CASE lease[p] # Free /\ Leases!Got(l, lease[p]) /\ UNCHANGED <<lease, epochs>>
    <3>1. lease[p] \in Leases!Reservation
      BY <1>0, <2>2, <2>6 DEF LeaseShape
    <3> QED BY <1>0, <2>1, <2>6, <3>1, ShapeOfGot DEF LeaseShape
  <2>7. CASE Leases!Back(l, "pending") /\ UNCHANGED <<lease, epochs>>
    BY <1>2, <2>1, <2>7
  <2> QED BY <1>6, <2>5, <2>6, <2>7 DEF Leases!Acquire
<1>7. ASSUME NEW l \in Loops, Leases!Release(l)
      PROVE  LeaseShape'
  BY <1>0, <1>7 DEF LeaseShape, LeaseStages, Leases!Release, Leases!Matches, Leases!Enter
<1>8. ASSUME NEW p \in Profiles, Leases!Lapse(p)
      PROVE  LeaseShape'
  BY <1>0, <1>8 DEF LeaseShape, Leases!Lapse, Leases!loopVars
<1>9. ASSUME NEW i \in Leases!Instances, Leases!Leave(i) \/ Leases!Return(i)
      PROVE  LeaseShape'
  BY <1>0, <1>9 DEF LeaseShape, Leases!Leave, Leases!Return, Leases!loopVars, Leases!storeVars
<1> QED BY <1>1, <1>3, <1>4, <1>5, <1>6, <1>7, <1>8, <1>9 DEF Leases!Next, Leases!Prepare

\* The parts of a dispatch that is not the one that moves.
LEMMA OtherDispatch ==
    ASSUME NEW k \in Loops, OwnLeases(k), attempts'[k] = attempts[k], stage'[k] = stage[k],
           at'[k] = at[k], wanted'[k] = wanted[k], held'[k] = held[k]
    PROVE  OwnLeases(k)'
BY DEF OwnLeases, OfLoop, Needed

LEMMA OwnOfBack ==
    ASSUME LeaseShape, NEW l \in Loops, NEW to \in {"pending", "done", "failed"},
           \A k \in Loops : OwnLeases(k), stage[l] # "pending",
           Leases!Back(l, to), attempts' = attempts, NEW k \in Loops
    PROVE  OwnLeases(k)'
<1>1. CASE k # l
  BY <1>1, ShapeOfBack, OtherDispatch
<1>2. CASE k = l
  BY <1>2, ShapeOfBack DEF OwnLeases, OfLoop, Needed
<1> QED BY <1>1, <1>2

LEMMA OwnOfGot ==
    ASSUME LeaseShape, NEW l \in Loops, NEW r \in Leases!Reservation, OfLoop(l, r),
           \A k \in Loops : OwnLeases(k), stage[l] # "pending",
           Leases!Got(l, r), attempts' = attempts, NEW k \in Loops
    PROVE  OwnLeases(k)'
<1>1. CASE k # l
  BY <1>1, ShapeOfGot, OtherDispatch
<1>2. CASE k = l
  BY <1>2, ShapeOfGot DEF OwnLeases, OfLoop, Needed
<1> QED BY <1>1, <1>2

\* The profile a dispatch considers, and what it wants of it.
LEMMA Considered ==
    ASSUME Leases!LoopLeasesAssumption, LeaseShape, NEW l \in Loops, Leases!Considers(l)
    PROVE  /\ at[l] \in DOMAIN Needs[l] /\ Leases!Profile(l) = Needs[l][at[l]]
           /\ Leases!Profile(l) \in Profiles /\ Leases!Profile(l) \in Needed(l)
           /\ stage[l] = "look"
BY NeedIsProfile DEF LeaseShape, Leases!Considers, Leases!Profile

LEMMA Wanted ==
    ASSUME Leases!LoopLeasesAssumption, LeaseShape, NEW l \in Loops, OwnLeases(l),
           stage[l] \in {"renew", "acquire"}
    PROVE  /\ Leases!Profile(l) \in Profiles /\ wanted[l] \in Leases!Reservation
           /\ wanted[l].profile = Leases!Profile(l) /\ OfLoop(l, wanted[l])
<1>1. /\ at[l] \in DOMAIN Needs[l] /\ wanted[l] \in Leases!Reservation
      /\ wanted[l].profile = Needs[l][at[l]] /\ wanted[l].owner = OwnerOf[l]
  BY DEF OwnLeases
<1> QED BY <1>1 DEF OfLoop, Needed, Leases!Profile, Leases!LoopLeasesAssumption

\* What the store answers an acquisition with is what the dispatch wanted.
LEMMA Acquired ==
    ASSUME Leases!LoopLeasesAssumption, LeaseShape, NEW l \in Loops, OwnLeases(l),
           Leases!Acquire(l)
    PROVE  LET p == Leases!Profile(l)
           IN  \/ /\ lease[p] = Free /\ epochs[p] + 1 \in Nat
                  /\ \E r \in Leases!Reservation :
                        /\ OfLoop(l, r) /\ r.profile = p /\ Leases!Got(l, r)
                        /\ lease' = [lease EXCEPT ![p] = r]
               \/ /\ lease[p] \in Leases!Reservation /\ OfLoop(l, lease[p])
                  /\ lease[p].profile = p /\ Leases!Got(l, lease[p]) /\ lease' = lease
               \/ Leases!Back(l, "pending") /\ lease' = lease
<1> DEFINE p == Leases!Profile(l)
           fresh == [wanted[l] EXCEPT !.epoch = epochs[p] + 1]
           same == [wanted[l] EXCEPT !.epoch = lease[p].epoch]
<1>1. /\ p \in Profiles /\ wanted[l] \in Leases!Reservation
      /\ wanted[l].profile = p /\ OfLoop(l, wanted[l])
  BY Wanted DEF Leases!Acquire
<1>2. \/ lease[p] = Free /\ lease' = [lease EXCEPT ![p] = fresh] /\ Leases!Got(l, fresh)
      \/ lease[p] # Free /\ lease[p] = same /\ Leases!Got(l, lease[p]) /\ lease' = lease
      \/ Leases!Back(l, "pending") /\ lease' = lease
  BY DEF Leases!Acquire
<1>3. epochs[p] + 1 \in Nat
  BY <1>1 DEF LeaseShape
<1>4. fresh \in Leases!Reservation /\ fresh.profile = p /\ OfLoop(l, fresh)
  BY <1>1, <1>3, GrantIsReservation DEF OfLoop
<1>5. lease[p] # Free => lease[p] \in Leases!Reservation /\ lease[p].profile = p
  BY <1>1 DEF LeaseShape
<1>6. lease[p] # Free /\ lease[p] = same => OfLoop(l, lease[p])
  <2>1. lease[p] # Free => lease[p].epoch \in Nat
    BY <1>5 DEF Leases!Reservation
  <2>2. lease[p] # Free => same.profile = p /\ same.owner = wanted[l].owner
    BY <1>1, <2>1, GrantIsReservation
  <2> HIDE DEF same
  <2> QED BY <1>1, <1>5, <2>2 DEF OfLoop
<1> HIDE DEF p, fresh, same
<1>7. \/ /\ lease[p] = Free /\ epochs[p] + 1 \in Nat
         /\ \E r \in Leases!Reservation :
               /\ OfLoop(l, r) /\ r.profile = p /\ Leases!Got(l, r)
               /\ lease' = [lease EXCEPT ![p] = r]
      \/ /\ lease[p] \in Leases!Reservation /\ OfLoop(l, lease[p])
         /\ lease[p].profile = p /\ Leases!Got(l, lease[p]) /\ lease' = lease
      \/ Leases!Back(l, "pending") /\ lease' = lease
  BY <1>2, <1>3, <1>4, <1>5, <1>6
<1> QED BY <1>7 DEF p

LEMMA OwnLeasesStep ==
    ASSUME Leases!LoopLeasesAssumption, LeasesInv, Leases!Next, NEW k \in Loops
    PROVE  OwnLeases(k)'
<1>0. LeaseShape /\ \A l \in Loops : OwnLeases(l)
  BY DEF LeasesInv
<1>1. ASSUME NEW l \in Loops, Leases!Begin(l)
      PROVE  OwnLeases(k)'
  <2>1. CASE k # l
    BY <1>0, <1>1, <2>1, OtherDispatch DEF LeaseShape, Leases!Begin, Leases!Enter
  <2>2. CASE k = l
    BY <1>0, <1>1, <2>2 DEF LeaseShape, OwnLeases, Leases!Begin, Leases!Enter
  <2> QED BY <2>1, <2>2
<1>2. ASSUME NEW l \in Loops, Leases!Skip(l) \/ Leases!Join(l) \/ Leases!Choose(l)
      PROVE  OwnLeases(k)'
  <2>1. /\ at[l] \in DOMAIN Needs[l] /\ Leases!Profile(l) = Needs[l][at[l]]
        /\ Leases!Profile(l) \in Profiles /\ Leases!Profile(l) \in Needed(l)
        /\ stage[l] = "look"
    BY <1>0, <1>2, Considered DEF Leases!Skip, Leases!Join, Leases!Choose
  <2>2. CASE k # l
    BY <1>0, <1>2, <2>2, OtherDispatch
       DEF LeaseShape, Leases!Skip, Leases!Join, Leases!Choose, Leases!Enter
  <2>3. CASE k = l /\ Leases!Skip(l)
    BY <1>0, <2>1, <2>3 DEF LeaseShape, OwnLeases, OfLoop, Needed, Leases!Skip
  <2>4. CASE k = l /\ Leases!Join(l)
    <3>1. /\ lease[Leases!Profile(l)] \in Leases!Reservation
          /\ lease[Leases!Profile(l)].profile = Leases!Profile(l)
      BY <1>0, <2>1, <2>4 DEF LeaseShape, Leases!Join
    <3> QED BY <1>0, <2>1, <2>4, <3>1
            DEF LeaseShape, OwnLeases, OfLoop, Needed, Leases!Join, Leases!Enter
  <2>5. CASE k = l /\ Leases!Choose(l)
    <3>1. PICK i \in Offers[Leases!Profile(l)] :
             wanted' = [wanted EXCEPT ![l] = Leases!Lease(l, Leases!Profile(l), i, 0)]
      BY <2>5 DEF Leases!Choose, Leases!Schedulable
    <3>2. /\ wanted'[l] \in Leases!Reservation /\ wanted'[l].profile = Leases!Profile(l)
          /\ wanted'[l].owner = OwnerOf[l]
      <4>1. wanted'[l] = Leases!Lease(l, Leases!Profile(l), i, 0)
        BY <1>0, <3>1 DEF LeaseShape
      <4>2. Leases!Profile(l) \in Profiles /\ 0 \in Nat
        BY <2>1
      <4> QED BY <4>1, <4>2, LeaseIsReservation
    <3> QED BY <1>0, <2>1, <2>5, <3>2
            DEF LeaseShape, OwnLeases, OfLoop, Needed, Leases!Choose, Leases!Enter
  <2> QED BY <1>2, <2>2, <2>3, <2>4, <2>5
<1>3. ASSUME NEW l \in Loops, Leases!Refused(l) \/ Leases!StoreFails(l) \/ Leases!End(l)
      PROVE  OwnLeases(k)'
  <2>1. attempts' = attempts /\ stage[l] # "pending"
    BY <1>3 DEF Leases!Refused, Leases!StoreFails, Leases!End, Leases!Considers
  <2>2. \E to \in {"pending", "done", "failed"} : Leases!Back(l, to)
    BY <1>3 DEF Leases!Refused, Leases!StoreFails, Leases!End
  <2> QED BY <1>0, <2>1, <2>2, OwnOfBack
<1>4. ASSUME NEW l \in Loops, Leases!Ready(l)
      PROVE  OwnLeases(k)'
  <2>1. attempts' = attempts /\ stage[l] # "pending"
    BY <1>4 DEF Leases!Ready
  <2>2. CASE Leases!Back(l, "failed")
    BY <1>0, <2>1, <2>2, OwnOfBack
  <2>3. CASE Leases!Enter(l, "running") /\ UNCHANGED <<at, wanted, held, after>>
    <3>1. CASE k # l
      BY <1>0, <2>1, <2>3, <3>1, OtherDispatch DEF LeaseShape, Leases!Enter
    <3>2. CASE k = l
      BY <1>0, <2>1, <2>3, <3>2 DEF LeaseShape, OwnLeases, OfLoop, Needed, Leases!Enter
    <3> QED BY <3>1, <3>2
  <2> QED BY <1>4, <2>2, <2>3 DEF Leases!Ready
<1>5. ASSUME NEW l \in Loops, Leases!Renew(l)
      PROVE  OwnLeases(k)'
  <2>1. attempts' = attempts /\ stage[l] = "renew"
    BY <1>5 DEF Leases!Renew
  <2>2. wanted[l] \in Leases!Reservation /\ OfLoop(l, wanted[l])
    BY <1>0, <2>1, Wanted
  <2>3. Leases!Back(l, "pending") \/ Leases!Got(l, wanted[l])
    BY <1>5 DEF Leases!Renew
  <2> QED BY <1>0, <2>1, <2>2, <2>3, OwnOfBack, OwnOfGot
<1>6. ASSUME NEW l \in Loops, Leases!Acquire(l)
      PROVE  OwnLeases(k)'
  <2>1. attempts' = attempts /\ stage[l] = "acquire"
    BY <1>6 DEF Leases!Acquire
  <2>2. \/ \E r \in Leases!Reservation : OfLoop(l, r) /\ Leases!Got(l, r)
        \/ Leases!Back(l, "pending")
    BY <1>0, <1>6, Acquired
  <2> QED BY <1>0, <2>1, <2>2, OwnOfBack, OwnOfGot
<1>7. ASSUME NEW l \in Loops, Leases!Release(l)
      PROVE  OwnLeases(k)'
  <2>1. PICK h \in held[l] :
           /\ held' = [held EXCEPT ![l] = @ \ {h}]
           /\ IF held[l] = {h}
              THEN Leases!Enter(l, after[l])
              ELSE UNCHANGED stage
    BY <1>7 DEF Leases!Release
  <2>2. UNCHANGED <<at, wanted, attempts>> /\ stage[l] = "release"
    BY <1>7 DEF Leases!Release
  <2>3. CASE k # l
    BY <1>0, <2>1, <2>2, <2>3, OtherDispatch DEF LeaseShape, Leases!Enter
  <2>4. CASE k = l /\ held[l] = {h}
    <3>1. held'[l] = {} /\ stage'[l] \in {"pending", "done", "failed"}
      BY <1>0, <2>1, <2>4 DEF LeaseShape, Leases!Enter
    <3> QED BY <1>0, <2>2, <2>4, <3>1 DEF OwnLeases
  <2>5. CASE k = l /\ held[l] # {h}
    <3>1. held'[l] \subseteq held[l] /\ stage'[l] = "release"
      BY <1>0, <2>1, <2>2, <2>5 DEF LeaseShape
    <3> QED BY <1>0, <2>2, <2>5, <3>1 DEF OwnLeases, OfLoop, Needed
  <2> QED BY <2>3, <2>4, <2>5
<1>8. ASSUME UNCHANGED <<stage, at, wanted, held, attempts>>
      PROVE  OwnLeases(k)'
  BY <1>0, <1>8, OtherDispatch
<1>9. \A p \in Profiles : Leases!Lapse(p) => UNCHANGED <<stage, at, wanted, held, attempts>>
  BY DEF Leases!Lapse, Leases!loopVars
<1>10. \A i \in Leases!Instances :
          Leases!Leave(i) \/ Leases!Return(i) => UNCHANGED <<stage, at, wanted, held, attempts>>
  BY DEF Leases!Leave, Leases!Return, Leases!loopVars
<1> QED
  BY <1>1, <1>2, <1>3, <1>4, <1>5, <1>6, <1>7, <1>8, <1>9, <1>10
     DEF Leases!Next, Leases!Prepare

\* What a step that is no release does to the leases and to what is held.
Unreleased ==
    \/ UNCHANGED <<lease, lapsed, held>>
    \/ /\ held' = held
       /\ \E p \in Profiles : /\ lease' = [lease EXCEPT ![p] = Free]
                             /\ lapsed' = lapsed \cup {lease[p]}
    \/ /\ lapsed' = lapsed
       /\ \E l \in Loops, r \in Leases!Reservation :
             /\ held' = [held EXCEPT ![l] = @ \cup {r}]
             /\ \/ lease' = lease /\ lease[r.profile] = r
                \/ lease[r.profile] = Free /\ lease' = [lease EXCEPT ![r.profile] = r]

LEMMA RenewedOrNot ==
    ASSUME Leases!LoopLeasesAssumption, LeasesInv, NEW l \in Loops,
           Leases!Renew(l) \/ Leases!Acquire(l)
    PROVE  Unreleased
<1>0. LeaseShape /\ OwnLeases(l)
  BY DEF LeasesInv
<1>1. lapsed' = lapsed
  BY DEF Leases!Renew, Leases!Acquire, Leases!storeVars
<1>2. CASE Leases!Back(l, "pending") /\ lease' = lease
  BY <1>1, <1>2 DEF Leases!Back, Unreleased
<1>3. ASSUME NEW r \in Leases!Reservation, Leases!Got(l, r),
             \/ lease' = lease /\ lease[r.profile] = r
             \/ lease[r.profile] = Free /\ lease' = [lease EXCEPT ![r.profile] = r]
      PROVE  Unreleased
  <2>1. held' = [held EXCEPT ![l] = @ \cup {r}]
    BY <1>3 DEF Leases!Got
  <2> QED BY <1>1, <1>3, <2>1 DEF Unreleased
<1>4. CASE Leases!Renew(l)
  <2>1. wanted[l] \in Leases!Reservation /\ wanted[l].profile = Leases!Profile(l)
    BY <1>0, <1>4, Wanted DEF Leases!Renew
  <2>2. \/ lease[Leases!Profile(l)] = wanted[l] /\ Leases!Got(l, wanted[l])
        \/ Leases!Back(l, "pending")
    BY <1>4 DEF Leases!Renew
  <2>3. lease' = lease
    BY <1>4 DEF Leases!Renew, Leases!storeVars
  <2> QED BY <1>2, <1>3, <2>1, <2>2, <2>3
<1>5. CASE Leases!Acquire(l)
  <2>1. \/ \E r \in Leases!Reservation :
              /\ Leases!Got(l, r)
              /\ \/ lease' = lease /\ lease[r.profile] = r
                 \/ lease[r.profile] = Free /\ lease' = [lease EXCEPT ![r.profile] = r]
        \/ Leases!Back(l, "pending") /\ lease' = lease
    BY <1>0, <1>5, Acquired
  <2> QED BY <1>2, <1>3, <2>1
<1> QED BY <1>4, <1>5

LEMMA StepUnreleased ==
    ASSUME Leases!LoopLeasesAssumption, LeasesInv, Leases!Next,
           \A l \in Loops : ~Leases!Release(l)
    PROVE  Unreleased
<1>1. ASSUME NEW l \in Loops,
             Leases!Begin(l) \/ Leases!Prepare(l) \/ Leases!End(l)
      PROVE  Unreleased
  <2>1. CASE Leases!Renew(l) \/ Leases!Acquire(l)
    BY <2>1, RenewedOrNot
  <2>2. CASE \/ Leases!Begin(l) \/ Leases!Skip(l) \/ Leases!Refused(l) \/ Leases!Join(l)
             \/ Leases!Choose(l) \/ Leases!StoreFails(l) \/ Leases!Ready(l) \/ Leases!End(l)
    <3>1. UNCHANGED <<lease, lapsed>>
      BY <2>2
         DEF Leases!Begin, Leases!Skip, Leases!Refused, Leases!Join, Leases!Choose,
             Leases!StoreFails, Leases!Ready, Leases!End, Leases!storeVars
    <3>2. held' = held
      BY <2>2
         DEF Leases!Begin, Leases!Skip, Leases!Refused, Leases!Join, Leases!Choose,
             Leases!StoreFails, Leases!Ready, Leases!End, Leases!Back
    <3> QED BY <3>1, <3>2 DEF Unreleased
  <2> QED BY <1>1, <2>1, <2>2 DEF Leases!Prepare
<1>2. ASSUME NEW p \in Profiles, Leases!Lapse(p)
      PROVE  Unreleased
  BY <1>2 DEF Leases!Lapse, Leases!loopVars, Unreleased
<1>3. ASSUME NEW i \in Leases!Instances, Leases!Leave(i) \/ Leases!Return(i)
      PROVE  Unreleased
  BY <1>3 DEF Leases!Leave, Leases!Return, Leases!loopVars, Leases!storeVars, Unreleased
<1> QED BY <1>1, <1>2, <1>3 DEF Leases!Next

\* A loop that releases what it holds goes on doing so until it holds nothing, and
\* the dispatches of a loop are only ever more.
LEMMA ReleaseGoesOn ==
    ASSUME LeaseShape, Leases!Next, NEW k \in Loops
    PROVE  /\ attempts'[k] >= attempts[k]
           /\ stage[k] = "release" => stage'[k] = "release" \/ held'[k] = {}
<1> USE DEF LeaseShape
<1>1. ASSUME NEW l \in Loops, Leases!Begin(l)
      PROVE  attempts'[k] >= attempts[k] /\ (stage[k] = "release" => stage'[k] = "release")
  BY <1>1 DEF Leases!Begin, Leases!Enter
<1>2. ASSUME NEW l \in Loops, Leases!Prepare(l) \/ Leases!End(l) \/ Leases!Release(l)
      PROVE  attempts' = attempts
  BY <1>2
     DEF Leases!Prepare, Leases!Skip, Leases!Refused, Leases!Join, Leases!Choose,
         Leases!Renew, Leases!Acquire, Leases!StoreFails, Leases!Ready, Leases!End,
         Leases!Release
<1>3. ASSUME NEW l \in Loops, Leases!Prepare(l) \/ Leases!End(l), stage[k] = "release"
      PROVE  stage'[k] = "release"
  <2>1. stage[l] # "release"
    BY <1>3
       DEF Leases!Prepare, Leases!Skip, Leases!Refused, Leases!Join, Leases!Choose,
           Leases!Renew, Leases!Acquire, Leases!StoreFails, Leases!Ready, Leases!End,
           Leases!Considers
  <2>2. stage' = stage \/ \E s : stage' = [stage EXCEPT ![l] = s]
    BY <1>3
       DEF Leases!Prepare, Leases!Skip, Leases!Refused, Leases!Join, Leases!Choose,
           Leases!Renew, Leases!Acquire, Leases!StoreFails, Leases!Ready, Leases!End,
           Leases!Back, Leases!Got, Leases!Enter
  <2> QED BY <1>3, <2>1, <2>2
<1>4. ASSUME NEW l \in Loops, Leases!Release(l), stage[k] = "release"
      PROVE  stage'[k] = "release" \/ held'[k] = {}
  BY <1>4 DEF Leases!Release, Leases!Enter
<1>5. ASSUME UNCHANGED Leases!loopVars, attempts' = attempts
      PROVE  attempts'[k] >= attempts[k] /\ stage' = stage
  BY <1>5 DEF Leases!loopVars
<1>6. \A p \in Profiles : Leases!Lapse(p) => UNCHANGED Leases!loopVars /\ attempts' = attempts
  BY DEF Leases!Lapse
<1>7. \A i \in Leases!Instances :
         Leases!Leave(i) \/ Leases!Return(i) => UNCHANGED Leases!loopVars /\ attempts' = attempts
  BY DEF Leases!Leave, Leases!Return
<1>8. attempts[k] \in Nat
  OBVIOUS
<1> QED BY <1>1, <1>2, <1>3, <1>4, <1>5, <1>6, <1>7, <1>8 DEF Leases!Next

LEMMA SharesOn ==
    ASSUME LeaseShape, LeaseShape', Leases!Next, NEW l \in Loops, NEW m \in Loops, NEW p,
           Leases!Shares(m, l, p)
    PROVE  Leases!Shares(m, l, p)'
<1>1. attempts'[m] >= attempts[m] /\ attempts[m] \in Nat
  BY ReleaseGoesOn DEF LeaseShape
<1>2. attempts[m] > 0
  BY DEF Leases!Shares
<1>3. attempts'[m] > 0
  BY <1>1, <1>2 DEF LeaseShape
<1> QED BY <1>3 DEF Leases!Shares

LEMMA KeepsLeasesStep ==
    ASSUME Leases!LoopLeasesAssumption, LeasesInv, Leases!Next, NEW k \in Loops
    PROVE  KeepsLeases(k)'
<1>0. LeaseShape /\ LeaseShape' /\ \A l \in Loops : OwnLeases(l) /\ KeepsLeases(l)
  BY LeasesShapeStep DEF LeasesInv
<1> SUFFICES ASSUME stage'[k] # "release", NEW h \in held'[k]
             PROVE  \/ lease'[h.profile] = h
                    \/ h \in lapsed'
                    \/ \E m \in Loops : Leases!Shares(m, k, h.profile)'
  BY DEF KeepsLeases
<1>1. stage[k] # "release"
  BY <1>0, ReleaseGoesOn
<1>2. h \in held[k] => \/ lease[h.profile] = h
                       \/ h \in lapsed
                       \/ \E m \in Loops : Leases!Shares(m, k, h.profile)
  BY <1>0, <1>1 DEF KeepsLeases
<1>3. ASSUME NEW m \in Loops, Leases!Shares(m, k, h.profile)
      PROVE  Leases!Shares(m, k, h.profile)'
  BY <1>0, <1>3, SharesOn
<1>4. h \in Leases!Reservation /\ h.profile \in Profiles /\ h # Free
  <2>1. held' \in [Loops -> SUBSET Leases!Reservation]
    BY <1>0 DEF LeaseShape
  <2>2. h \in Leases!Reservation
    BY <2>1
  <2> QED BY <2>2 DEF Leases!Reservation, Leases!LoopLeasesAssumption
<1>5. CASE \A l \in Loops : ~Leases!Release(l)
  <2>1. lapsed \subseteq lapsed'
    BY <1>5, StepUnreleased DEF Unreleased
  <2>2. h \in held[k] \/ lease'[h.profile] = h
    BY <1>0, <1>4, <1>5, StepUnreleased DEF Unreleased, LeaseShape
  <2>3. lease[h.profile] = h => lease'[h.profile] = h \/ h \in lapsed'
    BY <1>0, <1>4, <1>5, StepUnreleased DEF Unreleased, LeaseShape
  <2> QED BY <1>2, <1>3, <2>1, <2>2, <2>3
<1>6. ASSUME NEW l \in Loops, Leases!Release(l)
      PROVE  \/ lease'[h.profile] = h
             \/ h \in lapsed'
             \/ \E m \in Loops : Leases!Shares(m, k, h.profile)'
  <2>1. PICK g \in held[l] :
           /\ held' = [held EXCEPT ![l] = @ \ {g}]
           /\ lease' = IF Leases!Matches(g) THEN [lease EXCEPT ![g.profile] = Free] ELSE lease
    BY <1>6 DEF Leases!Release
  <2>2. lapsed' = lapsed /\ stage[l] = "release" /\ k # l
    BY <1>1, <1>6 DEF Leases!Release
  <2>3. h \in held[k]
    BY <1>0, <2>1, <2>2 DEF LeaseShape
  <2>4. CASE lease[h.profile] = h /\ lease'[h.profile] # h
    <3>1. g = h
      BY <1>0, <1>4, <2>1, <2>4 DEF LeaseShape, Leases!Matches
    <3>2. OfLoop(k, h) /\ OfLoop(l, h)
      BY <1>0, <2>1, <2>3, <3>1 DEF OwnLeases
    <3>3. attempts[l] > 0
      BY <1>0, <2>2 DEF OwnLeases
    <3>4. Leases!Shares(l, k, h.profile)
      BY <2>2, <3>2, <3>3 DEF OfLoop, Needed, Leases!Shares
    <3> QED BY <1>3, <3>4
  <2> QED BY <1>2, <1>3, <2>2, <2>3, <2>4
<1> QED BY <1>5, <1>6

LEMMA NothingLeftStep ==
    ASSUME Leases!LoopLeasesAssumption, LeasesInv, Leases!Next
    PROVE  Leases!NothingIsLeftReserved'
<1>0. LeaseShape /\ Leases!NothingIsLeftReserved
  BY DEF LeasesInv
<1> SUFFICES ASSUME NEW p \in Profiles, lease'[p] # Free
             PROVE  \E l \in Loops : lease'[p] \in held'[l]
  BY DEF Leases!NothingIsLeftReserved
<1>1. lease[p] # Free => \E l \in Loops : lease[p] \in held[l]
  BY <1>0 DEF Leases!NothingIsLeftReserved
<1>2. lease[p] # Free => lease[p].profile = p
  BY <1>0 DEF LeaseShape
<1>3. CASE \A l \in Loops : ~Leases!Release(l)
  <2>1. CASE UNCHANGED <<lease, lapsed, held>>
    BY <1>1, <2>1
  <2>2. ASSUME held' = held, NEW q \in Profiles, lease' = [lease EXCEPT ![q] = Free]
        PROVE  \E l \in Loops : lease'[p] \in held'[l]
    BY <1>0, <1>1, <2>2 DEF LeaseShape
  <2>3. ASSUME NEW l \in Loops, NEW r \in Leases!Reservation,
               held' = [held EXCEPT ![l] = @ \cup {r}],
               \/ lease' = lease /\ lease[r.profile] = r
               \/ lease[r.profile] = Free /\ lease' = [lease EXCEPT ![r.profile] = r]
        PROVE  \E m \in Loops : lease'[p] \in held'[m]
    <3>1. \A m \in Loops : held[m] \subseteq held'[m]
      BY <1>0, <2>3 DEF LeaseShape
    <3>2. r \in held'[l]
      BY <1>0, <2>3 DEF LeaseShape
    <3>3. lease'[p] = lease[p] \/ lease'[p] = r
      BY <1>0, <2>3 DEF LeaseShape
    <3> QED BY <1>1, <3>1, <3>2, <3>3
  <2> QED BY <1>3, <2>1, <2>2, <2>3, StepUnreleased DEF Unreleased
<1>4. ASSUME NEW l \in Loops, Leases!Release(l)
      PROVE  \E m \in Loops : lease'[p] \in held'[m]
  <2>1. PICK g \in held[l] :
           /\ held' = [held EXCEPT ![l] = @ \ {g}]
           /\ lease' = IF Leases!Matches(g) THEN [lease EXCEPT ![g.profile] = Free] ELSE lease
    BY <1>4 DEF Leases!Release
  <2>2. lease'[p] = lease[p]
    BY <1>0, <2>1 DEF LeaseShape
  <2>3. lease[p] # g
    BY <1>0, <1>2, <2>1, <2>2 DEF LeaseShape, Leases!Matches
  <2> QED BY <1>0, <1>1, <2>1, <2>2, <2>3 DEF LeaseShape
<1> QED BY <1>3, <1>4

LEMMA LeasesInvariant ==
    ASSUME Leases!LoopLeasesAssumption
    PROVE  Leases!Spec => []LeasesInv
<1>1. Leases!Init => LeasesInv
  BY DEF Leases!Init, LeasesInv, LeaseShape, LeaseStages, OwnLeases, KeepsLeases,
         Leases!NothingIsLeftReserved
<1>2. LeasesInv /\ [Leases!Next]_Leases!vars => LeasesInv'
  <2>1. CASE LeasesInv /\ Leases!Next
    BY <2>1, LeasesShapeStep, OwnLeasesStep, KeepsLeasesStep, NothingLeftStep DEF LeasesInv
  <2>2. CASE LeasesInv /\ UNCHANGED Leases!vars
    BY <2>2
       DEF Leases!vars, Leases!storeVars, Leases!loopVars, LeasesInv, LeaseShape, OwnLeases,
           OfLoop, Needed, KeepsLeases, Leases!Shares, Leases!NothingIsLeftReserved
  <2> QED BY <2>1, <2>2
<1> QED BY <1>1, <1>2, PTL DEF Leases!Spec

(* The instances of a loop are reserved until it ends, a lease lapses or    *)
(* another loop of the same conductor gives a shared one back; and none     *)
(* stays reserved for a loop that does not hold it.                         *)
THEOREM Reserved == Leases!Spec => []ReservationsHold
<1>1. LeasesInv => ReservationsHold
  BY DEF LeasesInv, KeepsLeases, ReservationsHold, Leases!ReservationsHold,
         Leases!RunningIsReserved
<1>2. Leases!LoopLeasesAssumption
  BY LeasesAssumption
<1> QED BY <1>1, <1>2, LeasesInvariant, PTL

=============================================================================
