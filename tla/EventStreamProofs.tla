------------------------ MODULE EventStreamProofs ------------------------
(***************************************************************************)
(* The event log and its streams, for any number of writers and readers,   *)
(* any page size and any number of broken connections.                     *)
(*                                                                         *)
(* The log: the writer that holds the lock is the only one under way.  The *)
(* streams: what is on the wire of a reader is the stretch of seqs that    *)
(* ends at its generator's cursor, and that stretch begins no later than   *)
(* right behind what the reader has.                                       *)
(***************************************************************************)
EXTENDS EventStream, SequenceTheorems, TLAPS

(* The lock is held by the writer that is under way.                       *)
LockInv ==
  /\ \A w \in Writers : wpc[w] # "idle" => lock = w
  /\ SeqsAreFree

(* Some seqs without a gap that end with the seq e.                        *)
EndsAt(s, e) ==
  /\ Len(s) <= e
  /\ \A i \in 1 .. Len(s) : s[i] + Len(s) = e + i

(* What a reader has is 1, 2, ...; the cursor it would reconnect with is   *)
(* among it.                                                               *)
ViewInvAt(r) ==
  /\ \A i \in 1 .. Len(view[r]) : view[r][i] = i
  /\ Len(view[r]) <= Len(log)
  /\ url[r] <= Len(view[r])

(* The page holds the seqs behind the cursor.                              *)
PageInvAt(r) ==
  /\ \A i \in 1 .. Len(page[r]) : page[r][i] = last[r] + i
  /\ last[r] + Len(page[r]) <= Len(log)
  /\ conn[r] = "send" <=> page[r] # <<>>

(* The wire holds the seqs up to the cursor, without a gap to the view.    *)
WireInvAt(r) ==
  conn[r] # "closed" \/ wire[r] # <<>> =>
    /\ EndsAt(wire[r], last[r])
    /\ last[r] <= Len(view[r]) + Len(wire[r])

StreamInv == \A r \in Readers : ViewInvAt(r) /\ PageInvAt(r) /\ WireInvAt(r)

IInv == StreamTypeOK /\ LockInv /\ StreamInv

(* How much of the log a waiter was sent and did not lose.                 *)
SentTo(r) == Len(view[r]) + Len(wire[r])

(* A waiter is sent the log from its beginning, each event once; up to its *)
(* cursor no run is finished, except by the event that ended the stream.   *)
WaiterInvAt(r) ==
  /\ url[r] = 0
  /\ conn[r] = "closed" => wire[r] = <<>>
  /\ conn[r] # "closed" => last[r] = SentTo(r)
  /\ SentTo(r) <= Len(log)
  /\ \A i \in 1 .. SentTo(r) :
       log[i] = "run_finished" => i = SentTo(r) /\ conn[r] = "ended"
  /\ conn[r] = "ended" => SentTo(r) > 0 /\ log[SentTo(r)] = "run_finished"

WaiterInv == \A r \in Waiters : WaiterInvAt(r)

---------------------------------------------------------------------------
(* Nothing ends anywhere.                                                  *)
LEMMA NothingEnds == ASSUME NEW e \in Nat PROVE EndsAt(<<>>, e)
  BY EmptySeq DEF EndsAt

(* The next seq continues the seqs up to e.                                *)
LEMMA EndsLater ==
  ASSUME NEW s \in Seq(Nat), NEW e \in Nat, EndsAt(s, e)
  PROVE  EndsAt(Append(s, e + 1), e + 1)
<1>1. Len(s) \in Nat /\ \A i \in 1 .. Len(s) : s[i] \in Nat
  BY LenProperties, ElementOfSeq
<1>2. /\ Len(Append(s, e + 1)) = Len(s) + 1
      /\ \A i \in 1 .. Len(s) : Append(s, e + 1)[i] = s[i]
      /\ Append(s, e + 1)[Len(s) + 1] = e + 1
  BY AppendProperties
<1>3. \A i \in 1 .. Len(s) : s[i] + Len(s) = e + i
  BY DEF EndsAt
<1>4. ASSUME NEW i \in 1 .. Len(s) + 1
      PROVE  Append(s, e + 1)[i] + (Len(s) + 1) = e + 1 + i
  <2>1. CASE i = Len(s) + 1
    BY <1>1, <1>2, <2>1
  <2>2. CASE i \in 1 .. Len(s)
    <3>1. Append(s, e + 1)[i] = s[i] /\ s[i] \in Nat /\ s[i] + Len(s) = e + i
      BY <1>1, <1>2, <1>3, <2>2
    <3>2. \A a, n, k \in Nat : a + n = e + k => a + (n + 1) = e + 1 + k
      OBVIOUS
    <3>3. Len(s) \in Nat /\ i \in Nat
      BY <1>1, <2>2
    <3>4. QED
      BY <3>1, <3>2, <3>3, SMTT(60)
  <2>3. QED
    BY <1>1, <2>1, <2>2
<1>5. Len(s) + 1 <= e + 1
  BY <1>1 DEF EndsAt
<1>6. QED
  BY <1>2, <1>4, <1>5 DEF EndsAt

(* Without the first, the seqs still end with e; the first is at their     *)
(* length before e.                                                        *)
LEMMA EndsWithoutFirst ==
  ASSUME NEW s \in Seq(Nat), s # <<>>, NEW e \in Nat, EndsAt(s, e)
  PROVE  EndsAt(Tail(s), e) /\ Head(s) + Len(s) = e + 1 /\ Head(s) >= 1
<1>1. Len(s) \in Nat \ {0} /\ \A i \in 1 .. Len(s) : s[i] \in Nat
  BY EmptySeq, ElementOfSeq
<1>2. /\ Len(Tail(s)) = Len(s) - 1
      /\ \A i \in 1 .. Len(Tail(s)) : Tail(s)[i] = s[i + 1]
      /\ Head(s) = s[1]
  BY HeadTailProperties
<1>3. EndsAt(Tail(s), e)
  <2>1. \A i \in 1 .. Len(s) : s[i] + Len(s) = e + i
    BY DEF EndsAt
  <2>2. ASSUME NEW i \in 1 .. Len(s) - 1
        PROVE  Tail(s)[i] + (Len(s) - 1) = e + i
    <3>1. i + 1 \in 1 .. Len(s)
      BY <1>1
    <3>2. /\ Tail(s)[i] = s[i + 1] /\ s[i + 1] \in Nat
          /\ s[i + 1] + Len(s) = e + (i + 1)
      BY <1>1, <1>2, <2>1, <3>1
    <3>3. \A a, n, k \in Nat : a + n = e + (k + 1) => a + (n - 1) = e + k
      OBVIOUS
    <3>4. Len(s) \in Nat /\ i \in Nat
      BY <1>1
    <3>5. QED
      BY <3>2, <3>3, <3>4, SMTT(60)
  <2>3. Len(s) - 1 <= e
    BY <1>1 DEF EndsAt
  <2>4. QED
    BY <1>2, <2>2, <2>3 DEF EndsAt
<1>4. QED
  BY <1>1, <1>2, <1>3 DEF EndsAt

(* A fresh log and fresh readers satisfy the inductive invariant.          *)
LEMMA StreamInit == Init => IInv
<1> SUFFICES ASSUME Init PROVE IInv
  OBVIOUS
<1> USE DEF Init
<1>1. StreamTypeOK
  BY DEF StreamTypeOK, Points
<1>2. LockInv
  BY DEF LockInv, SeqsAreFree
<1>3. StreamInv
  BY DEF StreamInv, ViewInvAt, PageInvAt, WireInvAt, EndsAt
<1>4. QED
  BY <1>1, <1>2, <1>3 DEF IInv

(* What a step that takes the first of some seqs leaves.                   *)
LEMMA TakeFirst ==
  ASSUME NEW s \in Seq(Nat), s # <<>>
  PROVE  /\ Len(s) \in Nat \ {0} /\ Head(s) = s[1] /\ Head(s) \in Nat
         /\ Tail(s) \in Seq(Nat) /\ Len(Tail(s)) = Len(s) - 1
         /\ \A i \in 1 .. Len(Tail(s)) : Tail(s)[i] = s[i + 1]
<1>1. Len(s) \in Nat /\ Len(s) # 0
  BY EmptySeq
<1>2. QED
  BY <1>1, HeadTailProperties

(* What a step that adds a seq to some seqs leaves.                        *)
LEMMA AddLast ==
  ASSUME NEW s \in Seq(Nat), NEW e \in Nat
  PROVE  /\ Append(s, e) \in Seq(Nat) /\ Len(Append(s, e)) = Len(s) + 1
         /\ \A i \in 1 .. Len(s) : Append(s, e)[i] = s[i]
         /\ Append(s, e)[Len(s) + 1] = e
  BY AppendProperties

(* A reader that has 1, 2, ... has the seqs up to their number.            *)
LEMMA SeenAlready ==
  ASSUME NEW s \in Seq(Nat), \A i \in 1 .. Len(s) : s[i] = i,
         NEW e \in Nat, e >= 1
  PROVE  Contains(s, e) <=> e <= Len(s)
<1>1. Contains(s, e) <=> \E i \in 1 .. Len(s) : s[i] = e
  BY DEF Contains
<1>2. Len(s) \in Nat
  BY LenProperties
<1>3. QED
  BY <1>1, <1>2

(* The next seq continues 1, 2, ...                                        *)
LEMMA CountsOn ==
  ASSUME NEW s \in Seq(Nat), \A i \in 1 .. Len(s) : s[i] = i
  PROVE  LET t == Append(s, Len(s) + 1)
         IN  Len(t) = Len(s) + 1 /\ \A i \in 1 .. Len(t) : t[i] = i
<1>1. Len(s) \in Nat
  BY LenProperties
<1>2. QED
  BY <1>1, AppendProperties

(* events_since returns the seqs behind the cursor, some if there are any. *)
LEMMA NextPageIs ==
  ASSUME StreamTypeOK, NEW r \in Readers, last[r] < Len(log)
  PROVE  /\ NextPage(r) \in Seq(Nat)
         /\ NextPage(r) # <<>>
         /\ \A i \in 1 .. Len(NextPage(r)) : NextPage(r)[i] = last[r] + i
         /\ last[r] + Len(NextPage(r)) <= Len(log)
<1> DEFINE upto == IF Len(log) > last[r] + Page THEN last[r] + Page ELSE Len(log)
           n    == upto - last[r]
<1>1. last[r] \in Nat /\ Len(log) \in Nat /\ Page \in Nat \ {0}
  BY StreamAssumption DEF StreamTypeOK
<1>2. n \in Nat /\ n > 0 /\ last[r] + n <= Len(log)
  BY <1>1
<1>3. NextPage(r) = [i \in 1 .. n |-> last[r] + i]
  BY DEF NextPage
<1> HIDE DEF n, upto
<1>4. NextPage(r) \in Seq(Nat) /\ Len(NextPage(r)) = n
  BY <1>1, <1>2, <1>3
<1>5. QED
  BY <1>2, <1>3, <1>4

(* Every step keeps every variable in its set.                             *)
LEMMA StreamTypeStep ==
  StreamTypeOK /\ StreamInv /\ [Next]_vars => StreamTypeOK'
<1> SUFFICES ASSUME StreamTypeOK, StreamInv, [Next]_vars PROVE StreamTypeOK'
  OBVIOUS
<1> USE StreamAssumption DEF StreamTypeOK, Points, readVars, writeVars, Goto
<1>1. ASSUME NEW w \in Writers, Write(w) PROVE StreamTypeOK'
  <2>1. CASE Acquire(w)
    BY <2>1 DEF Acquire
  <2>2. CASE ReadMax(w)
    BY <2>2 DEF ReadMax
  <2>3. CASE Insert(w)
    BY <2>3 DEF Insert, Kinds
  <2>4. QED
    BY <1>1, <2>1, <2>2, <2>3 DEF Write
<1>2. ASSUME NEW r \in Readers, Serve(r) \/ Cut(r) PROVE StreamTypeOK'
  <2>1. CASE Connect(r)
    BY <2>1 DEF Connect
  <2>2. CASE Fetch(r)
    <3>1. NextPage(r) \in Seq(Nat)
      BY <2>2, NextPageIs DEF Fetch
    <3>2. QED
      BY <2>2, <3>1 DEF Fetch
  <2>3. CASE Send(r)
    <3>1. page[r] \in Seq(Nat) /\ page[r] # <<>> /\ wire[r] \in Seq(Nat)
      BY <2>3 DEF Send, StreamInv, PageInvAt
    <3>2. /\ Head(page[r]) \in Nat
          /\ Tail(page[r]) \in Seq(Nat)
      BY <3>1, TakeFirst
    <3>3. Append(wire[r], Head(page[r])) \in Seq(Nat)
      BY <3>1, <3>2, AddLast
    <3>4. PICK to \in Points, rest \in {<<>>, Tail(page[r])} :
            conn' = [conn EXCEPT ![r] = to] /\ page' = [page EXCEPT ![r] = rest]
      <4>1. CASE r \in Waiters /\ log[Head(page[r])] = "run_finished"
        BY <2>3, <4>1 DEF Send
      <4>2. CASE ~(r \in Waiters /\ log[Head(page[r])] = "run_finished")
        BY <2>3, <4>2 DEF Send
      <4>3. QED
        BY <4>1, <4>2
    <3>5. rest \in Seq(Nat)
      <4>1. <<>> \in Seq(Nat)
        BY EmptySeq
      <4>2. QED
        BY <4>1, <3>2, <3>4
    <3>6. page' \in [Readers -> Seq(Nat)]
      BY <3>4, <3>5
    <3>7. conn' \in [Readers -> Points]
      BY <3>4
    <3>8. wire' \in [Readers -> Seq(Nat)] /\ last' \in [Readers -> Nat]
      BY <2>3, <3>2, <3>3 DEF Send
    <3>9. QED
      BY <2>3, <3>6, <3>7, <3>8 DEF Send
  <2>4. CASE Deliver(r)
    <3>1. Head(wire[r]) \in Nat /\ Tail(wire[r]) \in Seq(Nat)
      BY <2>4, TakeFirst DEF Deliver
    <3>2. Append(view[r], Head(wire[r])) \in Seq(Nat)
      BY <3>1, AddLast
    <3>3. view' \in [Readers -> Seq(Nat)]
      BY <2>4, <3>2 DEF Deliver
    <3>4. QED
      BY <2>4, <3>1, <3>3 DEF Deliver
  <2>5. CASE Deadline(r)
    BY <2>5 DEF Deadline
  <2>6. CASE Break(r)
    BY <2>6 DEF Break
  <2>7. CASE Reopen(r)
    BY <2>7 DEF Reopen, Last
  <2>8. QED
    BY <1>2, <2>1, <2>2, <2>3, <2>4, <2>5, <2>6, <2>7 DEF Serve, Cut
<1>3. CASE UNCHANGED vars
  BY <1>3 DEF vars
<1>4. QED
  BY <1>1, <1>2, <1>3 DEF Next

(* Only the writer with the lock moves, so the MAX it read stays the MAX.  *)
LEMMA LockStep == StreamTypeOK /\ LockInv /\ [Next]_vars => LockInv'
<1> SUFFICES ASSUME StreamTypeOK, LockInv, [Next]_vars PROVE LockInv'
  OBVIOUS
<1> USE StreamAssumption DEF StreamTypeOK, LockInv, SeqsAreFree
<1>1. ASSUME NEW w \in Writers, Write(w) PROVE LockInv'
  <2>1. CASE Acquire(w)
    BY <2>1 DEF Acquire
  <2>2. CASE ReadMax(w)
    BY <2>2 DEF ReadMax
  <2>3. CASE Insert(w)
    BY <2>3 DEF Insert
  <2>4. QED
    BY <1>1, <2>1, <2>2, <2>3 DEF Write
<1>2. ASSUME NEW r \in Readers, Serve(r) \/ Cut(r) PROVE LockInv'
  BY <1>2 DEF Serve, Cut, Connect, Fetch, Send, Deliver, Deadline, Break,
              Reopen, writeVars
<1>3. CASE UNCHANGED vars
  BY <1>3 DEF vars, writeVars
<1>4. QED
  BY <1>1, <1>2, <1>3 DEF Next

(* The reader of another connection: nothing of its own changes, and the   *)
(* log it reads may grow.                                                  *)
LEMMA OtherReader ==
  ASSUME StreamTypeOK, NEW r \in Readers,
         ViewInvAt(r), PageInvAt(r), WireInvAt(r),
         Len(log') \in Nat, Len(log) <= Len(log'),
         conn'[r] = conn[r], url'[r] = url[r], last'[r] = last[r],
         page'[r] = page[r], wire'[r] = wire[r], view'[r] = view[r]
  PROVE  ViewInvAt(r)' /\ PageInvAt(r)' /\ WireInvAt(r)'
<1>1. /\ Len(log) \in Nat /\ Len(view[r]) \in Nat /\ Len(page[r]) \in Nat
      /\ last[r] \in Nat /\ url[r] \in Nat
  BY DEF StreamTypeOK
<1>2. ViewInvAt(r)'
  BY <1>1 DEF ViewInvAt
<1>3. PageInvAt(r)'
  BY <1>1 DEF PageInvAt
<1>4. WireInvAt(r)'
  BY DEF WireInvAt
<1>5. QED
  BY <1>2, <1>3, <1>4

(* A reader's own step keeps what is on its way without a gap.             *)
LEMMA OwnStep ==
  ASSUME StreamTypeOK, NEW r \in Readers,
         ViewInvAt(r), PageInvAt(r), WireInvAt(r), Serve(r) \/ Cut(r)
  PROVE  ViewInvAt(r)' /\ PageInvAt(r)' /\ WireInvAt(r)'
<1>1. /\ conn \in [Readers -> Points]
      /\ url \in [Readers -> Nat] /\ last \in [Readers -> Nat]
      /\ page \in [Readers -> Seq(Nat)]
      /\ wire \in [Readers -> Seq(Nat)]
      /\ view \in [Readers -> Seq(Nat)]
      /\ log \in Seq(Kinds)
  BY DEF StreamTypeOK
<1>2. /\ Len(log) \in Nat /\ Len(view[r]) \in Nat
      /\ Len(page[r]) \in Nat /\ Len(wire[r]) \in Nat
  BY <1>1
<1> USE <1>1, <1>2 DEF Goto
<1>3. CASE Connect(r)
  <2>1. /\ page' = page /\ wire' = wire /\ view' = view /\ url' = url
        /\ log' = log /\ last' = [last EXCEPT ![r] = url[r]]
        /\ conn' = [conn EXCEPT ![r] = "fetch"]
        /\ conn[r] = "closed" /\ wire[r] = <<>>
    BY <1>3 DEF Connect, writeVars
  <2>2. page[r] = <<>>
    BY <2>1 DEF PageInvAt
  <2>3. ViewInvAt(r)'
    BY <2>1 DEF ViewInvAt
  <2>4. PageInvAt(r)'
    BY <2>1, <2>2 DEF PageInvAt, ViewInvAt
  <2>5. WireInvAt(r)'
    <3>1. last'[r] \in Nat /\ last'[r] <= Len(view'[r]) + Len(wire'[r])
      BY <2>1 DEF ViewInvAt
    <3>2. EndsAt(wire'[r], last'[r])
      BY <2>1, <3>1, NothingEnds
    <3>3. QED
      BY <3>1, <3>2 DEF WireInvAt
  <2>6. QED
    BY <2>3, <2>4, <2>5
<1>4. CASE Fetch(r)
  <2>1. /\ wire' = wire /\ view' = view /\ url' = url /\ last' = last
        /\ log' = log /\ page'[r] = NextPage(r) /\ conn'[r] = "send"
        /\ conn[r] = "fetch"
    BY <1>4 DEF Fetch, writeVars
  <2>2. ViewInvAt(r)'
    BY <2>1 DEF ViewInvAt
  <2>3. PageInvAt(r)'
    BY <1>4, <2>1, NextPageIs DEF PageInvAt, Fetch
  <2>4. WireInvAt(r)'
    BY <2>1 DEF WireInvAt
  <2>5. QED
    BY <2>2, <2>3, <2>4
<1>5. CASE Send(r)
  <2>1. /\ view' = view /\ url' = url /\ log' = log
        /\ last'[r] = Head(page[r])
        /\ wire'[r] = Append(wire[r], Head(page[r]))
        /\ conn[r] = "send" /\ conn'[r] # "closed"
    BY <1>5 DEF Send, writeVars
  <2>2. page[r] # <<>> /\ Head(page[r]) = last[r] + 1 /\ last[r] + 1 <= Len(log)
    BY <2>1 DEF PageInvAt
  <2>3. \/ page'[r] = <<>> /\ conn'[r] # "send"
        \/ /\ page'[r] = Tail(page[r])
           /\ conn'[r] = IF Len(page[r]) = 1 THEN "fetch" ELSE "send"
    BY <1>5 DEF Send
  <2>4. ViewInvAt(r)'
    BY <2>1 DEF ViewInvAt
  <2>5. PageInvAt(r)'
    <3>1. CASE page'[r] = <<>> /\ conn'[r] # "send"
      BY <2>1, <2>2, <3>1 DEF PageInvAt
    <3>2. CASE /\ page'[r] = Tail(page[r])
               /\ conn'[r] = IF Len(page[r]) = 1 THEN "fetch" ELSE "send"
      <4>1. /\ Len(page'[r]) = Len(page[r]) - 1
            /\ \A i \in 1 .. Len(page'[r]) : page'[r][i] = page[r][i + 1]
        BY <2>2, <3>2, TakeFirst
      <4>2. page'[r] # <<>> <=> Len(page[r]) # 1
        <5>1. page'[r] \in Seq(Nat)
          BY <2>2, <3>2, TakeFirst
        <5>2. page'[r] # <<>> <=> Len(page'[r]) # 0
          BY <5>1, EmptySeq
        <5>3. QED
          BY <4>1, <5>2
      <4>3. \A i \in 1 .. Len(page'[r]) : page'[r][i] = last'[r] + i
        BY <2>1, <2>2, <4>1, SMTT(60) DEF PageInvAt
      <4>4. last'[r] + Len(page'[r]) <= Len(log')
        BY <2>1, <2>2, <4>1 DEF PageInvAt
      <4>5. QED
        BY <3>2, <4>2, <4>3, <4>4 DEF PageInvAt
    <3>3. QED
      BY <2>3, <3>1, <3>2
  <2>6. WireInvAt(r)'
    <3>1. /\ wire[r] \in Seq(Nat) /\ last[r] \in Nat
          /\ EndsAt(wire[r], last[r])
          /\ last[r] <= Len(view[r]) + Len(wire[r])
      BY <2>1 DEF WireInvAt
    <3>2. /\ EndsAt(wire'[r], last[r] + 1)
          /\ Len(wire'[r]) = Len(wire[r]) + 1
      BY <2>1, <2>2, <3>1, EndsLater, AddLast
    <3>3. last'[r] = last[r] + 1 /\ last'[r] <= Len(view'[r]) + Len(wire'[r])
      BY <2>1, <2>2, <3>1, <3>2
    <3>4. QED
      BY <3>2, <3>3 DEF WireInvAt
  <2>7. QED
    BY <2>4, <2>5, <2>6
<1>6. CASE Deliver(r)
  <2>1. /\ conn' = conn /\ url' = url /\ last' = last /\ page' = page
        /\ log' = log /\ wire'[r] = Tail(wire[r]) /\ wire[r] # <<>>
        /\ view'[r] = IF Contains(view[r], Head(wire[r])) THEN view[r]
                      ELSE Append(view[r], Head(wire[r]))
    BY <1>6 DEF Deliver, writeVars
  <2>2. /\ wire[r] \in Seq(Nat) /\ view[r] \in Seq(Nat) /\ last[r] \in Nat
        /\ EndsAt(wire[r], last[r])
        /\ last[r] <= Len(view[r]) + Len(wire[r])
    BY <2>1 DEF WireInvAt
  <2>3. /\ Len(wire'[r]) = Len(wire[r]) - 1
        /\ Head(wire[r]) \in Nat
    BY <2>1, TakeFirst
  <2>4. /\ EndsAt(wire'[r], last[r])
        /\ Head(wire[r]) + Len(wire[r]) = last[r] + 1
        /\ Head(wire[r]) >= 1
    BY <2>1, <2>2, EndsWithoutFirst
  <2>5. PageInvAt(r)'
    BY <2>1 DEF PageInvAt
  <2> DEFINE known == Contains(view[r], Head(wire[r]))
  <2>6. known <=> Head(wire[r]) <= Len(view[r])
    <3>1. \A i \in 1 .. Len(view[r]) : view[r][i] = i
      BY DEF ViewInvAt
    <3>2. QED
      BY ONLY <2>2, <2>3, <2>4, <3>1, SeenAlready
  <2>7. view'[r] = IF known THEN view[r] ELSE Append(view[r], Head(wire[r]))
    BY <2>1
  <2> HIDE DEF known
  <2>8. CASE Head(wire[r]) <= Len(view[r])
    <3>1. view'[r] = view[r]
      BY <2>8, <2>6, <2>7
    <3>2. ViewInvAt(r)'
      BY <2>1, <3>1 DEF ViewInvAt
    <3>3. last[r] <= Len(view'[r]) + Len(wire'[r])
      BY <2>2, <2>3, <2>4, <2>8, <3>1
    <3>4. WireInvAt(r)'
      BY <2>1, <2>4, <3>3 DEF WireInvAt
    <3>5. QED
      BY <2>5, <3>2, <3>4
  <2>9. CASE ~(Head(wire[r]) <= Len(view[r]))
    <3>1. view'[r] = Append(view[r], Head(wire[r]))
      BY <2>9, <2>6, <2>7
    <3>2. Head(wire[r]) = Len(view[r]) + 1
      BY <2>2, <2>3, <2>4, <2>9, SMTT(60)
    <3>3. last[r] <= Len(log)
      BY DEF PageInvAt
    <3>4. Len(view[r]) + 1 <= Len(log)
      BY <2>1, <2>2, <2>4, <3>2, <3>3, SMTT(60) DEF EndsAt
    <3>5. /\ Len(view'[r]) = Len(view[r]) + 1
          /\ \A i \in 1 .. Len(view'[r]) : view'[r][i] = i
      BY <2>2, <3>1, <3>2, CountsOn DEF ViewInvAt
    <3>6. ViewInvAt(r)'
      BY <2>1, <3>4, <3>5 DEF ViewInvAt
    <3>7. last[r] <= Len(view'[r]) + Len(wire'[r])
      BY <2>2, <2>3, <3>5
    <3>8. WireInvAt(r)'
      BY <2>1, <2>4, <3>7 DEF WireInvAt
    <3>9. QED
      BY <2>5, <3>6, <3>8
  <2>10. QED
    BY <2>8, <2>9
<1>7. CASE Cut(r)
  <2>1. /\ view' = view /\ last' = last /\ log' = log
        /\ conn'[r] = "closed" /\ page'[r] = <<>>
    BY <1>7 DEF Cut, Deadline, Break, Reopen, writeVars, PageInvAt
  <2>2. PageInvAt(r)'
    BY <2>1 DEF PageInvAt
  <2>3. CASE Deadline(r)
    <3>1. url' = url /\ wire' = wire /\ conn[r] = "fetch"
      BY <2>3 DEF Deadline
    <3>2. QED
      BY <2>1, <2>2, <3>1 DEF ViewInvAt, WireInvAt
  <2>4. CASE Break(r)
    <3>1. url' = url /\ wire'[r] = <<>>
      BY <2>4 DEF Break
    <3>2. QED
      BY <2>1, <2>2, <3>1 DEF ViewInvAt, WireInvAt
  <2>5. CASE Reopen(r)
    <3>1. url'[r] = IF view[r] = <<>> THEN 0 ELSE view[r][Len(view[r])]
      BY <2>5 DEF Reopen, Last
    <3>2. url'[r] <= Len(view[r])
      <4>1. CASE view[r] = <<>>
        BY <3>1, <4>1
      <4>2. CASE view[r] # <<>>
        <5>1. view[r] \in Seq(Nat)
          OBVIOUS
        <5>2. Len(view[r]) \in 1 .. Len(view[r])
          BY <4>2, <5>1, EmptySeq
        <5>3. url'[r] = Len(view[r])
          BY <3>1, <4>2, <5>2 DEF ViewInvAt
        <5>4. QED
          BY <5>3
      <4>3. QED
        BY <4>1, <4>2
    <3>3. wire'[r] = <<>>
      BY <2>5 DEF Reopen
    <3>4. QED
      BY <2>1, <2>2, <3>2, <3>3 DEF ViewInvAt, WireInvAt
  <2>6. QED
    BY <1>7, <2>3, <2>4, <2>5 DEF Cut
<1>8. QED
  BY <1>3, <1>4, <1>5, <1>6, <1>7 DEF Serve

(* A writer only makes the log longer; a reader's step leaves the others   *)
(* alone.                                                                  *)
LEMMA StreamStep ==
  ASSUME StreamTypeOK, LockInv, StreamInv, [Next]_vars
  PROVE  StreamInv'
<1>1. Len(log) \in Nat
  BY DEF StreamTypeOK
<1>2. CASE UNCHANGED readVars /\ (UNCHANGED log \/ \E k \in Kinds : log' = Append(log, k))
  <2>1. Len(log') \in Nat /\ Len(log) <= Len(log')
    BY <1>1, <1>2, AppendProperties DEF StreamTypeOK
  <2>2. ASSUME NEW r \in Readers
        PROVE  ViewInvAt(r)' /\ PageInvAt(r)' /\ WireInvAt(r)'
    BY <1>2, <2>1, OtherReader DEF StreamInv, readVars
  <2>3. QED
    BY <2>2 DEF StreamInv
<1>3. ASSUME NEW r \in Readers, Serve(r) \/ Cut(r) PROVE StreamInv'
  <2>1. ViewInvAt(r)' /\ PageInvAt(r)' /\ WireInvAt(r)'
    BY <1>3, OwnStep DEF StreamInv
  <2>2. ASSUME NEW q \in Readers, q # r
        PROVE  ViewInvAt(q)' /\ PageInvAt(q)' /\ WireInvAt(q)'
    <3>1. /\ conn'[q] = conn[q] /\ url'[q] = url[q] /\ last'[q] = last[q]
          /\ page'[q] = page[q] /\ wire'[q] = wire[q] /\ view'[q] = view[q]
          /\ log' = log
      BY <1>3, <2>2 DEF Serve, Cut, Connect, Fetch, Send, Deliver, Deadline,
                        Break, Reopen, Goto, StreamTypeOK, writeVars
    <3>2. QED
      BY <1>1, <3>1, OtherReader DEF StreamInv
  <2>3. QED
    BY <2>1, <2>2 DEF StreamInv
<1>4. ASSUME NEW w \in Writers, Write(w) PROVE StreamInv'
  BY <1>2, <1>4 DEF Write, Acquire, ReadMax, Insert
<1>5. CASE UNCHANGED vars
  BY <1>2, <1>5 DEF vars, writeVars
<1>6. QED
  BY <1>3, <1>4, <1>5 DEF Next

(* The inductive invariant holds in every reachable state.                 *)
LEMMA StreamInvariant == Spec => []IInv
<1>1. IInv /\ [Next]_vars => IInv'
  BY StreamTypeStep, LockStep, StreamStep DEF IInv
<1>2. QED
  BY StreamInit, <1>1, PTL DEF Spec

---------------------------------------------------------------------------
(* The columns, cursors and buffers of db.py's table and app.py's and      *)
(* playground.py's generators stay of their types.                         *)
THEOREM StreamTypes == Spec => []StreamTypeOK
  BY StreamInvariant, PTL DEF IInv

(* The seq that append() has read under the lock is still the next one     *)
(* when it inserts, so no event is refused by the primary key.             *)
THEOREM SeqsStayFree == Spec => []SeqsAreFree
  BY StreamInvariant, PTL DEF IInv, LockInv

(* Every event that arrives at a reader is new and the next one, or is     *)
(* dropped: the streams implement the feed, however often a connection     *)
(* breaks, ends or is opened again.                                        *)
THEOREM StreamsImplementFeed == Spec => ReadersFollowTheLog
<1>1. Init => Feed!Init
  BY EmptySeq DEF Init, Feed!Init
<1>2. IInv /\ [Next]_vars => [Feed!Next]_<<Len(log), view>>
  <2> SUFFICES ASSUME IInv, [Next]_vars
               PROVE  [Feed!Next]_<<Len(log), view>>
    OBVIOUS
  <2>1. StreamTypeOK /\ StreamInv
    BY DEF IInv
  <2>2. ASSUME NEW w \in Writers, Write(w)
        PROVE  [Feed!Next]_<<Len(log), view>>
    <3>1. CASE Acquire(w) \/ ReadMax(w)
      BY <3>1 DEF Acquire, ReadMax, readVars
    <3>2. CASE Insert(w)
      <4>1. Len(log') = Len(log) + 1
        BY <2>1, <3>2, AppendProperties DEF Insert, StreamTypeOK
      <4>2. QED
        BY <3>2, <4>1 DEF Insert, readVars, Feed!Next, Feed!Publish
    <3>3. QED
      BY <2>2, <3>1, <3>2 DEF Write
  <2>3. ASSUME NEW r \in Readers, Serve(r) \/ Cut(r)
        PROVE  [Feed!Next]_<<Len(log), view>>
    <3>1. CASE Deliver(r)
      <4>1. /\ log' = log /\ wire[r] # <<>> /\ view \in [Readers -> Seq(Nat)]
            /\ view' = [view EXCEPT ![r] =
                          IF Contains(view[r], Head(wire[r])) THEN view[r]
                          ELSE Append(view[r], Head(wire[r]))]
        BY <2>1, <3>1 DEF Deliver, writeVars, StreamTypeOK
      <4>2. CASE Contains(view[r], Head(wire[r]))
        BY <4>1, <4>2
      <4>3. CASE ~Contains(view[r], Head(wire[r]))
        <5>1. /\ view[r] \in Seq(Nat) /\ wire[r] \in Seq(Nat)
              /\ view'[r] = Append(view[r], Head(wire[r]))
          BY <2>1, <4>1, <4>3 DEF StreamTypeOK
        <5>2. Head(wire[r]) \in Nat
          BY <4>1, <5>1, TakeFirst
        <5>3. /\ Len(view[r]) \in Nat
              /\ Len(view'[r]) = Len(view[r]) + 1
              /\ view'[r][Len(view[r]) + 1] = Head(wire[r])
          BY <5>1, <5>2, AddLast
        <5>4. ViewInvAt(r)'
          BY <2>1, <3>1, OwnStep DEF StreamInv, Serve
        <5>5. Head(wire[r]) = Len(view[r]) + 1 /\ Len(view[r]) + 1 <= Len(log)
          BY <4>1, <5>3, <5>4 DEF ViewInvAt
        <5>6. Feed!Receive(r)
          <6>1. Len(log) \in Nat
            BY <2>1 DEF StreamTypeOK
          <6>2. view' = [view EXCEPT ![r] = Append(view[r], Head(wire[r]))]
            BY <4>1, <4>3
          <6>3. Len(view[r]) < Len(log) /\ Len(log') = Len(log)
            BY <4>1, <5>3, <5>5, <6>1
          <6>4. QED
            BY <5>5, <6>2, <6>3 DEF Feed!Receive
        <5>7. QED
          BY <5>6 DEF Feed!Next
      <4>4. QED
        BY <4>2, <4>3
    <3>2. CASE ~Deliver(r)
      BY <2>3, <3>2 DEF Serve, Cut, Connect, Fetch, Send, Deadline, Break,
                        Reopen, writeVars
    <3>3. QED
      BY <3>1, <3>2
  <2>4. CASE UNCHANGED vars
    BY <2>4 DEF vars, writeVars, readVars
  <2>5. QED
    BY <2>2, <2>3, <2>4 DEF Next
<1>3. QED
  BY StreamInvariant, <1>1, <1>2, PTL DEF Spec, ReadersFollowTheLog, Feed!Spec

---------------------------------------------------------------------------
(* A waiter that nothing happens to: the log it reads may grow behind what *)
(* it was sent.                                                            *)
LEMMA OtherWaiter ==
  ASSUME StreamTypeOK, NEW r \in Readers, WaiterInvAt(r),
         log' = log \/ \E k \in Kinds : log' = Append(log, k),
         conn'[r] = conn[r], url'[r] = url[r], last'[r] = last[r],
         wire'[r] = wire[r], view'[r] = view[r]
  PROVE  WaiterInvAt(r)'
<1>1. /\ Len(log) \in Nat /\ Len(view[r]) \in Nat /\ Len(wire[r]) \in Nat
      /\ log \in Seq(Kinds)
      /\ view \in [Readers -> Seq(Nat)] /\ wire \in [Readers -> Seq(Nat)]
  BY DEF StreamTypeOK
<1>2. SentTo(r)' = SentTo(r) /\ SentTo(r) \in Nat
  BY <1>1 DEF SentTo
<1>3. Len(log') >= Len(log) /\ \A i \in 1 .. Len(log) : log'[i] = log[i]
  <2>1. ASSUME NEW k \in Kinds, log' = Append(log, k)
        PROVE  /\ Len(log') = Len(log) + 1
               /\ \A i \in 1 .. Len(log) : log'[i] = log[i]
    BY <1>1, <2>1, AppendProperties
  <2>2. QED
    BY <1>1, <2>1
<1>4. \A i \in 1 .. SentTo(r) : log'[i] = log[i]
  BY <1>1, <1>2, <1>3 DEF WaiterInvAt
<1>5. SentTo(r) <= Len(log')
  <2>1. Len(log') \in Nat
    BY <1>1, AppendProperties
  <2>2. QED
    BY <1>1, <1>2, <1>3, <2>1 DEF WaiterInvAt
<1>6. SentTo(r) > 0 => log'[SentTo(r)] = log[SentTo(r)]
  BY <1>2, <1>4
<1>7. QED
  BY <1>2, <1>4, <1>5, <1>6 DEF WaiterInvAt

(* A waiter's own step: it is sent the next event or receives one, or its  *)
(* connection breaks, which only shortens what it was sent.                *)
LEMMA OwnWaiterStep ==
  ASSUME StreamTypeOK, NEW r \in Readers, r \in Waiters,
         ViewInvAt(r), PageInvAt(r), WireInvAt(r), WaiterInvAt(r),
         r \notin Visitors, Serve(r) \/ Cut(r)
  PROVE  WaiterInvAt(r)'
<1>1. /\ conn \in [Readers -> Points]
      /\ url \in [Readers -> Nat] /\ last \in [Readers -> Nat]
      /\ page \in [Readers -> Seq(Nat)]
      /\ wire \in [Readers -> Seq(Nat)]
      /\ view \in [Readers -> Seq(Nat)]
  BY DEF StreamTypeOK
<1>2. /\ Len(log) \in Nat /\ Len(view[r]) \in Nat
      /\ Len(page[r]) \in Nat /\ Len(wire[r]) \in Nat
      /\ view[r] \in Seq(Nat) /\ wire[r] \in Seq(Nat) /\ page[r] \in Seq(Nat)
      /\ last[r] \in Nat
  BY <1>1 DEF StreamTypeOK
<1>3. SentTo(r) \in Nat /\ SentTo(r) = Len(view[r]) + Len(wire[r])
  BY <1>1, <1>2 DEF SentTo
<1> USE DEF Goto, writeVars
<1>4. CASE Connect(r)
  <2>1. /\ wire'[r] = <<>> /\ view'[r] = <<>> /\ url'[r] = 0 /\ last'[r] = 0
        /\ log' = log /\ conn'[r] = "fetch"
    BY <1>1, <1>4 DEF Connect, WaiterInvAt
  <2>2. SentTo(r)' = 0
    BY <2>1, EmptySeq DEF SentTo
  <2>3. QED
    BY <1>2, <2>1, <2>2 DEF WaiterInvAt
<1>5. CASE Fetch(r)
  <2>1. /\ wire' = wire /\ view' = view /\ url' = url /\ last' = last
        /\ log' = log /\ conn[r] = "fetch" /\ conn'[r] = "send"
    BY <1>1, <1>5 DEF Fetch
  <2>2. SentTo(r)' = SentTo(r)
    BY <2>1 DEF SentTo
  <2>3. QED
    BY <2>1, <2>2 DEF WaiterInvAt
<1>6. CASE Send(r)
  <2> DEFINE e == Head(page[r])
  <2>1. /\ view' = view /\ url' = url /\ log' = log /\ conn[r] = "send"
        /\ wire'[r] = Append(wire[r], e) /\ last'[r] = e
        /\ log[e] = "run_finished" => conn'[r] = "ended"
        /\ log[e] # "run_finished" => conn'[r] \in {"fetch", "send"}
    BY <1>1, <1>6 DEF Send
  <2>2. page[r] # <<>>
    BY <2>1 DEF PageInvAt
  <2>3. Len(page[r]) \in Nat \ {0} /\ e = page[r][1] /\ e \in Nat
    BY <1>2, <2>2, TakeFirst
  <2>4. e = last[r] + 1 /\ e <= Len(log)
    BY <1>2, <2>3 DEF PageInvAt
  <2>5. last[r] = SentTo(r)
    BY <2>1 DEF WaiterInvAt
  <2>6. Len(wire'[r]) = Len(wire[r]) + 1
    BY <1>2, <2>1, <2>3, AddLast
  <2> HIDE DEF e
  <2>7. SentTo(r)' = e
    BY <1>1, <1>2, <1>3, <2>1, <2>4, <2>5, <2>6 DEF SentTo
  <2>8. ASSUME NEW i \in 1 .. e, log[i] = "run_finished" PROVE i = e
    <3>1. CASE i \in 1 .. SentTo(r)
      BY <2>1, <2>8, <3>1 DEF WaiterInvAt
    <3>2. CASE i \notin 1 .. SentTo(r)
      BY <1>1, <1>2, <1>3, <2>4, <2>5, <3>2
    <3>3. QED
      BY <3>1, <3>2
  <2>9. e > 0
    BY <1>1, <1>3, <2>4, <2>5
  <2>10. conn'[r] = "ended" => log[e] = "run_finished"
    BY <2>1
  <2>11. conn'[r] # "closed" /\ url'[r] = 0
    BY <2>1 DEF WaiterInvAt
  <2>12. QED
    BY <2>1, <2>4, <2>7, <2>8, <2>9, <2>10, <2>11 DEF WaiterInvAt
<1>7. CASE Deliver(r)
  <2> DEFINE e == Head(wire[r])
  <2>1. /\ wire[r] # <<>> /\ log' = log
        /\ conn' = conn /\ url' = url /\ last' = last
        /\ wire'[r] = Tail(wire[r])
        /\ view'[r] = IF Contains(view[r], e) THEN view[r]
                      ELSE Append(view[r], e)
    BY <1>1, <1>7 DEF Deliver
  <2>2. conn[r] # "closed" /\ last[r] = Len(view[r]) + Len(wire[r])
    BY <1>3, <2>1 DEF WaiterInvAt
  <2>3. e \in Nat /\ e + Len(wire[r]) = last[r] + 1 /\ e >= 1
    BY <1>2, <2>1, EndsWithoutFirst, TakeFirst DEF WireInvAt
  <2>4. e = Len(view[r]) + 1
    BY <1>1, <1>2, <2>2, <2>3
  <2>5. ~Contains(view[r], e)
    <3>1. ~(e <= Len(view[r]))
      BY <1>1, <1>2, <2>4
    <3>2. \A i \in 1 .. Len(view[r]) : view[r][i] = i
      BY DEF ViewInvAt
    <3>3. Contains(view[r], e) <=> e <= Len(view[r])
      BY <1>2, <2>3, <3>2, SeenAlready
    <3>4. QED
      BY <3>1, <3>3
  <2> HIDE DEF e
  <2>6. Len(view'[r]) = Len(view[r]) + 1 /\ Len(wire'[r]) = Len(wire[r]) - 1
    BY <1>2, <2>1, <2>3, <2>5, AddLast, TakeFirst
  <2>7. SentTo(r)' = SentTo(r)
    BY <1>1, <1>2, <1>3, <2>1, <2>6 DEF SentTo
  <2>8. QED
    BY <2>1, <2>2, <2>7 DEF WaiterInvAt
<1>8. CASE Break(r)
  <2>1. /\ view' = view /\ url' = url /\ log' = log
        /\ wire'[r] = <<>> /\ conn'[r] = "closed"
        /\ conn[r] # "ended"
    BY <1>1, <1>8 DEF Break
  <2>2. SentTo(r)' = Len(view[r])
    BY <1>2, <2>1, EmptySeq DEF SentTo
  <2>3. Len(view[r]) <= SentTo(r) /\ Len(view[r]) <= Len(log)
    BY <1>1, <1>2, <1>3 DEF ViewInvAt
  <2>4. \A i \in 1 .. Len(view[r]) : log[i] # "run_finished"
    BY <1>1, <1>2, <1>3, <2>1, <2>3 DEF WaiterInvAt
  <2>5. QED
    BY <2>1, <2>2, <2>3, <2>4 DEF WaiterInvAt
<1>9. ~Deadline(r) /\ ~Reopen(r)
  BY DEF Deadline, Reopen
<1>10. QED
  BY <1>4, <1>5, <1>6, <1>7, <1>8, <1>9 DEF Serve, Cut

(* Every step keeps what each waiter was sent within one run.              *)
LEMMA WaiterStep ==
  ASSUME StreamTypeOK, StreamInv, WaiterInv, [Next]_vars
  PROVE  WaiterInv'
<1> SUFFICES ASSUME NEW q \in Waiters PROVE WaiterInvAt(q)'
  BY DEF WaiterInv
<1>1. q \in Readers /\ q \notin Visitors /\ WaiterInvAt(q)
  BY StreamAssumption DEF Readers, WaiterInv
<1>2. CASE UNCHANGED readVars
  <2>1. log' = log \/ \E k \in Kinds : log' = Append(log, k)
    BY <1>2 DEF Next, Write, Acquire, ReadMax, Insert, Serve, Connect, Fetch,
                Send, Deliver, Cut, Deadline, Break, Reopen, vars, writeVars
  <2>2. QED
    BY <1>1, <1>2, <2>1, OtherWaiter DEF readVars
<1>3. CASE Serve(q) \/ Cut(q)
  BY <1>1, <1>3, OwnWaiterStep DEF StreamInv
<1>4. ASSUME NEW r \in Readers, r # q, Serve(r) \/ Cut(r)
      PROVE  WaiterInvAt(q)'
  <2>1. /\ conn'[q] = conn[q] /\ url'[q] = url[q] /\ last'[q] = last[q]
        /\ wire'[q] = wire[q] /\ view'[q] = view[q] /\ log' = log
    BY <1>1, <1>4 DEF Serve, Cut, Connect, Fetch, Send, Deliver, Deadline,
                      Break, Reopen, Goto, StreamTypeOK, writeVars
  <2>2. QED
    BY <1>1, <2>1, OtherWaiter
<1>5. QED
  BY <1>2, <1>3, <1>4 DEF Next, Write, Acquire, ReadMax, Insert, vars

(* A waiter (curl with until_idle=1, the smoke test) is sent one run: what *)
(* app.py's generator yields has no run_finished before its last event,    *)
(* and a stream that has ended has yielded one.                            *)
THEOREM WaitersGetOneRun == Spec => []WaiterGetsOneRun
<1>1. Init => WaiterInv
  BY EmptySeq DEF Init, WaiterInv, WaiterInvAt, SentTo, Readers
<1>2. IInv /\ WaiterInv /\ [Next]_vars => WaiterInv'
  BY WaiterStep DEF IInv
<1>3. IInv /\ WaiterInv => WaiterGetsOneRun
  <2> SUFFICES ASSUME IInv, WaiterInv, NEW r \in Waiters
               PROVE  LET sent == view[r] \o wire[r] IN
                      /\ \A i \in 1 .. Len(sent) :
                           log[sent[i]] = "run_finished" =>
                             i = Len(sent) /\ conn[r] # "fetch"
                      /\ conn[r] = "ended" =>
                           sent # <<>> /\ log[Last(sent)] = "run_finished"
    BY DEF WaiterGetsOneRun
  <2> DEFINE sent == view[r] \o wire[r]
  <2>1. r \in Readers
    BY DEF Readers
  <2>2. /\ view[r] \in Seq(Nat) /\ wire[r] \in Seq(Nat) /\ last[r] \in Nat
        /\ ViewInvAt(r) /\ WireInvAt(r) /\ WaiterInvAt(r)
    BY <2>1 DEF IInv, StreamTypeOK, StreamInv, WaiterInv
  <2>3. /\ Len(view[r]) \in Nat /\ Len(wire[r]) \in Nat
        /\ view \in [Readers -> Seq(Nat)] /\ wire \in [Readers -> Seq(Nat)]
    BY <2>1 DEF IInv, StreamTypeOK
  <2>4. Len(sent) = SentTo(r) /\ sent \in Seq(Nat)
    BY <2>2, ConcatProperties DEF SentTo
  <2>5. ASSUME NEW i \in 1 .. Len(wire[r])
        PROVE  wire[r][i] = Len(view[r]) + i
    <3>1. conn[r] # "closed"
      BY <2>2, <2>3, <2>5, EmptySeq DEF WaiterInvAt
    <3>2. last[r] = Len(view[r]) + Len(wire[r])
      BY <2>2, <3>1 DEF WaiterInvAt, SentTo
    <3>3. wire[r][i] + Len(wire[r]) = last[r] + i /\ wire[r][i] \in Nat
      BY <2>2, <2>5, <3>1, ElementOfSeq DEF WireInvAt, EndsAt
    <3>4. QED
      BY <2>1, <2>3, <3>2, <3>3
  <2>6. ASSUME NEW i \in 1 .. Len(sent) PROVE sent[i] = i
    <3>1. CASE i \in 1 .. Len(view[r])
      BY <2>2, <3>1, ConcatProperties DEF ViewInvAt
    <3>2. CASE i \notin 1 .. Len(view[r])
      <4>1. i \in Len(view[r]) + 1 .. Len(view[r]) + Len(wire[r])
        BY <2>1, <2>3, <2>4, <2>6, <3>2 DEF SentTo
      <4>2. sent[i] = wire[r][i - Len(view[r])]
        BY <2>2, <4>1, ConcatProperties
      <4>3. i - Len(view[r]) \in 1 .. Len(wire[r])
        BY <2>1, <2>3, <4>1
      <4>4. sent[i] = Len(view[r]) + (i - Len(view[r]))
        BY <2>5, <4>2, <4>3
      <4>5. QED
        BY <2>3, <4>1, <4>4
    <3>3. QED
      BY <3>1, <3>2
  <2>7. SentTo(r) \in Nat
    BY <2>1, <2>3 DEF SentTo
  <2>8. Last(sent) = sent[Len(sent)]
    BY DEF Last
  <2> HIDE DEF sent
  <2>9. \A i \in 1 .. Len(sent) :
          log[sent[i]] = "run_finished" => i = Len(sent) /\ conn[r] # "fetch"
    BY <2>2, <2>4, <2>6 DEF WaiterInvAt
  <2>10. conn[r] = "ended" =>
           sent # <<>> /\ log[Last(sent)] = "run_finished"
    <3>1. SUFFICES ASSUME conn[r] = "ended"
                   PROVE  sent # <<>> /\ log[Last(sent)] = "run_finished"
      OBVIOUS
    <3>2. SentTo(r) > 0 /\ log[SentTo(r)] = "run_finished"
      BY <2>2, <3>1 DEF WaiterInvAt
    <3>3. sent # <<>> /\ sent[Len(sent)] = SentTo(r)
      BY <2>4, <2>6, <2>7, <3>2, EmptySeq
    <3>4. QED
      BY <2>8, <3>2, <3>3
  <2>11. QED
    BY <2>9, <2>10 DEF sent
<1>4. QED
  BY StreamInvariant, <1>1, <1>2, <1>3, PTL DEF Spec

===========================================================================
