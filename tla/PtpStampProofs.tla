--------------------------- MODULE PtpStampProofs ---------------------------
(***************************************************************************)
(* Proofs about PtpStamp for every set of packets, every number of CPUs    *)
(* that send and every size of the rings.                                  *)
(***************************************************************************)
EXTENDS PtpStamp, FiniteSetTheorems, SequenceTheorems, TLAPS

-----------------------------------------------------------------------------
(* Counting a packet in a queue. *)

At(q, s) == {i \in 1 .. Len(q) : q[i] = s}

LEMMA CountType ==
    ASSUME NEW T, NEW q \in Seq(T), NEW s
    PROVE  /\ Count(q, s) = Cardinality(At(q, s)) /\ Count(q, s) \in Nat
           /\ IsFiniteSet(At(q, s))
<1>1. DOMAIN q = 1 .. Len(q) /\ Len(q) \in Nat
  OBVIOUS
<1>2. IsFiniteSet(1 .. Len(q))
  BY <1>1, FS_Interval
<1>3. IsFiniteSet(At(q, s))
  BY <1>2, FS_Subset DEF At
<1> QED BY <1>1, <1>3, FS_CardinalityType DEF Count, At

LEMMA CountAppend ==
    ASSUME NEW T, NEW q \in Seq(T), NEW x \in T, NEW s
    PROVE  Count(Append(q, x), s) = Count(q, s) + (IF x = s THEN 1 ELSE 0)
<1> DEFINE p == Append(q, x)
<1>1. p \in Seq(T) /\ Len(p) = Len(q) + 1 /\ p[Len(q) + 1] = x
      /\ \A i \in 1 .. Len(q) : p[i] = q[i]
  OBVIOUS
<1>2. Len(q) \in Nat
  OBVIOUS
<1> HIDE DEF p
<1>3. CASE x = s
  <2>1. At(p, s) = At(q, s) \cup {Len(q) + 1} /\ Len(q) + 1 \notin At(q, s)
    BY <1>1, <1>2, <1>3 DEF At
  <2>2. /\ Count(q, s) = Cardinality(At(q, s)) /\ IsFiniteSet(At(q, s))
        /\ Count(p, s) = Cardinality(At(p, s))
    BY <1>1, CountType
  <2>3. Cardinality(At(q, s) \cup {Len(q) + 1}) = Cardinality(At(q, s)) + 1
    BY <2>1, <2>2, FS_AddElement
  <2> QED BY <1>3, <2>1, <2>2, <2>3 DEF p
<1>4. CASE x # s
  <2>1. At(p, s) = At(q, s)
    BY <1>1, <1>2, <1>4 DEF At
  <2>2. /\ Count(q, s) = Cardinality(At(q, s)) /\ Count(q, s) \in Nat
        /\ Count(p, s) = Cardinality(At(p, s))
    BY <1>1, CountType
  <2> QED BY <1>4, <2>1, <2>2 DEF p
<1> QED BY <1>3, <1>4

\* A queue is what the first n are and what is left without them.
LEMMA CountSplit ==
    ASSUME NEW T, NEW q \in Seq(T), NEW n \in 0 .. Len(q), NEW s
    PROVE  Count(q, s) = Count(SubSeq(q, 1, n), s) + Count(Drop(q, n), s)
<1> DEFINE a == SubSeq(q, 1, n)
           b == Drop(q, n)
           Late == {i \in (n + 1) .. Len(q) : q[i] = s}
           shift == [j \in At(b, s) |-> j + n]
<1>0. Len(q) \in Nat /\ n \in Nat /\ n <= Len(q)
  OBVIOUS
<1>1. a \in Seq(T) /\ Len(a) = n /\ \A i \in 1 .. n : a[i] = q[i]
  BY <1>0
<1>2. b \in Seq(T) /\ Len(b) = Len(q) - n /\ \A j \in 1 .. Len(q) - n : b[j] = q[j + n]
  BY <1>0 DEF Drop
<1> HIDE DEF a, b
<1>3. At(q, s) = At(a, s) \cup Late /\ At(a, s) \cap Late = {}
  BY <1>0, <1>1 DEF At
<1>4. ExistsBijection(At(b, s), Late)
  <2>1. shift \in [At(b, s) -> Late]
    BY <1>0, <1>2 DEF At
  <2>2. \A i, j \in At(b, s) : shift[i] = shift[j] => i = j
    BY <1>0, <1>2 DEF At
  <2>3. \A i \in Late : \E j \in At(b, s) : shift[j] = i
    <3> SUFFICES ASSUME NEW i \in Late PROVE \E j \in At(b, s) : shift[j] = i
      OBVIOUS
    <3>1. i - n \in At(b, s) /\ (i - n) + n = i
      BY <1>0, <1>2 DEF At
    <3> QED BY <3>1
  <2>4. shift \in Bijection(At(b, s), Late)
    BY <2>1, <2>2, <2>3 DEF Bijection, Injection, Surjection, IsInjective
  <2> QED BY <2>4 DEF ExistsBijection
<1>5. IsFiniteSet(Late) /\ Cardinality(Late) = Count(b, s)
  <2>1. IsFiniteSet(At(b, s)) /\ Count(b, s) = Cardinality(At(b, s))
    BY <1>2, CountType
  <2> QED BY <1>4, <2>1, FS_Bijection
<1>6. Cardinality(At(q, s)) = Cardinality(At(a, s)) + Cardinality(Late)
  <2>1. IsFiniteSet(At(a, s)) /\ Cardinality(At(a, s)) \in Nat /\ Cardinality(Late) \in Nat
    BY <1>1, <1>5, CountType, FS_CardinalityType
  <2>2. Cardinality(At(a, s) \cup Late)
          = Cardinality(At(a, s)) + Cardinality(Late) - Cardinality(At(a, s) \cap Late)
    BY <1>5, <2>1, FS_Union
  <2>3. Cardinality(At(a, s) \cap Late) = 0
    BY <1>3, FS_EmptySet
  <2> QED BY <1>3, <2>1, <2>2, <2>3
<1>7. Count(q, s) = Cardinality(At(q, s)) /\ Count(a, s) = Cardinality(At(a, s))
  BY <1>1, CountType
<1> QED BY <1>5, <1>6, <1>7 DEF a, b

LEMMA CountOne ==
    ASSUME NEW x, NEW s
    PROVE  Count(<<x>>, s) = IF x = s THEN 1 ELSE 0
<1>1. <<x>> \in Seq({x}) /\ Len(<<x>>) = 1 /\ <<x>>[1] = x
  OBVIOUS
<1>2. At(<<x>>, s) = IF x = s THEN {1} ELSE {}
  BY <1>1 DEF At
<1>3. Count(<<x>>, s) = Cardinality(At(<<x>>, s))
  BY <1>1, CountType
<1> QED BY <1>2, <1>3, FS_Singleton, FS_EmptySet

LEMMA CountEmpty == ASSUME NEW s PROVE Count(<<>>, s) = 0
<1>1. At(<<>>, s) = {}
  BY DEF At
<1>2. <<>> \in Seq({s})
  OBVIOUS
<1>3. Count(<<>>, s) = Cardinality(At(<<>>, s))
  BY <1>2, CountType
<1> QED BY <1>1, <1>3, FS_EmptySet

LEMMA CountTail ==
    ASSUME NEW T, NEW q \in Seq(T), q # <<>>, NEW s
    PROVE  Count(q, s) = Count(<<Head(q)>>, s) + Count(Tail(q), s)
<1>1. Len(q) \in Nat /\ Len(q) >= 1
  OBVIOUS
<1>2. SubSeq(q, 1, 1) = <<Head(q)>>
  <2>1. SubSeq(q, 1, 1) \in Seq(T) /\ Len(SubSeq(q, 1, 1)) = 1 /\ SubSeq(q, 1, 1)[1] = q[1]
    BY <1>1
  <2>2. <<Head(q)>> \in Seq(T) /\ Len(<<Head(q)>>) = 1 /\ <<Head(q)>>[1] = q[1]
    BY <1>1
  <2>3. \A i \in 1 .. 1 : SubSeq(q, 1, 1)[i] = <<Head(q)>>[i]
    BY <2>1, <2>2
  <2> QED BY <2>1, <2>2, <2>3, SeqEqual
<1>3. Drop(q, 1) = Tail(q)
  BY <1>1, TailIsSubSeq DEF Drop
<1>4. 1 \in 0 .. Len(q)
  BY <1>1
<1>5. Count(q, s) = Count(SubSeq(q, 1, 1), s) + Count(Drop(q, 1), s)
  BY <1>4, CountSplit
<1> QED BY <1>2, <1>3, <1>5

-----------------------------------------------------------------------------
(* skb_ring as a queue. *)

Ring == /\ buff \in [0 .. Size - 1 -> Skbs \cup {NoSkb}]
        /\ head \in 0 .. Size - 1 /\ tail \in 0 .. Size - 1

\* What % is for a number less than two rounds of the ring.
LEMMA ModIs ==
    ASSUME NEW i \in Nat, i < 2 * Size
    PROVE  i % Size = IF i < Size THEN i ELSE i - Size
<1>1. Size \in Nat \ {0, 1}
  BY StampAssumption
<1>2. CASE i < Size
  BY <1>1, <1>2
<1>3. CASE i >= Size
  BY <1>1, <1>3
<1> QED BY <1>1, <1>2, <1>3

Place(i) == IF tail + i - 1 < Size THEN tail + i - 1 ELSE tail + i - 1 - Size

LEMMA NextIs ==
    ASSUME NEW i \in 0 .. Size - 1
    PROVE  Next_(i) = (IF i = Size - 1 THEN 0 ELSE i + 1) /\ Next_(i) \in 0 .. Size - 1
<1>1. Size \in Nat \ {0, 1}
  BY StampAssumption
<1>2. i + 1 \in Nat /\ i + 1 < 2 * Size
  BY <1>1
<1> QED BY <1>1, <1>2, ModIs DEF Next_

QueueOk ==
    /\ aq_ptp_skb_buf_len \in 0 .. Size - 1
    /\ Queue \in Seq(Skbs \cup {NoSkb}) /\ Len(Queue) = aq_ptp_skb_buf_len
    /\ \A i \in 1 .. aq_ptp_skb_buf_len : Queue[i] = buff[Place(i)]
    /\ Empty <=> Queue = <<>>

LEMMA QueueIs == Ring => QueueOk
<1> SUFFICES ASSUME Ring PROVE QueueOk
    OBVIOUS
<1>1. Size \in Nat \ {0, 1}
  BY StampAssumption
<1>2. aq_ptp_skb_buf_len \in 0 .. Size - 1
  BY <1>1 DEF Ring, aq_ptp_skb_buf_len
<1>3. \A i \in 1 .. aq_ptp_skb_buf_len :
        (tail + i - 1) % Size = Place(i) /\ Place(i) \in 0 .. Size - 1
  <2> SUFFICES ASSUME NEW i \in 1 .. aq_ptp_skb_buf_len
               PROVE (tail + i - 1) % Size = Place(i) /\ Place(i) \in 0 .. Size - 1
    OBVIOUS
  <2>1. tail + i - 1 \in Nat /\ tail + i - 1 < 2 * Size
    BY <1>1, <1>2 DEF Ring
  <2>2. (tail + i - 1) % Size = Place(i)
    <3>1. PICK j \in Nat : j = tail + i - 1
      BY <2>1
    <3>2. j % Size = IF j < Size THEN j ELSE j - Size
      BY <2>1, <3>1, ModIs
    <3> QED BY <1>1, <1>2, <3>1, <3>2 DEF Place, Ring
  <2>3. Place(i) \in 0 .. Size - 1
    BY <1>1, <2>1 DEF Place, Ring
  <2> QED BY <2>2, <2>3
<1>4. Queue = [i \in 1 .. aq_ptp_skb_buf_len |-> buff[Place(i)]]
  BY <1>3 DEF Queue
<1>5. \A i \in 1 .. aq_ptp_skb_buf_len : buff[Place(i)] \in Skbs \cup {NoSkb}
  BY <1>3 DEF Ring
<1>6. Queue \in Seq(Skbs \cup {NoSkb}) /\ Len(Queue) = aq_ptp_skb_buf_len
  BY <1>2, <1>4, <1>5, IsASeq
<1>7. Empty <=> aq_ptp_skb_buf_len = 0
  BY <1>1 DEF Empty, Ring, aq_ptp_skb_buf_len
<1>8. Queue = <<>> <=> Len(Queue) = 0
  BY <1>6, EmptySeq
<1> QED BY <1>2, <1>4, <1>6, <1>7, <1>8 DEF QueueOk

\* A packet that is put is the youngest.
LEMMA QueuePut ==
    ASSUME Ring, NEW s \in Skbs, ~Full, Put(s)
    PROVE  Ring' /\ Queue' = Append(Queue, s)
<1>0. QueueOk
  BY QueueIs
<1>1. Size \in Nat \ {0, 1}
  BY StampAssumption
<1>2. Ring'
  BY NextIs DEF Ring, Put
<1>9. Next_(head) = (IF head = Size - 1 THEN 0 ELSE head + 1) /\ Next_(head) \in 0 .. Size - 1
  BY NextIs DEF Ring
<1>3. aq_ptp_skb_buf_len' = aq_ptp_skb_buf_len + 1
  BY <1>1, <1>9 DEF Ring, Put, Full, aq_ptp_skb_buf_len
<1>4. /\ Queue' \in Seq(Skbs \cup {NoSkb}) /\ Len(Queue') = Len(Queue) + 1
      /\ \A i \in 1 .. Len(Queue) + 1 : Queue'[i] = buff'[Place(i)]
  <2>1. /\ Queue' \in Seq(Skbs \cup {NoSkb}) /\ Len(Queue') = aq_ptp_skb_buf_len'
        /\ \A i \in 1 .. aq_ptp_skb_buf_len' : Queue'[i] = buff'[Place(i)']
    <3>1. QueueOk'
      BY <1>2, QueueIs, PTL
    <3> QED BY <3>1 DEF QueueOk
  <2>2. \A i : Place(i)' = Place(i)
    BY DEF Place, Put
  <2> QED BY <1>3, <2>1, <2>2, <1>0 DEF QueueOk
<1>5. \A i \in 1 .. Len(Queue) : Queue'[i] = Queue[i]
  <2> SUFFICES ASSUME NEW i \in 1 .. Len(Queue) PROVE Queue'[i] = Queue[i]
    OBVIOUS
  <2>1. Place(i) # head /\ Place(i) \in 0 .. Size - 1
    BY <1>1, <1>0 DEF QueueOk, Place, Ring, aq_ptp_skb_buf_len
  <2> QED BY <1>4, <2>1, <1>0 DEF QueueOk, Put, Ring
<1>6. Queue'[Len(Queue) + 1] = s
  <2>1. Place(Len(Queue) + 1) = head
    BY <1>1, <1>0 DEF QueueOk, Place, Ring, aq_ptp_skb_buf_len
  <2> QED BY <1>4, <2>1, <1>0 DEF QueueOk, Put, Ring
<1> QED
  <2>1. /\ Append(Queue, s) \in Seq(Skbs \cup {NoSkb})
        /\ Len(Append(Queue, s)) = Len(Queue) + 1
        /\ \A i \in 1 .. Len(Queue) + 1 : Queue'[i] = Append(Queue, s)[i]
    BY <1>5, <1>6, <1>0 DEF QueueOk
  <2> QED BY <1>2, <1>4, <2>1, SeqEqual

\* A packet that is taken is the oldest.
LEMMA QueueGet ==
    ASSUME Ring, ~Empty, Get
    PROVE  Ring' /\ Queue # <<>> /\ Head(Queue) = buff[tail] /\ Queue' = Tail(Queue)
<1>0. QueueOk
  BY QueueIs
<1>1. Size \in Nat \ {0, 1}
  BY StampAssumption
<1>2. Ring'
  BY NextIs DEF Ring, Get
<1>9. Next_(tail) = (IF tail = Size - 1 THEN 0 ELSE tail + 1) /\ Next_(tail) \in 0 .. Size - 1
  BY NextIs DEF Ring
<1>3. aq_ptp_skb_buf_len' = aq_ptp_skb_buf_len - 1 /\ aq_ptp_skb_buf_len >= 1
  BY <1>1, <1>9 DEF Ring, Get, Empty, aq_ptp_skb_buf_len
<1>4. /\ Queue' \in Seq(Skbs \cup {NoSkb}) /\ Len(Queue') = aq_ptp_skb_buf_len'
      /\ \A i \in 1 .. aq_ptp_skb_buf_len' : Queue'[i] = buff'[Place(i)']
  <2>1. QueueOk'
    BY <1>2, QueueIs, PTL
  <2> QED BY <2>1 DEF QueueOk
<1>5. \A i \in 1 .. Len(Queue) - 1 : Queue'[i] = Queue[i + 1]
  <2> SUFFICES ASSUME NEW i \in 1 .. Len(Queue) - 1 PROVE Queue'[i] = Queue[i + 1]
    OBVIOUS
  <2>1. Place(i)' = Place(i + 1) /\ Place(i + 1) # tail /\ Place(i + 1) \in 0 .. Size - 1
    BY <1>1, <1>2, <1>3, <1>0, <1>9 DEF QueueOk, Place, Ring, Get, aq_ptp_skb_buf_len
  <2>2. i + 1 \in 1 .. aq_ptp_skb_buf_len /\ i \in 1 .. aq_ptp_skb_buf_len'
    BY <1>3, <1>0 DEF QueueOk
  <2> QED BY <1>4, <2>1, <2>2, <1>0 DEF QueueOk, Get, Ring
<1>6. Queue # <<>> /\ Queue[1] = buff[tail]
  <2>1. Place(1) = tail
    BY <1>1 DEF Place, Ring
  <2> QED BY <1>3, <2>1, <1>0 DEF QueueOk
<1> QED
  <2>1. /\ Tail(Queue) \in Seq(Skbs \cup {NoSkb}) /\ Len(Tail(Queue)) = Len(Queue) - 1
        /\ Head(Queue) = Queue[1]
        /\ \A i \in 1 .. Len(Queue) - 1 : Queue'[i] = Tail(Queue)[i]
    BY <1>5, <1>6, <1>0 DEF QueueOk
  <2> QED BY <1>2, <1>3, <1>4, <1>6, <2>1, <1>0, SeqEqual DEF QueueOk

LEMMA QueueSame == ASSUME UNCHANGED ring PROVE Queue' = Queue
  BY DEF ring, Queue, aq_ptp_skb_buf_len

-----------------------------------------------------------------------------
(* The inductive invariant. *)

\* The values of everything but the references, which are any number.
Types ==
    /\ IsFiniteSet(cpus)
    /\ life \in {"down", "started", "up", "no_queues", "no_service", "stopped", "gone"}
    /\ opens \in Nat /\ dpath \in BOOLEAN
    /\ stack \subseteq Skbs /\ refs \in [Skbs -> Int]
    /\ pc \in [cpus -> {"idle", "put", "start", "map"}]
    /\ skb \in [cpus -> Skbs \cup {NoSkb}]
    /\ Ring
    /\ active \in BOOLEAN /\ expired \in BOOLEAN
    /\ txq \in Seq(Skbs) /\ air \in Seq(Skbs) /\ hwts \in Seq(Skbs)
    /\ sent \in 0 .. Len(txq) /\ known \in 0 .. sent
    /\ posted \in 0 .. Size - 1 /\ Len(hwts) + posted <= Size - 1
    /\ ppc \in {"idle", "receive", "stamp", "len", "clear", "rx"}
    /\ todo \in Nat /\ spc \in {"idle", "clean"}

\* A packet is with the stack or with one CPU, and CPUs send while the device
\* is up.
SendInv ==
    /\ \A t \in cpus : /\ pc[t] = "idle" <=> skb[t] = NoSkb
                       /\ skb[t] \notin stack
                       /\ pc[t] # "idle" => life = "up"
    /\ \A t, u \in cpus : t # u /\ skb[t] = skb[u] => skb[t] = NoSkb

\* The stamps a poll still hands out are there, and a device that is stopped
\* has neither a poll nor packets whose stamps are to come.
PollInv ==
    /\ ppc = "stamp" => todo \in 1 .. Len(hwts)
    /\ ppc \in {"len", "clear"} => todo >= 1 /\ todo - 1 <= Len(hwts)
    /\ life \in {"down", "stopped", "gone"} => ppc = "idle" /\ air = <<>>

Inv == Types /\ SendInv /\ PollInv

LEMMA FreedType ==
    ASSUME refs \in [Skbs -> Int], NEW T, NEW q \in Seq(T)
    PROVE  /\ Freed(q) \in [Skbs -> Int]
           /\ \A s \in Skbs : Freed(q)[s] = refs[s] - Count(q, s)
<1>1. \A s \in Skbs : Count(q, s) \in Nat
  BY CountType
<1> QED BY <1>1 DEF Freed

LEMMA GetType == ASSUME refs \in [Skbs -> Int], Get PROVE refs' \in [Skbs -> Int]
<1>1. <<buff[tail]>> \in Seq({buff[tail]})
  OBVIOUS
<1>2. Freed(<<buff[tail]>>) \in [Skbs -> Int]
  BY <1>1, FreedType
<1> QED BY <1>2 DEF Get

LEMMA DropIs ==
    ASSUME NEW T, NEW q \in Seq(T), NEW n \in 0 .. Len(q)
    PROVE  /\ Drop(q, n) \in Seq(T) /\ Len(Drop(q, n)) = Len(q) - n
           /\ \A i \in 1 .. Len(q) - n : Drop(q, n)[i] = q[n + i]
           /\ SubSeq(q, 1, n) \in Seq(T)
  BY DEF Drop

LEMMA InitInv == Init => Inv
<1> SUFFICES ASSUME Init PROVE Inv
    OBVIOUS
<1>0. Size \in Nat \ {0, 1} /\ NoSkb \notin Skbs
  BY StampAssumption
<1>1. IsFiniteSet(cpus) /\ stack \subseteq Skbs /\ opens \in Nat
  BY SetupAssumption DEF Init
<1>2. Ring
  BY <1>0 DEF Init, Ring
<1>3. Types
  <2>1. refs \in [Skbs -> Int] /\ pc \in [cpus -> {"idle", "put", "start", "map"}]
        /\ skb \in [cpus -> Skbs \cup {NoSkb}]
    BY DEF Init
  <2>2. txq \in Seq(Skbs) /\ air \in Seq(Skbs) /\ hwts \in Seq(Skbs)
        /\ Len(txq) = 0 /\ Len(hwts) = 0
    BY EmptySeq DEF Init
  <2>3. sent \in 0 .. Len(txq) /\ known \in 0 .. sent
        /\ posted \in 0 .. Size - 1 /\ Len(hwts) + posted <= Size - 1 /\ todo \in Nat
    BY <1>0, <2>2 DEF Init
  <2> QED BY <1>1, <1>2, <2>1, <2>2, <2>3 DEF Init, Types
<1>4. SendInv
  BY <1>0, <1>1 DEF Init, SendInv
<1>5. PollInv
  BY DEF Init, PollInv
<1> QED BY <1>3, <1>4, <1>5 DEF Inv

\* What the steps of the CPUs leave alone.
LEMMA XmitStep == ASSUME Inv, NEW t \in cpus, aq_ptp_xmit(t) PROVE Inv'
<1> USE DEF Inv
<1>0. Size \in Nat \ {0, 1} /\ NoSkb \notin Skbs
  BY StampAssumption
<1>1. ASSUME NEW s \in Skbs, XmitStart(t, s) PROVE Inv'
  <2>1. refs' \in [Skbs -> Int]
    <3>1. <<s>> \in Seq({s})
      OBVIOUS
    <3>2. Freed(<<s>>) \in [Skbs -> Int]
      BY <3>1, FreedType DEF Types
    <3> QED BY <1>1, <3>2 DEF XmitStart, Types
  <2>2. Ring' /\ UNCHANGED <<setup, nic, ring, timeout, tx, ts, poll, spc>>
    BY <1>1 DEF XmitStart, Types, Ring, ring
  <2>3. Types'
    BY <1>1, <2>1, <2>2 DEF XmitStart, Goto, xmit, Types, setup, nic, timeout, tx, ts, poll
  <2>4. SendInv'
    <3>1. /\ cpus' = cpus /\ life' = "up" /\ life = "up" /\ stack' = stack \ {s}
          /\ s \in stack /\ s # NoSkb /\ pc[t] = "idle"
      BY <1>0, <1>1 DEF XmitStart, setup, nic
    <3>2. \A u \in cpus : skb[u] # s /\ (pc[u] = "idle" <=> skb[u] = NoSkb) /\ skb[u] \notin stack
      BY <3>1 DEF SendInv
    <3>3. CASE pc' = [pc EXCEPT ![t] = "put"] /\ skb' = [skb EXCEPT ![t] = s]
      <4>1. \A u \in cpus : pc'[u] = (IF u = t THEN "put" ELSE pc[u])
                          /\ skb'[u] = (IF u = t THEN s ELSE skb[u])
        BY <3>3 DEF Types
      <4> QED BY <3>1, <3>2, <4>1 DEF SendInv
    <3>4. CASE UNCHANGED xmit
      BY <3>1, <3>4 DEF SendInv, xmit
    <3> QED BY <1>1, <3>3, <3>4 DEF XmitStart, Goto
  <2>5. PollInv'
    BY <2>2 DEF PollInv, nic, ts, poll
  <2> QED BY <2>3, <2>4, <2>5
<1>2. CASE XmitPut(t)
  <2>1. skb[t] \in Skbs /\ UNCHANGED <<setup, nic, timeout, tx, ts, poll, spc>>
    BY <1>2 DEF XmitPut, Types, SendInv
  <2>2. PollInv'
    BY <2>1 DEF PollInv, nic, ts, poll
  <2>3. CASE Full
    <3>1. Ring' /\ refs' = refs
      BY <1>2, <2>3 DEF XmitPut, Types, Ring, ring
    <3>2. Types'
      BY <1>2, <2>1, <2>3, <3>1
         DEF XmitPut, Goto, Types, setup, nic, timeout, tx, ts, poll
    <3>3. SendInv'
      <4>1. /\ cpus' = cpus /\ life' = life /\ stack' = stack \cup {skb[t]}
            /\ skb[t] # NoSkb
            /\ \A u \in cpus : pc'[u] = (IF u = t THEN "idle" ELSE pc[u])
                               /\ skb'[u] = (IF u = t THEN NoSkb ELSE skb[u])
        BY <1>0, <1>2, <2>1, <2>3 DEF XmitPut, Goto, Types, setup, nic
      <4>2. NoSkb \notin stack'
        BY <1>0, <2>1, <4>1 DEF Types
      <4> QED BY <4>1, <4>2 DEF SendInv
    <3> QED BY <2>2, <3>2, <3>3
  <2>4. CASE ~Full
    <3>1. Put(skb[t])
      BY <1>2, <2>4 DEF XmitPut
    <3>2. Ring' /\ refs' \in [Skbs -> Int]
      <4>1. Ring
        BY DEF Types
      <4>2. Ring'
        BY <2>1, <2>4, <3>1, <4>1, QueuePut
      <4> QED BY <2>1, <3>1, <4>2 DEF Put, Types
    <3>3. Types'
      BY <1>2, <2>1, <2>4, <3>2
         DEF XmitPut, Goto, Types, setup, nic, timeout, tx, ts, poll
    <3>4. SendInv'
      BY <1>0, <1>2, <2>1, <2>4 DEF XmitPut, Goto, Types, SendInv, setup, nic
    <3> QED BY <2>2, <3>3, <3>4
  <2> QED BY <2>3, <2>4
<1>3. CASE aq_ptp_tx_timeout_start(t)
  <2>1. Types'
    BY <1>3 DEF aq_ptp_tx_timeout_start, Goto, Types, Ring, setup, nic, ring, tx, ts, poll
  <2>2. SendInv'
    BY <1>3 DEF aq_ptp_tx_timeout_start, Goto, Types, SendInv, setup, nic
  <2>3. PollInv'
    BY <1>3 DEF aq_ptp_tx_timeout_start, PollInv, nic, ts, poll
  <2> QED BY <2>1, <2>2, <2>3
<1>4. CASE XmitMap(t)
  <2>1. skb[t] \in Skbs
    BY <1>4 DEF XmitMap, Types, SendInv
  <2>2. Types'
    BY <1>4, <2>1 DEF XmitMap, Goto, Types, Ring, setup, nic, ring, timeout, ts, poll
  <2>3. SendInv'
    BY <1>0, <1>4 DEF XmitMap, Goto, Types, SendInv, setup, nic
  <2>4. PollInv'
    BY <1>4 DEF XmitMap, PollInv, nic, ts, poll
  <2> QED BY <2>2, <2>3, <2>4
<1>5. CASE XmitMapFails(t)
  <2>1. skb[t] \in Skbs
    BY <1>5 DEF XmitMapFails, Types, SendInv
  <2>2. Types'
    BY <1>5, <2>1 DEF XmitMapFails, Goto, Types, Ring, setup, nic, ring, timeout, tx, ts, poll
  <2>3. SendInv'
    BY <1>0, <1>5, <2>1 DEF XmitMapFails, Goto, Types, SendInv, setup, nic
  <2>4. PollInv'
    BY <1>5 DEF XmitMapFails, PollInv, nic, ts, poll
  <2> QED BY <2>2, <2>3, <2>4
<1> QED BY <1>1, <1>2, <1>3, <1>4, <1>5 DEF aq_ptp_xmit

LEMMA DeviceStep == ASSUME Inv, Device \/ TenSeconds PROVE Inv'
<1> USE DEF Inv
<1>1. CASE Transmit
  <2>1. Types'
    BY <1>1 DEF Transmit, Types, Ring, setup, nic, xmit, ring, timeout, poll
  <2>2. SendInv'
    BY <1>1 DEF Transmit, SendInv, setup, nic, xmit
  <2>3. PollInv'
    BY <1>1 DEF Transmit, Running, PollInv, nic, poll
  <2> QED BY <2>1, <2>2, <2>3
<1>2. CASE WriteStamp
  <2>1. /\ Head(air) \in Skbs /\ Tail(air) \in Seq(Skbs)
        /\ hwts' \in Seq(Skbs) /\ Len(hwts') = Len(hwts) + 1 /\ Len(hwts) \in Nat
    BY <1>2 DEF WriteStamp, Types
  <2>2. posted' \in 0 .. Size - 1 /\ Len(hwts') + posted' <= Size - 1
    BY <1>2, <2>1, StampAssumption DEF WriteStamp, Types
  <2>3. Types'
    BY <1>2, <2>1, <2>2 DEF WriteStamp, Types, Ring, setup, nic, xmit, ring, timeout, tx, poll
  <2>4. SendInv'
    BY <1>2 DEF WriteStamp, SendInv, setup, nic, xmit
  <2>5. PollInv'
    BY <1>2, <2>1 DEF WriteStamp, Running, PollInv, Types, nic, poll
  <2> QED BY <2>3, <2>4, <2>5
<1>3. CASE LoseStamp
  <2>1. Types'
    BY <1>3 DEF LoseStamp, Types, Ring, setup, nic, xmit, ring, timeout, tx, poll
  <2>2. SendInv'
    BY <1>3 DEF LoseStamp, SendInv, setup, nic, xmit
  <2>3. PollInv'
    BY <1>3 DEF LoseStamp, Running, PollInv, nic, poll
  <2> QED BY <2>1, <2>2, <2>3
<1>4. CASE TenSeconds
  <2>1. Types'
    BY <1>4 DEF TenSeconds, Types, Ring, setup, nic, xmit, ring, tx, ts, poll
  <2>2. SendInv'
    BY <1>4 DEF TenSeconds, SendInv, setup, nic, xmit
  <2>3. PollInv'
    BY <1>4 DEF TenSeconds, PollInv, nic, ts, poll
  <2> QED BY <2>1, <2>2, <2>3
<1> QED BY <1>1, <1>2, <1>3, <1>4 DEF Device

\* What aq_ring_tx_clean takes, of what it may take.
LEMMA SmallerIs ==
    ASSUME NEW n \in Nat
    PROVE  Smaller(n, TxBudget) \in 0 .. n
  BY StampAssumption DEF Smaller

\* aq_ring_tx_clean takes n packets of ptp_tx.
LEMMA CleanTypes ==
    ASSUME refs \in [Skbs -> Int], txq \in Seq(Skbs), sent \in 0 .. Len(txq),
           NEW n \in 0 .. sent
    PROVE  /\ Drop(txq, n) \in Seq(Skbs) /\ sent - n \in 0 .. Len(Drop(txq, n))
           /\ SubSeq(txq, 1, n) \in Seq(Skbs)
           /\ Freed(SubSeq(txq, 1, n)) \in [Skbs -> Int]
<1>1. Len(txq) \in Nat /\ n \in 0 .. Len(txq)
  OBVIOUS
<1>2. /\ Drop(txq, n) \in Seq(Skbs) /\ Len(Drop(txq, n)) = Len(txq) - n
      /\ SubSeq(txq, 1, n) \in Seq(Skbs)
  BY <1>1, DropIs
<1>3. Freed(SubSeq(txq, 1, n)) \in [Skbs -> Int]
  BY <1>2, FreedType
<1>4. sent - n \in 0 .. Len(txq) - n
  BY <1>1
<1> QED BY <1>2, <1>3, <1>4

\* Handing out one of the stamps.
LEMMA HandedTypes ==
    ASSUME NEW h \in Seq(Skbs), Len(h) <= Size - 1, todo \in Nat, todo >= 1,
           todo - 1 <= Len(h), posted \in 0 .. Size - 1, Len(h) + posted <= Size - 1,
           Handed(h)
    PROVE  /\ ppc' \in {"stamp", "rx"} /\ todo' \in Nat
           /\ posted' \in 0 .. Size - 1 /\ Len(h) + posted' <= Size - 1
           /\ ppc' = "stamp" => todo' \in 1 .. Len(h)
<1>1. Len(h) \in Nat /\ Size \in Nat
  BY StampAssumption
<1> QED BY <1>1 DEF Handed

LEMMA PollStep == ASSUME Inv, aq_ptp_poll PROVE Inv'
<1> USE DEF Inv
<1>0. Size \in Nat \ {0, 1} /\ Len(hwts) \in Nat
  BY StampAssumption DEF Types
<1>1. CASE PollTx
  <2> DEFINE n == Smaller(sent, TxBudget)
  <2>1. n \in 0 .. sent
    BY SmallerIs DEF Types
  <2>2. /\ Drop(txq, n) \in Seq(Skbs) /\ sent - n \in 0 .. Len(Drop(txq, n))
        /\ Freed(SubSeq(txq, 1, n)) \in [Skbs -> Int]
    BY <2>1, CleanTypes DEF Types
  <2>3. /\ txq' = Drop(txq, n) /\ sent' = sent - n /\ known' = sent - n
        /\ refs' = Freed(SubSeq(txq, 1, n))
        /\ UNCHANGED <<setup, nic, stack, xmit, ring, timeout, ts, todo, spc>>
        /\ ppc' = "receive" /\ Running
    BY <1>1 DEF PollTx
  <2> HIDE DEF n
  <2>4. Types'
    BY <2>1, <2>2, <2>3 DEF Types, Ring, setup, nic, xmit, ring, timeout, ts
  <2>5. SendInv'
    BY <2>3 DEF SendInv, setup, nic, xmit
  <2>6. PollInv'
    BY <2>3 DEF PollInv, Running, nic, ts
  <2> QED BY <2>4, <2>5, <2>6
<1>2. CASE PollReceive
  <2>1. Types'
    BY <1>0, <1>2 DEF PollReceive, Types, Ring, setup, nic, xmit, ring, timeout, tx, ts
  <2>2. SendInv'
    BY <1>2 DEF PollReceive, SendInv, setup, nic, xmit
  <2>3. PollInv'
    <3>1. hwts # <<>> => Len(hwts) >= 1
      BY <1>0 DEF Types
    <3> QED BY <1>0, <1>2, <3>1 DEF PollReceive, PollInv, nic, ts
  <2> QED BY <2>1, <2>2, <2>3
<1>3. CASE PollStamp
  <2>1. /\ UNCHANGED <<setup, nic, stack, xmit, timeout, tx, air, spc>>
        /\ hwts' = Tail(hwts) /\ ppc = "stamp" /\ todo \in 1 .. Len(hwts)
        /\ ~(life \in {"down", "stopped", "gone"})
    BY <1>3 DEF PollStamp, PollInv
  <2>2. hwts' \in Seq(Skbs) /\ Len(hwts') = Len(hwts) - 1 /\ Len(hwts') \in Nat
    BY <1>0, <2>1 DEF Types
  <2>3. /\ ppc' \in {"stamp", "rx", "len"} /\ todo' \in Nat
        /\ posted' \in 0 .. Size - 1 /\ Len(hwts') + posted' <= Size - 1
        /\ ppc' = "stamp" => todo' \in 1 .. Len(hwts')
        /\ ppc' = "len" => todo' >= 1 /\ todo' - 1 <= Len(hwts')
        /\ Ring' /\ refs' \in [Skbs -> Int]
    <3>0. /\ Len(hwts') <= Size - 1 /\ todo \in Nat /\ todo >= 1 /\ todo - 1 <= Len(hwts')
          /\ posted \in 0 .. Size - 1 /\ Len(hwts') + posted <= Size - 1
      BY <1>0, <2>1, <2>2 DEF Types
    <3>1. CASE Empty
      <4>1. Handed(hwts') /\ UNCHANGED <<ring, refs>>
        BY <1>3, <3>1 DEF PollStamp
      <4>2. /\ ppc' \in {"stamp", "rx"} /\ todo' \in Nat
            /\ posted' \in 0 .. Size - 1 /\ Len(hwts') + posted' <= Size - 1
            /\ ppc' = "stamp" => todo' \in 1 .. Len(hwts')
        BY <1>0, <2>2, <3>0, <4>1 DEF Handed
      <4> QED BY <4>1, <4>2 DEF Types, Ring, ring
    <3>2. CASE ~Empty
      <4>1. Get /\ ppc' = "len" /\ UNCHANGED <<todo, posted>>
        BY <1>3, <3>2 DEF PollStamp
      <4>2. Ring /\ refs \in [Skbs -> Int]
        BY DEF Types
      <4>3. Ring' /\ refs' \in [Skbs -> Int]
        BY <3>2, <4>1, <4>2, QueueGet, GetType
      <4> QED BY <3>0, <4>1, <4>3
    <3> QED BY <3>1, <3>2
  <2>4. Types'
    BY <2>1, <2>2, <2>3 DEF Types, setup, nic, xmit, timeout, tx
  <2>5. SendInv'
    BY <2>1 DEF SendInv, setup, nic, xmit
  <2>6. PollInv'
    BY <2>1, <2>3 DEF PollInv, nic
  <2> QED BY <2>4, <2>5, <2>6
<1>4. ASSUME ppc \in {"len", "clear"}, Handed(hwts), active' \in BOOLEAN,
             UNCHANGED <<setup, nic, stack, refs, xmit, ring, expired, tx, air, hwts, spc>>
      PROVE  Inv'
  <2>1. /\ hwts \in Seq(Skbs) /\ Len(hwts) <= Size - 1 /\ todo \in Nat /\ todo >= 1
        /\ todo - 1 <= Len(hwts) /\ posted \in 0 .. Size - 1 /\ Len(hwts) + posted <= Size - 1
        /\ ~(life \in {"down", "stopped", "gone"})
    BY <1>0, <1>4 DEF Types, PollInv
  <2>2. /\ ppc' \in {"stamp", "rx"} /\ todo' \in Nat
        /\ posted' \in 0 .. Size - 1 /\ Len(hwts) + posted' <= Size - 1
        /\ ppc' = "stamp" => todo' \in 1 .. Len(hwts)
    BY <1>4, <2>1, HandedTypes
  <2>3. Types'
    BY <1>4, <2>2 DEF Types, Ring, setup, nic, xmit, ring, tx
  <2>4. SendInv'
    BY <1>4 DEF SendInv, setup, nic, xmit
  <2>5. PollInv'
    BY <1>4, <2>1, <2>2 DEF PollInv, nic
  <2> QED BY <2>3, <2>4, <2>5
<1>5. CASE PollLen
  <2>1. CASE aq_ptp_skb_buf_len = 0
    <3>1. Types'
      BY <1>5, <2>1 DEF PollLen, Types, Ring, setup, nic, xmit, ring, timeout, tx
    <3>2. SendInv'
      BY <1>5 DEF PollLen, SendInv, setup, nic, xmit
    <3>3. PollInv'
      BY <1>5, <2>1 DEF PollLen, PollInv, nic
    <3> QED BY <3>1, <3>2, <3>3
  <2>2. CASE aq_ptp_skb_buf_len # 0
    <3>1. active' \in BOOLEAN
      BY <1>5 DEF PollLen, Types, timeout
    <3> QED BY <1>4, <1>5, <2>2, <3>1 DEF PollLen, timeout
  <2> QED BY <2>1, <2>2
<1>6. CASE PollClear
  BY <1>4, <1>6 DEF PollClear
<1>7. CASE PollRx
  <2>1. Types'
    BY <1>7 DEF PollRx, Types, Ring, setup, nic, xmit, ring, timeout, tx, ts
  <2>2. SendInv'
    BY <1>7 DEF PollRx, SendInv, setup, nic, xmit
  <2>3. PollInv'
    BY <1>7 DEF PollRx, PollInv, nic, ts
  <2> QED BY <2>1, <2>2, <2>3
<1> QED BY <1>1, <1>2, <1>3, <1>5, <1>6, <1>7 DEF aq_ptp_poll

LEMMA ServiceStep ==
    ASSUME Inv, aq_ptp_tx_timeout_check \/ aq_ptp_skb_ring_clean PROVE Inv'
<1> USE DEF Inv
<1>1. CASE aq_ptp_tx_timeout_check
  <2>1. Types'
    BY <1>1 DEF aq_ptp_tx_timeout_check, Types, Ring, setup, nic, xmit, ring, tx, ts, poll
  <2>2. SendInv'
    BY <1>1 DEF aq_ptp_tx_timeout_check, SendInv, setup, nic, xmit
  <2>3. PollInv'
    BY <1>1 DEF aq_ptp_tx_timeout_check, PollInv, nic, ts, poll
  <2> QED BY <2>1, <2>2, <2>3
<1>2. CASE aq_ptp_skb_ring_clean
  <2>1. spc' \in {"idle", "clean"} /\ UNCHANGED <<setup, nic, stack, xmit, timeout, tx, ts, poll>>
    BY <1>2 DEF aq_ptp_skb_ring_clean
  <2>2. Ring' /\ refs' \in [Skbs -> Int]
    <3>1. CASE Empty
      BY <1>2, <3>1 DEF aq_ptp_skb_ring_clean, Types, Ring, ring
    <3>2. CASE ~Empty
      <4>1. Ring /\ refs \in [Skbs -> Int] /\ Get
        BY <1>2, <3>2 DEF Types, aq_ptp_skb_ring_clean
      <4> QED BY <3>2, <4>1, QueueGet, GetType
    <3> QED BY <3>1, <3>2
  <2>3. Types'
    BY <2>1, <2>2 DEF Types, setup, nic, xmit, timeout, tx, ts, poll
  <2>4. SendInv'
    BY <2>1 DEF SendInv, setup, nic, xmit
  <2>5. PollInv'
    BY <2>1 DEF PollInv, nic, ts, poll
  <2> QED BY <2>3, <2>4, <2>5
<1> QED BY <1>1, <1>2

LEMMA RtnlStep == ASSUME Inv, Rtnl PROVE Inv'
<1> USE DEF Inv
<1>0. Size \in Nat \ {0, 1}
  BY StampAssumption
<1>1. CASE aq_ptp_hwtstamp_config_set
  <2>1. Types'
    BY <1>1 DEF aq_ptp_hwtstamp_config_set, Types, Ring, setup, xmit, ring, timeout, tx, ts, poll
  <2>2. SendInv'
    BY <1>1 DEF aq_ptp_hwtstamp_config_set, SendInv, setup, xmit
  <2>3. PollInv'
    BY <1>1 DEF aq_ptp_hwtstamp_config_set, PollInv, ts, poll
  <2> QED BY <2>1, <2>2, <2>3
<1>2. CASE RingOpen
  <2>1. /\ Ring' /\ txq' \in Seq(Skbs) /\ air' \in Seq(Skbs) /\ hwts' \in Seq(Skbs)
        /\ Len(txq') = 0 /\ Len(hwts') = 0 /\ sent' = 0 /\ known' = 0 /\ posted' = Size - 1
    BY <1>0, <1>2, EmptySeq DEF RingOpen, aq_ptp_ring_alloc, aq_ptp_ring_init, Ring
  <2>2. opens' \in Nat /\ life = "down" /\ life' = "started"
        /\ UNCHANGED <<setup, dpath, stack, refs, xmit, timeout, poll, spc>>
    BY <1>2 DEF RingOpen, Types
  <2>3. /\ sent' \in 0 .. Len(txq') /\ known' \in 0 .. sent'
        /\ posted' \in 0 .. Size - 1 /\ Len(hwts') + posted' <= Size - 1
    BY <1>0, <2>1
  <2>4. Types'
    BY <2>1, <2>2, <2>3 DEF Types, setup, xmit, timeout, poll
  <2>5. SendInv'
    BY <2>2 DEF SendInv, setup, xmit
  <2>6. PollInv'
    BY <2>2 DEF PollInv, poll
  <2> QED BY <2>4, <2>5, <2>6
<1>3. ASSUME UNCHANGED <<setup, opens, dpath, stack, refs, xmit, ring, timeout, tx, ts, poll, spc>>,
             \/ StartQueues
             \/ life = "up" /\ (\A t \in cpus : pc[t] = "idle") /\ life' = "no_queues"
             \/ life = "no_queues" /\ life' = "no_service"
      PROVE  Inv'
  <2>1. Types'
    BY <1>3 DEF StartQueues, Types, Ring, setup, xmit, ring, timeout, tx, ts, poll
  <2>2. SendInv'
    BY <1>3 DEF StartQueues, SendInv, setup, xmit
  <2>3. PollInv'
    BY <1>3 DEF StartQueues, PollInv, ts, poll
  <2> QED BY <2>1, <2>2, <2>3
<1>4. CASE StartQueues
  BY <1>3, <1>4 DEF StartQueues
<1>5. CASE StopQueues
  BY <1>3, <1>5 DEF StopQueues
<1>6. CASE CancelService
  BY <1>3, <1>6 DEF CancelService
<1>7. CASE aq_ptp_ring_stop
  <2>1. Types'
    BY <1>7 DEF aq_ptp_ring_stop, Types, Ring, setup, xmit, ring, timeout, tx, poll
  <2>2. SendInv'
    BY <1>7 DEF aq_ptp_ring_stop, SendInv, setup, xmit
  <2>3. PollInv'
    BY <1>7 DEF aq_ptp_ring_stop, PollInv, poll
  <2> QED BY <2>1, <2>2, <2>3
<1>8. CASE aq_ptp_ring_deinit
  <2> DEFINE n == Smaller(known, TxBudget)
  <2>1. n \in 0 .. known /\ n \in 0 .. sent
    <3>1. known \in Nat /\ sent \in Nat /\ known <= sent
      BY DEF Types
    <3>2. n \in 0 .. known
      BY <3>1, SmallerIs
    <3> QED BY <3>1, <3>2
  <2>2. /\ Drop(txq, n) \in Seq(Skbs) /\ sent - n \in 0 .. Len(Drop(txq, n))
        /\ Freed(SubSeq(txq, 1, n)) \in [Skbs -> Int]
    BY <2>1, CleanTypes DEF Types
  <2>3. /\ txq' = Drop(txq, n) /\ sent' = sent - n /\ known' = known - n
        /\ refs' = Freed(SubSeq(txq, 1, n)) /\ life = "stopped" /\ life' = "down"
        /\ UNCHANGED <<setup, opens, dpath, stack, xmit, ring, timeout, ts, poll, spc>>
    BY <1>8 DEF aq_ptp_ring_deinit
  <2> HIDE DEF n
  <2>4. known' \in 0 .. sent'
    BY <2>1, <2>3 DEF Types
  <2>5. Types'
    BY <2>2, <2>3, <2>4 DEF Types, Ring, setup, xmit, ring, timeout, ts, poll
  <2>6. SendInv'
    BY <2>3 DEF SendInv, setup, xmit
  <2>7. PollInv'
    BY <2>3 DEF PollInv, ts, poll
  <2> QED BY <2>5, <2>6, <2>7
<1>9. CASE aq_ptp_ring_free
  <2>1. /\ life = "down" /\ life' = "gone" /\ dpath' = FALSE /\ refs' = Freed(Queue)
        /\ tail' = head /\ buff' = [i \in 0 .. Size - 1 |-> NoSkb]
        /\ txq' = <<>> /\ sent' = 0 /\ known' = 0 /\ hwts' = <<>>
        /\ UNCHANGED <<setup, opens, stack, xmit, head, timeout, air, posted, poll, spc>>
    BY <1>9 DEF aq_ptp_ring_free
  <2>2. Ring' /\ refs' \in [Skbs -> Int]
    <3>1. Queue \in Seq(Skbs \cup {NoSkb})
      BY QueueIs DEF QueueOk, Types
    <3>2. Freed(Queue) \in [Skbs -> Int]
      BY <3>1, FreedType DEF Types
    <3> QED BY <2>1, <3>2 DEF Types, Ring
  <2>3. /\ txq' \in Seq(Skbs) /\ hwts' \in Seq(Skbs) /\ Len(txq') = 0 /\ Len(hwts') = 0
    BY <2>1, EmptySeq
  <2>4. /\ sent' \in 0 .. Len(txq') /\ known' \in 0 .. sent'
        /\ posted' \in 0 .. Size - 1 /\ Len(hwts') + posted' <= Size - 1
    BY <1>0, <2>1, <2>3 DEF Types
  <2>5. Types'
    BY <2>1, <2>2, <2>3, <2>4 DEF Types, setup, xmit, timeout, poll
  <2>6. SendInv'
    BY <2>1 DEF SendInv, setup, xmit
  <2>7. PollInv'
    BY <2>1 DEF PollInv, poll
  <2> QED BY <2>5, <2>6, <2>7
<1> QED BY <1>1, <1>2, <1>4, <1>5, <1>6, <1>7, <1>8, <1>9 DEF Rtnl

LEMMA NextStep == ASSUME Inv, [Next]_vars PROVE Inv'
<1>1. CASE UNCHANGED vars
  <2>1. Types'
    BY <1>1 DEF vars, setup, nic, xmit, ring, timeout, tx, ts, poll, Inv, Types, Ring
  <2>2. SendInv'
    BY <1>1 DEF vars, setup, nic, xmit, Inv, SendInv
  <2>3. PollInv'
    BY <1>1 DEF vars, nic, ts, poll, Inv, PollInv
  <2> QED BY <2>1, <2>2, <2>3 DEF Inv
<1> QED BY <1>1, XmitStep, DeviceStep, PollStep, ServiceStep, RtnlStep DEF Next

LEMMA Invariance == Spec => []Inv
<1>1. Inv /\ [Next]_vars => Inv'
  BY NextStep
<1> QED BY <1>1, InitInv, PTL DEF Spec

-----------------------------------------------------------------------------
(* References and the places that will free them. *)

Cpus(s) == {t \in cpus : skb[t] = s}
Same(x, s) == IF x = s THEN 1 ELSE 0
OnStack(s) == IF s \in stack THEN 1 ELSE 0
Kept(s) == refs'[s] - Holders(s)' = refs[s] - Holders(s)

LEMMA HoldersIs ==
    ASSUME Inv, NEW s \in Skbs
    PROVE  /\ Holders(s) = Count(txq, s) + Count(Queue, s) + OnStack(s)
                              + Cardinality(Cpus(s))
           /\ Count(txq, s) \in Nat /\ Count(Queue, s) \in Nat
           /\ IsFiniteSet(Cpus(s)) /\ Cardinality(Cpus(s)) \in Nat
           /\ Holders(s) \in Nat /\ refs[s] \in Int
<1>1. Queue \in Seq(Skbs \cup {NoSkb}) /\ txq \in Seq(Skbs)
  BY QueueIs DEF QueueOk, Inv, Types
<1>2. Count(txq, s) \in Nat
  BY <1>1, CountType
<1>3. Count(Queue, s) \in Nat
  BY <1>1, CountType
<1>4. IsFiniteSet(Cpus(s))
  BY FS_Subset DEF Inv, Types, Cpus
<1>5. Cardinality(Cpus(s)) \in Nat
  BY <1>4, FS_CardinalityType
<1>6. Holders(s) = Count(txq, s) + Count(Queue, s) + OnStack(s) + Cardinality(Cpus(s))
  BY DEF Holders, Cpus, Same, OnStack
<1>7. Holders(s) \in Nat
  BY <1>2, <1>3, <1>5, <1>6 DEF Same, OnStack
<1>8. refs[s] \in Int
  BY DEF Inv, Types
<1> QED BY <1>2, <1>3, <1>4, <1>5, <1>6, <1>7, <1>8

HoldersOk ==
    \A s \in Skbs :
        /\ Holders(s) = Count(txq, s) + Count(Queue, s) + OnStack(s)
                           + Cardinality(Cpus(s))
        /\ Count(txq, s) \in Nat /\ Count(Queue, s) \in Nat
        /\ Cardinality(Cpus(s)) \in Nat /\ refs[s] \in Int

\* The packet of one CPU is another one.
LEMMA CpuMoves ==
    ASSUME Inv, NEW s \in Skbs, NEW t \in cpus, NEW x,
           cpus' = cpus, skb' = [skb EXCEPT ![t] = x]
    PROVE  Cardinality(Cpus(s)') = Cardinality(Cpus(s)) - Same(skb[t], s) + Same(x, s)
<1> DEFINE A == Cpus(s)
           B == Cpus(s)'
<1>1. IsFiniteSet(A) /\ Cardinality(A) \in Nat
  BY HoldersIs
<1>2. \A u \in cpus : skb'[u] = IF u = t THEN x ELSE skb[u]
  BY DEF Inv, Types
<1>3. B = IF x = s THEN (A \ {t}) \cup {t} ELSE A \ {t}
  BY <1>2 DEF Cpus
<1>4. t \in A <=> skb[t] = s
  BY DEF Cpus
<1> HIDE DEF A, B
<1>5. IsFiniteSet(A \ {t}) /\ Cardinality(A \ {t}) = Cardinality(A) - Same(skb[t], s)
  BY <1>1, <1>4, FS_RemoveElement DEF Same, OnStack
<1>6. Cardinality((A \ {t}) \cup {t}) = Cardinality(A \ {t}) + 1
  BY <1>5, FS_AddElement
<1>7. Cardinality(A \ {t}) \in Nat
  BY <1>5, FS_CardinalityType
<1>8. CASE x = s
  <2>1. Cardinality(B) = Cardinality(A \ {t}) + 1
    BY <1>3, <1>6, <1>8
  <2> QED BY <1>5, <1>8, <2>1 DEF A, B, Same, OnStack
<1>9. CASE x # s
  <2>1. Cardinality(B) = Cardinality(A \ {t})
    BY <1>3, <1>9
  <2> QED BY <1>1, <1>5, <1>7, <1>9, <2>1 DEF A, B, Same, OnStack
<1> QED BY <1>8, <1>9

LEMMA HoldersHold == Inv => HoldersOk
  BY HoldersIs DEF HoldersOk

\* What a step leaves in the other places.
LEMMA HoldersNext ==
    ASSUME Inv, Inv', NEW s \in Skbs
    PROVE  /\ Holders(s)' = Count(txq', s) + Count(Queue', s) + OnStack(s)'
                               + Cardinality(Cpus(s)')
           /\ Count(txq', s) \in Nat /\ Count(Queue', s) \in Nat
           /\ Cardinality(Cpus(s)') \in Nat /\ refs'[s] \in Int
<1>1. HoldersOk'
  BY HoldersHold, PTL
<1> QED BY <1>1 DEF HoldersOk

\* The stack, the CPUs and the rings keep what they hold.
LEMMA KeptSame ==
    ASSUME Inv, NEW s \in Skbs, UNCHANGED <<cpus, stack, refs, skb, ring, txq>>
    PROVE  Kept(s)
<1>1. Queue' = Queue
  BY QueueSame
<1> QED BY <1>1 DEF Kept, Holders

\* aq_ring_tx_clean frees the packets that it takes out of ptp_tx.
LEMMA KeptClean ==
    ASSUME Inv, Inv', NEW s \in Skbs, NEW n \in 0 .. sent,
           UNCHANGED <<cpus, stack, skb, ring>>,
           txq' = Drop(txq, n), refs' = Freed(SubSeq(txq, 1, n))
    PROVE  Kept(s)
<1>0. txq \in Seq(Skbs) /\ refs \in [Skbs -> Int] /\ sent \in 0 .. Len(txq)
  BY DEF Inv, Types
<1>1. n \in 0 .. Len(txq)
  <2>1. Len(txq) \in Nat
    BY <1>0
  <2> QED BY <1>0, <2>1
<1>2. SubSeq(txq, 1, n) \in Seq(Skbs)
  BY <1>0, <1>1, DropIs
<1>3. refs'[s] = refs[s] - Count(SubSeq(txq, 1, n), s) /\ Count(SubSeq(txq, 1, n), s) \in Nat
  BY <1>0, <1>2, FreedType, CountType
<1>4. Count(txq, s) = Count(SubSeq(txq, 1, n), s) + Count(txq', s)
  BY <1>0, <1>1, CountSplit
<1>5. Queue' = Queue /\ Cpus(s)' = Cpus(s) /\ stack' = stack
  BY QueueSame DEF Cpus
<1>8. /\ Holders(s) = Count(txq, s) + Count(Queue, s) + OnStack(s) + Cardinality(Cpus(s))
      /\ Count(txq, s) \in Nat /\ Count(Queue, s) \in Nat /\ Cardinality(Cpus(s)) \in Nat
      /\ refs[s] \in Int
  BY HoldersIs
<1>9. /\ Holders(s)' = Count(txq', s) + Count(Queue', s) + OnStack(s)' + Cardinality(Cpus(s)')
      /\ Count(txq', s) \in Nat /\ Count(Queue', s) \in Nat /\ Cardinality(Cpus(s)') \in Nat
  BY HoldersNext
<1> QED BY <1>3, <1>4, <1>5, <1>8, <1>9 DEF Kept, Same, OnStack

\* __aq_ptp_skb_get takes the packet out of skb_ring that its caller frees.
LEMMA KeptGet ==
    ASSUME Inv, Inv', NEW s \in Skbs, UNCHANGED <<cpus, stack, skb, txq>>, ~Empty, Get
    PROVE  Kept(s)
<1>1. Ring /\ refs \in [Skbs -> Int] /\ Queue \in Seq(Skbs \cup {NoSkb})
  BY QueueIs DEF QueueOk, Inv, Types
<1>2. Queue # <<>> /\ Head(Queue) = buff[tail] /\ Queue' = Tail(Queue)
  BY <1>1, QueueGet
<1>3. Count(Queue, s) = Count(<<buff[tail]>>, s) + Count(Queue', s)
  BY <1>1, <1>2, CountTail
<1>4. <<buff[tail]>> \in Seq({buff[tail]})
  OBVIOUS
<1>5. Freed(<<buff[tail]>>)[s] = refs[s] - Count(<<buff[tail]>>, s)
      /\ Count(<<buff[tail]>>, s) \in Nat
  BY <1>1, <1>4, FreedType, CountType
<1>6. refs' = Freed(<<buff[tail]>>)
  BY DEF Get
<1>7. Cpus(s)' = Cpus(s) /\ stack' = stack /\ txq' = txq
  BY DEF Cpus
<1>8. /\ Holders(s) = Count(txq, s) + Count(Queue, s) + OnStack(s) + Cardinality(Cpus(s))
      /\ Count(txq, s) \in Nat /\ Count(Queue, s) \in Nat /\ Cardinality(Cpus(s)) \in Nat
      /\ refs[s] \in Int
  BY HoldersIs
<1>9. /\ Holders(s)' = Count(txq', s) + Count(Queue', s) + OnStack(s)' + Cardinality(Cpus(s)')
      /\ Count(txq', s) \in Nat /\ Count(Queue', s) \in Nat /\ Cardinality(Cpus(s)') \in Nat
  BY HoldersNext
<1> QED BY <1>3, <1>5, <1>6, <1>7, <1>8, <1>9 DEF Kept, Same, OnStack

\* A packet goes from the stack to a CPU, into skb_ring with a reference of
\* its own, into ptp_tx or back to the stack.
LEMMA KeptXmit ==
    ASSUME Inv, Inv', NEW s \in Skbs, NEW t \in cpus, aq_ptp_xmit(t)
    PROVE  Kept(s)
<1>0. NoSkb \notin Skbs /\ refs \in [Skbs -> Int] /\ stack \subseteq Skbs
  BY StampAssumption DEF Inv, Types
<1>1. ASSUME NEW x \in Skbs, XmitStart(t, x) PROVE Kept(s)
  <2>1. /\ x \in stack /\ stack' = stack \ {x} /\ pc[t] = "idle"
        /\ UNCHANGED <<cpus, ring, txq>>
    BY <1>1 DEF XmitStart, setup, tx
  <2>2. Queue' = Queue
    BY <2>1, QueueSame
  <2>3. OnStack(s) = OnStack(s)' + Same(x, s)
    BY <2>1 DEF Same, OnStack
  <2>4. CASE skb' = [skb EXCEPT ![t] = x] /\ refs' = refs
    <3>1. skb[t] = NoSkb
      BY <2>1 DEF Inv, SendInv
    <3>2. Cardinality(Cpus(s)') = Cardinality(Cpus(s)) - Same(skb[t], s) + Same(x, s)
      <4>1. cpus' = cpus /\ skb' = [skb EXCEPT ![t] = x]
        BY <2>1, <2>4
      <4> QED BY <4>1, CpuMoves
    <3>3. Cardinality(Cpus(s)') = Cardinality(Cpus(s)) + Same(x, s)
      BY <1>0, <3>1, <3>2, HoldersIs DEF Same, OnStack
    <3>8. /\ Holders(s) = Count(txq, s) + Count(Queue, s) + OnStack(s) + Cardinality(Cpus(s))
          /\ Count(txq, s) \in Nat /\ Count(Queue, s) \in Nat /\ Cardinality(Cpus(s)) \in Nat
          /\ refs[s] \in Int
      BY HoldersIs
    <3>9. /\ Holders(s)' = Count(txq', s) + Count(Queue', s) + OnStack(s)' + Cardinality(Cpus(s)')
          /\ Count(txq', s) \in Nat /\ Count(Queue', s) \in Nat /\ Cardinality(Cpus(s)') \in Nat
      BY HoldersNext
    <3> QED BY <2>1, <2>2, <2>3, <2>4, <3>3, <3>8, <3>9 DEF Kept, Same, OnStack
  <2>5. CASE refs' = Freed(<<x>>) /\ UNCHANGED xmit
    <3>1. <<x>> \in Seq({x})
      OBVIOUS
    <3>2. refs'[s] = refs[s] - Count(<<x>>, s)
      BY <1>0, <2>5, <3>1, FreedType
    <3>3. refs'[s] = refs[s] - Same(x, s)
      BY <3>2, CountOne DEF Same, OnStack
    <3>4. Cpus(s)' = Cpus(s)
      BY <2>1, <2>5 DEF Cpus, xmit
    <3>8. /\ Holders(s) = Count(txq, s) + Count(Queue, s) + OnStack(s) + Cardinality(Cpus(s))
          /\ Count(txq, s) \in Nat /\ Count(Queue, s) \in Nat /\ Cardinality(Cpus(s)) \in Nat
          /\ refs[s] \in Int
      BY HoldersIs
    <3>9. /\ Holders(s)' = Count(txq', s) + Count(Queue', s) + OnStack(s)' + Cardinality(Cpus(s)')
          /\ Count(txq', s) \in Nat /\ Count(Queue', s) \in Nat /\ Cardinality(Cpus(s)') \in Nat
      BY HoldersNext
    <3> QED BY <2>1, <2>2, <2>3, <3>3, <3>4, <3>8, <3>9 DEF Kept, Same, OnStack
  <2> QED BY <1>1, <2>4, <2>5 DEF XmitStart
<1>2. ASSUME pc[t] # "idle"
      PROVE  skb[t] \in Skbs /\ skb[t] \notin stack
  BY <1>2 DEF Inv, Types, SendInv
\* The packet goes back to the stack.
<1>3. ASSUME pc[t] # "idle", skb' = [skb EXCEPT ![t] = NoSkb], stack' = stack \cup {skb[t]},
             UNCHANGED <<cpus, refs, ring, txq>>
      PROVE  Kept(s)
  <2>1. Queue' = Queue
    BY <1>3, QueueSame
  <2>2. OnStack(s)' = OnStack(s) + Same(skb[t], s)
    BY <1>2, <1>3 DEF Same, OnStack
  <2>3. Cardinality(Cpus(s)') = Cardinality(Cpus(s)) - Same(skb[t], s) + Same(NoSkb, s)
    <3>1. cpus' = cpus /\ skb' = [skb EXCEPT ![t] = NoSkb]
      BY <1>3
    <3> QED BY <3>1, CpuMoves
  <2>4. Same(NoSkb, s) = 0
    BY <1>0 DEF Same, OnStack
  <2>8. /\ Holders(s) = Count(txq, s) + Count(Queue, s) + OnStack(s) + Cardinality(Cpus(s))
        /\ Count(txq, s) \in Nat /\ Count(Queue, s) \in Nat /\ Cardinality(Cpus(s)) \in Nat
        /\ refs[s] \in Int
    BY HoldersIs
  <2>9. /\ Holders(s)' = Count(txq', s) + Count(Queue', s) + OnStack(s)' + Cardinality(Cpus(s)')
        /\ Count(txq', s) \in Nat /\ Count(Queue', s) \in Nat /\ Cardinality(Cpus(s)') \in Nat
    BY HoldersNext
  <2> QED BY <1>3, <2>1, <2>2, <2>3, <2>4, <2>8, <2>9 DEF Kept, Same, OnStack
<1>4. CASE XmitPut(t)
  <2>1. CASE Full
    BY <1>3, <1>4, <2>1 DEF XmitPut, setup, tx, Goto
  <2>2. CASE ~Full
    <3>1. pc[t] # "idle" /\ Put(skb[t]) /\ UNCHANGED <<cpus, stack, skb, txq>>
      BY <1>4, <2>2 DEF XmitPut, setup, tx
    <3>2. Ring /\ skb[t] \in Skbs /\ Queue \in Seq(Skbs \cup {NoSkb})
      BY <1>2, <3>1, QueueIs DEF QueueOk, Inv, Types
    <3>3. Queue' = Append(Queue, skb[t])
      BY <2>2, <3>1, <3>2, QueuePut
    <3>4. Count(Queue', s) = Count(Queue, s) + Same(skb[t], s)
      BY <3>2, <3>3, CountAppend DEF Same, OnStack
    <3>5. refs'[s] = refs[s] + Same(skb[t], s)
      BY <1>0, <3>1, <3>2 DEF Put, Same, OnStack
    <3>6. Cpus(s)' = Cpus(s)
      BY <3>1 DEF Cpus
    <3>8. /\ Holders(s) = Count(txq, s) + Count(Queue, s) + OnStack(s) + Cardinality(Cpus(s))
          /\ Count(txq, s) \in Nat /\ Count(Queue, s) \in Nat /\ Cardinality(Cpus(s)) \in Nat
          /\ refs[s] \in Int
      BY HoldersIs
    <3>9. /\ Holders(s)' = Count(txq', s) + Count(Queue', s) + OnStack(s)' + Cardinality(Cpus(s)')
          /\ Count(txq', s) \in Nat /\ Count(Queue', s) \in Nat /\ Cardinality(Cpus(s)') \in Nat
      BY HoldersNext
    <3> QED BY <3>1, <3>4, <3>5, <3>6, <3>8, <3>9 DEF Kept, Same, OnStack
  <2> QED BY <2>1, <2>2
<1>5. CASE aq_ptp_tx_timeout_start(t)
  BY <1>5, KeptSame DEF aq_ptp_tx_timeout_start, setup, tx
<1>6. CASE XmitMap(t)
  <2>1. /\ pc[t] # "idle" /\ skb' = [skb EXCEPT ![t] = NoSkb]
        /\ txq' = Append(txq, skb[t]) /\ UNCHANGED <<cpus, stack, refs, ring>>
    BY <1>6 DEF XmitMap, setup
  <2>2. Queue' = Queue
    BY <2>1, QueueSame
  <2>3. Count(txq', s) = Count(txq, s) + Same(skb[t], s)
    <3>1. txq \in Seq(Skbs) /\ skb[t] \in Skbs
      BY <1>2, <2>1 DEF Inv, Types
    <3> QED BY <2>1, <3>1, CountAppend DEF Same, OnStack
  <2>4. Cardinality(Cpus(s)') = Cardinality(Cpus(s)) - Same(skb[t], s) + Same(NoSkb, s)
    <3>1. cpus' = cpus /\ skb' = [skb EXCEPT ![t] = NoSkb]
      BY <2>1
    <3> QED BY <3>1, CpuMoves
  <2>5. Same(NoSkb, s) = 0
    BY <1>0 DEF Same, OnStack
  <2>8. /\ Holders(s) = Count(txq, s) + Count(Queue, s) + OnStack(s) + Cardinality(Cpus(s))
        /\ Count(txq, s) \in Nat /\ Count(Queue, s) \in Nat /\ Cardinality(Cpus(s)) \in Nat
        /\ refs[s] \in Int
    BY HoldersIs
  <2>9. /\ Holders(s)' = Count(txq', s) + Count(Queue', s) + OnStack(s)' + Cardinality(Cpus(s)')
        /\ Count(txq', s) \in Nat /\ Count(Queue', s) \in Nat /\ Cardinality(Cpus(s)') \in Nat
    BY HoldersNext
  <2>10. OnStack(s)' = OnStack(s) /\ OnStack(s) \in 0 .. 1 /\ Same(skb[t], s) \in 0 .. 1
         /\ refs' = refs
    BY <2>1 DEF OnStack, Same
  <2> QED BY <2>2, <2>3, <2>4, <2>5, <2>8, <2>9, <2>10 DEF Kept
<1>7. CASE XmitMapFails(t)
  BY <1>3, <1>7 DEF XmitMapFails, setup, tx
<1> QED BY <1>1, <1>4, <1>5, <1>6, <1>7 DEF aq_ptp_xmit

\* Every other step, but opening and removal.
LEMMA KeptOther ==
    ASSUME Inv, Inv', NEW s \in Skbs,
           \/ Device \/ TenSeconds \/ aq_ptp_poll
           \/ aq_ptp_tx_timeout_check \/ aq_ptp_skb_ring_clean \/ Rtnl,
           ~(RingOpen \/ aq_ptp_ring_free)
    PROVE  Kept(s)
<1>1. CASE Device \/ TenSeconds
  BY <1>1, KeptSame DEF Device, Transmit, WriteStamp, LoseStamp, TenSeconds, setup, tx, xmit
<1>2. CASE PollTx
  <2>1. Smaller(sent, TxBudget) \in 0 .. sent
    BY SmallerIs DEF Inv, Types
  <2>2. /\ txq' = Drop(txq, Smaller(sent, TxBudget))
        /\ refs' = Freed(SubSeq(txq, 1, Smaller(sent, TxBudget)))
        /\ UNCHANGED <<cpus, stack, skb, ring>>
    BY <1>2 DEF PollTx, setup, xmit
  <2> QED BY <2>1, <2>2, KeptClean
<1>3. CASE PollReceive \/ PollLen \/ PollClear \/ PollRx
  BY <1>3, KeptSame DEF PollReceive, PollLen, PollClear, PollRx, setup, xmit, tx
<1>4. CASE PollStamp
  <2>1. CASE Empty
    BY <1>4, <2>1, KeptSame DEF PollStamp, setup, xmit, tx
  <2>2. CASE ~Empty
    <3>1. Get /\ UNCHANGED <<cpus, stack, skb, txq>>
      BY <1>4, <2>2 DEF PollStamp, setup, xmit, tx
    <3> QED BY <2>2, <3>1, KeptGet
  <2> QED BY <2>1, <2>2
<1>5. CASE aq_ptp_tx_timeout_check
  BY <1>5, KeptSame DEF aq_ptp_tx_timeout_check, setup, xmit, tx
<1>6. CASE aq_ptp_skb_ring_clean
  <2>1. CASE Empty
    BY <1>6, <2>1, KeptSame DEF aq_ptp_skb_ring_clean, setup, xmit, tx
  <2>2. CASE ~Empty
    <3>1. Get /\ UNCHANGED <<cpus, stack, skb, txq>>
      BY <1>6, <2>2 DEF aq_ptp_skb_ring_clean, setup, xmit, tx
    <3> QED BY <2>2, <3>1, KeptGet
  <2> QED BY <2>1, <2>2
<1>7. CASE aq_ptp_ring_deinit
  <2>1. Smaller(known, TxBudget) \in 0 .. sent
    <3>1. known \in Nat /\ sent \in Nat /\ known <= sent
      BY DEF Inv, Types
    <3>2. Smaller(known, TxBudget) \in 0 .. known
      BY <3>1, SmallerIs
    <3> QED BY <3>1, <3>2
  <2>2. /\ txq' = Drop(txq, Smaller(known, TxBudget))
        /\ refs' = Freed(SubSeq(txq, 1, Smaller(known, TxBudget)))
        /\ UNCHANGED <<cpus, stack, skb, ring>>
    BY <1>7 DEF aq_ptp_ring_deinit, setup, xmit
  <2> QED BY <2>1, <2>2, KeptClean
<1>8. CASE \/ aq_ptp_hwtstamp_config_set \/ StartQueues \/ StopQueues
           \/ CancelService \/ aq_ptp_ring_stop
  BY <1>8, KeptSame
     DEF aq_ptp_hwtstamp_config_set, StartQueues, StopQueues, CancelService,
         aq_ptp_ring_stop, setup, xmit, tx
<1> QED BY <1>1, <1>2, <1>3, <1>4, <1>5, <1>6, <1>7, <1>8 DEF aq_ptp_poll, Rtnl

(***************************************************************************)
(* For every number of CPUs that send and every size of the rings: no step *)
(* of aq_ptp_xmit, of the poll, of the timeout or of a stop frees a packet *)
(* that somebody still holds, or forgets one; only opening again and       *)
(* removal do.                                                             *)
(***************************************************************************)
THEOREM ReferencesTheorem == Spec => RefsKept
<1>1. ASSUME Inv, [Next]_vars
      PROVE  [~(RingOpen \/ aq_ptp_ring_free) =>
                \A s \in Skbs : refs'[s] - Holders(s)' = refs[s] - Holders(s)]_vars
  <2> SUFFICES ASSUME Next, ~(RingOpen \/ aq_ptp_ring_free), NEW s \in Skbs PROVE Kept(s)
    BY <1>1 DEF Kept
  <2>1. Inv'
    BY <1>1, NextStep
  <2> QED BY <1>1, <2>1, KeptXmit, KeptOther DEF Next
<1>2. Inv /\ [Next]_vars
        => [~(RingOpen \/ aq_ptp_ring_free) =>
              \A s \in Skbs : refs'[s] - Holders(s)' = refs[s] - Holders(s)]_vars
  BY <1>1
<1> QED BY <1>2, Invariance, PTL DEF Spec, RefsKept

\* Nobody holds a packet without a reference.
Held == \A s \in Skbs : refs[s] >= Holders(s)

LEMMA HeldInit == Init => Held
<1> SUFFICES ASSUME Init, NEW s \in Skbs PROVE refs[s] >= Holders(s)
    BY DEF Held
<1>1. Inv
  BY InitInv
<1>2. Count(txq, s) = 0
  BY CountEmpty DEF Init
<1>3. Count(Queue, s) = 0
  <2>1. Queue = <<>>
    BY <1>1, QueueIs DEF QueueOk, Empty, Init, Inv, Types
  <2> QED BY <2>1, CountEmpty
<1>4. Cardinality(Cpus(s)) = 0
  <2>1. Cpus(s) = {}
    BY StampAssumption DEF Init, Cpus
  <2> QED BY <2>1, FS_EmptySet
<1>5. OnStack(s) <= 1 /\ OnStack(s) \in Nat /\ refs[s] = 1
  BY DEF OnStack, Init
<1>6. Holders(s) = Count(txq, s) + Count(Queue, s) + OnStack(s) + Cardinality(Cpus(s))
  BY <1>1, HoldersIs
<1> QED BY <1>2, <1>3, <1>4, <1>5, <1>6

LEMMA HeldStep == ASSUME Inv, Held, [Next]_vars PROVE Held'
<1>1. Inv'
  BY NextStep
<1> SUFFICES ASSUME NEW s \in Skbs PROVE refs'[s] >= Holders(s)'
  BY DEF Held
<1>2. refs[s] >= Holders(s) /\ refs[s] \in Int /\ Holders(s) \in Nat
  BY HoldersIs DEF Held
<1>3. /\ Holders(s) = Count(txq, s) + Count(Queue, s) + OnStack(s) + Cardinality(Cpus(s))
      /\ Count(txq, s) \in Nat /\ Count(Queue, s) \in Nat /\ Cardinality(Cpus(s)) \in Nat
  BY HoldersIs
<1>4. /\ Holders(s)' = Count(txq', s) + Count(Queue', s) + OnStack(s)' + Cardinality(Cpus(s)')
      /\ refs'[s] \in Int
  BY <1>1, HoldersNext
<1>5. OnStack(s) \in 0 .. 1
  BY DEF OnStack
<1>6. CASE UNCHANGED vars
  <2>1. UNCHANGED <<cpus, stack, refs, skb, ring, txq>>
    BY <1>6 DEF vars, setup, xmit, tx
  <2>2. Kept(s)
    BY <2>1, KeptSame
  <2>3. Holders(s)' \in Int
    BY <1>1, HoldersHold, <1>4, HoldersNext DEF OnStack
  <2> QED BY <1>2, <1>4, <2>2, <2>3 DEF Kept
<1>7. CASE RingOpen
  <2>1. /\ txq' = <<>> /\ head' = 0 /\ tail' = 0 /\ UNCHANGED <<cpus, stack, refs, skb>>
    BY <1>7 DEF RingOpen, aq_ptp_ring_alloc, setup, xmit
  <2>2. Queue' = <<>>
    <3>1. QueueOk'
      BY <1>1, QueueIs, PTL DEF Inv, Types
    <3> QED BY <2>1, <3>1 DEF QueueOk, Empty
  <2>3. Count(txq', s) = 0 /\ Count(Queue', s) = 0
    BY <2>1, <2>2, CountEmpty
  <2>4. Cpus(s)' = Cpus(s) /\ OnStack(s)' = OnStack(s) /\ refs' = refs
    BY <2>1 DEF Cpus, OnStack
  <2> QED BY <1>2, <1>3, <1>4, <1>5, <2>3, <2>4
<1>8. CASE aq_ptp_ring_free
  <2>1. /\ txq' = <<>> /\ tail' = head /\ refs' = Freed(Queue)
        /\ UNCHANGED <<cpus, stack, skb, head>>
    BY <1>8 DEF aq_ptp_ring_free, setup, xmit
  <2>2. Queue' = <<>>
    <3>1. QueueOk'
      BY <1>1, QueueIs, PTL DEF Inv, Types
    <3> QED BY <2>1, <3>1 DEF QueueOk, Empty
  <2>3. Count(txq', s) = 0 /\ Count(Queue', s) = 0
    BY <2>1, <2>2, CountEmpty
  <2>4. Cpus(s)' = Cpus(s) /\ OnStack(s)' = OnStack(s)
    BY <2>1 DEF Cpus, OnStack
  <2>5. refs'[s] = refs[s] - Count(Queue, s)
    <3>1. Queue \in Seq(Skbs \cup {NoSkb}) /\ refs \in [Skbs -> Int]
      BY QueueIs DEF QueueOk, Inv, Types
    <3> QED BY <2>1, <3>1, FreedType
  <2> QED BY <1>2, <1>3, <1>4, <1>5, <2>3, <2>4, <2>5
<1>9. CASE Next /\ ~(RingOpen \/ aq_ptp_ring_free)
  <2>1. Kept(s)
    BY <1>1, <1>9, KeptXmit, KeptOther DEF Next
  <2>2. Holders(s)' \in Int
    BY <1>1, HoldersNext, <1>4 DEF OnStack
  <2> QED BY <1>2, <1>4, <2>1, <2>2 DEF Kept
<1> QED BY <1>6, <1>7, <1>8, <1>9

(***************************************************************************)
(* A packet that a ring, a CPU or the stack holds is not freed, and the    *)
(* rings, the threads and the device keep to their values: for every size  *)
(* of the rings, skb->users never falls below 0.                           *)
(***************************************************************************)
THEOREM StampTypes == Spec => [](TypeOK /\ Held)
<1>1. Inv /\ Held /\ [Next]_vars => Held'
  BY HeldStep
<1>2. Inv /\ Held => TypeOK /\ Held
  <2> SUFFICES ASSUME Inv, Held PROVE TypeOK
    OBVIOUS
  <2>1. refs \in [Skbs -> Nat]
    <3>1. \A s \in Skbs : refs[s] \in Nat
      BY HoldersIs DEF Held
    <3> QED BY <3>1 DEF Inv, Types
  <2>2. {txq, air, hwts} \subseteq Seq(Skbs)
    BY DEF Inv, Types
  <2> QED BY <2>1, <2>2 DEF TypeOK, Inv, Types, Ring
<1> QED BY <1>1, <1>2, HeldInit, Invariance, PTL DEF Spec

-----------------------------------------------------------------------------
(* Stamps and skb_ring. *)

Chosen(S) == CHOOSE t \in S : TRUE
Hand == IF InHand = {} THEN <<>> ELSE <<skb[Chosen(InHand)]>>
Unsent == Drop(txq, sent)

LEMMA PendingIs ==
    ASSUME Inv
    PROVE  /\ Pending = hwts \o air \o Unsent \o Hand
           /\ hwts \in Seq(Skbs) /\ air \in Seq(Skbs)
           /\ Unsent \in Seq(Skbs) /\ Hand \in Seq(Skbs)
<1>1. Unsent \in Seq(Skbs)
  BY DropIs DEF Inv, Types, Unsent
<1>2. Hand \in Seq(Skbs)
  <2>1. CASE InHand = {}
    BY <2>1 DEF Hand
  <2>2. CASE InHand # {}
    <3>1. Chosen(InHand) \in InHand
      BY <2>2 DEF Chosen
    <3>2. skb[Chosen(InHand)] \in Skbs
      BY <3>1 DEF InHand, Inv, Types, SendInv
    <3> QED BY <2>2, <3>2 DEF Hand
  <2> QED BY <2>1, <2>2
<1>3. Pending = hwts \o air \o Unsent \o Hand
  BY DEF Pending, Unsent, Hand, Chosen
<1> QED BY <1>1, <1>2, <1>3 DEF Inv, Types

\* The CPU that has a packet in hand is the only one.
LEMMA InHandOne ==
    ASSUME Inv, Cardinality(InHand) <= 1, NEW t \in InHand
    PROVE  InHand = {t} /\ Hand = <<skb[t]>>
<1>1. IsFiniteSet(InHand)
  BY FS_Subset DEF InHand, Inv, Types
<1>2. Cardinality(InHand) \in Nat /\ Cardinality({t}) = 1
  BY <1>1, FS_CardinalityType, FS_Singleton
<1>3. {t} \in SUBSET InHand
  OBVIOUS
<1>4. Cardinality({t}) <= Cardinality(InHand)
      /\ (Cardinality(InHand) = Cardinality({t}) => InHand = {t})
  BY <1>1, <1>3, FS_Subset
<1>5. InHand = {t}
  BY <1>2, <1>4
<1>6. Chosen({t}) = t
  BY DEF Chosen
<1> QED BY <1>5, <1>6 DEF Hand

\* The stamps to come and the packets of skb_ring stay what they are.
LEMMA InStepSame ==
    ASSUME Inv, Inv', InStep, Queue' = Queue, InHand' = InHand, Hand' = Hand,
           (hwts \o air \o Unsent)' = hwts \o air \o Unsent
    PROVE  InStep'
<1>1. Pending = hwts \o air \o Unsent \o Hand
  BY PendingIs
<1>2. Pending' = (hwts \o air \o Unsent \o Hand)'
  BY DEF Pending, Unsent, Hand, Chosen
<1> QED BY <1>1, <1>2 DEF InStep

LEMMA HandSame ==
    ASSUME UNCHANGED <<cpus, pc, skb>>
    PROVE  InHand' = InHand /\ Hand' = Hand
<1>1. InHand' = InHand
  BY DEF InHand
<1> QED BY <1>1 DEF Hand

LEMMA InStepQuiet ==
    ASSUME Inv, Inv', InStep, UNCHANGED <<ring, hwts, air, cpus, pc, skb>>, Unsent' = Unsent
    PROVE  InStep'
<1>1. Queue' = Queue
  BY QueueSame
<1>2. InHand' = InHand /\ Hand' = Hand
  BY HandSame
<1> QED BY <1>1, <1>2, InStepSame

\* Taking sent packets out of ptp_tx leaves those that are not sent.
LEMMA UnsentClean ==
    ASSUME Inv, NEW n \in 0 .. sent, txq' = Drop(txq, n), sent' = sent - n
    PROVE  Unsent' = Unsent
<1>1. txq \in Seq(Skbs) /\ sent \in 0 .. Len(txq)
  BY DEF Inv, Types
<1>2. Len(txq) \in Nat
  BY <1>1
<1>3. /\ Drop(txq, n) \in Seq(Skbs) /\ Len(Drop(txq, n)) = Len(txq) - n
      /\ \A i \in 1 .. Len(txq) - n : Drop(txq, n)[i] = txq[n + i]
  <2>1. n \in 0 .. Len(txq)
    BY <1>1, <1>2
  <2> QED BY <1>1, <2>1, DropIs
<1>4. /\ Drop(txq, sent) \in Seq(Skbs) /\ Len(Drop(txq, sent)) = Len(txq) - sent
      /\ \A i \in 1 .. Len(txq) - sent : Drop(txq, sent)[i] = txq[sent + i]
  BY <1>1, DropIs
<1> DEFINE q == Drop(txq, n)
<1>5. sent - n \in 0 .. Len(q) /\ q \in Seq(Skbs)
  BY <1>1, <1>2, <1>3
<1>6. /\ Drop(q, sent - n) \in Seq(Skbs) /\ Len(Drop(q, sent - n)) = Len(q) - (sent - n)
      /\ \A i \in 1 .. Len(q) - (sent - n) : Drop(q, sent - n)[i] = q[sent - n + i]
  BY <1>5, DropIs
<1>7. \A i \in 1 .. Len(txq) - sent : q[sent - n + i] = txq[sent + i]
  BY <1>1, <1>2, <1>3
<1> HIDE DEF q
<1>8. Len(q) - (sent - n) = Len(txq) - sent
  BY <1>1, <1>2, <1>3 DEF q
<1>9. Drop(q, sent - n) = Drop(txq, sent)
  BY <1>4, <1>6, <1>7, <1>8, SeqEqual
<1> QED BY <1>9 DEF Unsent, q

LEMMA Associative ==
    ASSUME NEW a \in Seq(Skbs), NEW b \in Seq(Skbs), NEW c \in Seq(Skbs)
    PROVE  (a \o b) \o c = a \o (b \o c)
  BY ConcatAssociative

LEMMA HeadAndTail ==
    ASSUME NEW q \in Seq(Skbs), q # <<>>
    PROVE  /\ Head(q) \in Skbs /\ <<Head(q)>> \in Seq(Skbs) /\ Tail(q) \in Seq(Skbs)
           /\ q = <<Head(q)>> \o Tail(q)
  OBVIOUS

LEMMA InStepXmit ==
    ASSUME Inv, Inv', InStep, ~Disturbed, NEW t \in cpus, aq_ptp_xmit(t)
    PROVE  InStep'
<1>1. /\ ~XmitMapFails(t) /\ ~(InHand # {} /\ XmitPut(t))
  BY DEF Disturbed
<1>2. /\ hwts \in Seq(Skbs) /\ air \in Seq(Skbs) /\ Unsent \in Seq(Skbs)
      /\ Pending = hwts \o air \o Unsent \o Hand /\ Queue = Pending
      /\ Cardinality(InHand) <= 1
  BY PendingIs DEF InStep
<1>3. Pending' = (hwts \o air \o Unsent \o Hand)'
  BY DEF Pending, Unsent, Hand, Chosen
<1>4. pc \in [cpus -> {"idle", "put", "start", "map"}] /\ skb \in [cpus -> Skbs \cup {NoSkb}]
  BY DEF Inv, Types
\* A CPU that has no packet in hand does not get one.
<1>5. ASSUME pc[t] \in {"idle", "put"}, cpus' = cpus, UNCHANGED <<ring, hwts, air, txq, sent>>,
             \A u \in cpus : u # t => pc'[u] = pc[u] /\ skb'[u] = skb[u],
             pc'[t] \in {"idle", "put"}
      PROVE  InStep'
  <2>1. InHand' = InHand
    BY <1>5 DEF InHand
  <2>2. Hand' = Hand
    <3>1. CASE InHand = {}
      BY <2>1, <3>1 DEF Hand
    <3>2. CASE InHand # {}
      <4>1. Chosen(InHand) \in InHand
        BY <3>2 DEF Chosen
      <4>2. skb'[Chosen(InHand)] = skb[Chosen(InHand)]
        BY <1>5, <4>1 DEF InHand
      <4> QED BY <2>1, <4>2 DEF Hand
    <3> QED BY <3>1, <3>2
  <2>3. Queue' = Queue
    BY <1>5, QueueSame
  <2>4. (hwts \o air \o Unsent)' = hwts \o air \o Unsent
    BY <1>5 DEF Unsent
  <2> QED BY <2>1, <2>2, <2>3, <2>4, InStepSame
<1>6. ASSUME NEW s \in Skbs, XmitStart(t, s) PROVE InStep'
  <2>1. /\ pc[t] = "idle" /\ cpus' = cpus /\ UNCHANGED <<ring, hwts, air, txq, sent>>
    BY <1>6 DEF XmitStart, setup, tx, ts
  <2>2. /\ \A u \in cpus : u # t => pc'[u] = pc[u] /\ skb'[u] = skb[u]
        /\ pc'[t] \in {"idle", "put"}
    BY <1>4, <1>6, <2>1 DEF XmitStart, Goto, xmit
  <2> QED BY <1>5, <2>1, <2>2
<1>7. CASE XmitPut(t)
  <2>1. /\ pc[t] = "put" /\ cpus' = cpus /\ UNCHANGED <<hwts, air, txq, sent>>
    BY <1>7 DEF XmitPut, setup, tx, ts
  <2>2. CASE Full
    <3>1. UNCHANGED ring
      BY <1>7, <2>2 DEF XmitPut
    <3>2. /\ \A u \in cpus : u # t => pc'[u] = pc[u] /\ skb'[u] = skb[u]
          /\ pc'[t] \in {"idle", "put"}
      BY <1>4, <1>7, <2>2 DEF XmitPut, Goto
    <3> QED BY <1>5, <2>1, <3>1, <3>2
  <2>3. CASE ~Full
    <3>1. Put(skb[t]) /\ pc' = [pc EXCEPT ![t] = "start"] /\ skb' = skb
      BY <1>7, <2>3 DEF XmitPut, Goto
    <3>2. InHand = {} /\ Hand = <<>>
      BY <1>1, <1>7 DEF Hand
    <3>3. skb[t] \in Skbs /\ Ring
      BY <2>1 DEF Inv, Types, SendInv
    <3>4. Queue' = Append(Queue, skb[t])
      BY <2>3, <3>1, <3>3, QueuePut
    <3>5. InHand' = {t}
      BY <1>4, <2>1, <3>1, <3>2 DEF InHand
    <3>6. Hand' = <<skb[t]>>
      <4>1. Chosen({t}) = t
        BY DEF Chosen
      <4> QED BY <3>1, <3>5, <4>1 DEF Hand
    <3>7. Cardinality(InHand') <= 1
      <4>1. Cardinality({t}) = 1
        BY FS_Singleton
      <4>2. Cardinality(InHand') = 1
        BY <3>5, <4>1
      <4> QED BY <4>2
    <3>8. hwts' = hwts /\ air' = air /\ Unsent' = Unsent
      BY <2>1 DEF Unsent
    <3>9. PICK X \in Seq(Skbs) : X = hwts \o air \o Unsent
      BY <1>2, ConcatProperties
    <3>10. Queue = X
      BY <1>2, <3>2, <3>9, ConcatEmptySeq
    <3>11. Pending' = X \o <<skb[t]>>
      BY <1>3, <3>6, <3>8, <3>9
    <3>12. Append(X, skb[t]) = X \o <<skb[t]>>
      BY <3>3, <3>9, AppendIsConcat
    <3> QED BY <3>4, <3>7, <3>10, <3>11, <3>12 DEF InStep
  <2> QED BY <2>2, <2>3
<1>8. CASE aq_ptp_tx_timeout_start(t)
  <2>1. /\ pc[t] = "start" /\ pc' = [pc EXCEPT ![t] = "map"]
        /\ UNCHANGED <<cpus, skb, ring, hwts, air, txq, sent>>
    BY <1>8 DEF aq_ptp_tx_timeout_start, Goto, setup, tx, ts
  <2>2. InHand' = InHand
    BY <1>4, <2>1 DEF InHand
  <2>3. Hand' = Hand
    BY <2>1, <2>2 DEF Hand
  <2>4. Queue' = Queue
    BY <2>1, QueueSame
  <2>5. (hwts \o air \o Unsent)' = hwts \o air \o Unsent
    BY <2>1 DEF Unsent
  <2> QED BY <2>2, <2>3, <2>4, <2>5, InStepSame
<1>9. CASE XmitMap(t)
  <2>1. /\ pc[t] = "map" /\ pc' = [pc EXCEPT ![t] = "idle"] /\ txq' = Append(txq, skb[t])
        /\ UNCHANGED <<cpus, ring, hwts, air, sent>>
    BY <1>9 DEF XmitMap, Goto, setup, ts
  <2>2. t \in InHand /\ skb[t] \in Skbs
    BY <2>1 DEF InHand, Inv, Types, SendInv
  <2>3. InHand = {t} /\ Hand = <<skb[t]>>
    BY <1>2, <2>2, InHandOne
  <2>4. InHand' = {} /\ Hand' = <<>>
    <3>1. InHand' = {}
      BY <1>4, <2>1, <2>3 DEF InHand
    <3> QED BY <3>1 DEF Hand
  <2>5. Unsent' = Unsent \o <<skb[t]>>
    <3>1. txq \in Seq(Skbs) /\ sent \in 0 .. Len(txq) /\ Len(txq) \in Nat
      BY DEF Inv, Types
    <3>2. Len(Append(txq, skb[t])) = Len(txq) + 1 /\ Append(txq, skb[t]) \in Seq(Skbs)
      BY <2>2, <3>1
    <3>3. /\ Drop(txq, sent) \in Seq(Skbs) /\ Len(Drop(txq, sent)) = Len(txq) - sent
          /\ \A i \in 1 .. Len(txq) - sent : Drop(txq, sent)[i] = txq[sent + i]
      BY <3>1, DropIs
    <3> DEFINE p == Append(txq, skb[t])
               d == Drop(txq, sent)
    <3>4. sent \in 0 .. Len(p) /\ p \in Seq(Skbs)
      BY <3>1, <3>2
    <3>5. /\ Drop(p, sent) \in Seq(Skbs) /\ Len(Drop(p, sent)) = Len(p) - sent
          /\ \A i \in 1 .. Len(p) - sent : Drop(p, sent)[i] = p[sent + i]
      BY <3>4, DropIs
    <3>6. \A i \in 1 .. Len(txq) + 1 : p[i] = IF i = Len(txq) + 1 THEN skb[t] ELSE txq[i]
      BY <3>1
    <3>7. Append(d, skb[t]) \in Seq(Skbs) /\ Len(Append(d, skb[t])) = Len(d) + 1
          /\ \A i \in 1 .. Len(d) + 1 :
                Append(d, skb[t])[i] = IF i = Len(d) + 1 THEN skb[t] ELSE d[i]
      BY <2>2, <3>3
    <3> HIDE DEF p, d
    <3>8. Len(p) - sent = Len(d) + 1
      BY <3>1, <3>2, <3>3 DEF p, d
    <3>9. \A i \in 1 .. Len(d) + 1 : Drop(p, sent)[i] = Append(d, skb[t])[i]
      <4> SUFFICES ASSUME NEW i \in 1 .. Len(d) + 1
                   PROVE  Drop(p, sent)[i] = Append(d, skb[t])[i]
        OBVIOUS
      <4>1. Len(d) = Len(txq) - sent /\ i \in Nat /\ i >= 1
            /\ sent \in Nat /\ Len(txq) \in Nat /\ sent <= Len(txq)
        BY <3>1, <3>3 DEF d
      <4>2. Drop(p, sent)[i] = p[sent + i] /\ sent + i \in 1 .. Len(txq) + 1
        BY <3>5, <3>8, <4>1
      <4>3. CASE i = Len(d) + 1
        <5>1. sent + i = Len(txq) + 1
          BY <4>1, <4>3
        <5> QED BY <3>6, <3>7, <4>2, <4>3, <5>1
      <4>4. CASE i # Len(d) + 1
        <5>1. i \in 1 .. Len(txq) - sent /\ sent + i # Len(txq) + 1
          BY <4>1, <4>4
        <5>2. p[sent + i] = txq[sent + i] /\ Append(d, skb[t])[i] = d[i]
          BY <3>6, <3>7, <4>2, <4>4, <5>1
        <5>3. d[i] = txq[sent + i]
          BY <3>3, <5>1 DEF d
        <5> QED BY <4>2, <5>2, <5>3
      <4> QED BY <4>3, <4>4
    <3>10. Drop(p, sent) = Append(d, skb[t])
      BY <3>5, <3>7, <3>8, <3>9, SeqEqual
    <3>11. Append(d, skb[t]) = d \o <<skb[t]>>
      BY <2>2, <3>3, AppendIsConcat DEF d
    <3> QED BY <2>1, <3>10, <3>11 DEF Unsent, p, d
  <2>6. PICK X \in Seq(Skbs) : X = hwts \o air
    BY <1>2, ConcatProperties
  <2>7. <<skb[t]>> \in Seq(Skbs)
    BY <2>2
  <2>8. (X \o Unsent) \o <<skb[t]>> = X \o (Unsent \o <<skb[t]>>)
    <3>1. Unsent \in Seq(Skbs) /\ X \in Seq(Skbs) /\ <<skb[t]>> \in Seq(Skbs)
      BY <1>2, <2>6, <2>7
    <3> QED BY <3>1, Associative
  <2>9. X \o (Unsent \o <<skb[t]>>) \in Seq(Skbs)
    BY <1>2, <2>6, <2>7, ConcatProperties
  <2>10. Pending' = X \o (Unsent \o <<skb[t]>>)
    BY <1>3, <2>1, <2>4, <2>5, <2>6, <2>9, ConcatEmptySeq
  <2>11. Pending = X \o (Unsent \o <<skb[t]>>)
    BY <1>2, <2>3, <2>6, <2>8
  <2>12. Queue' = Queue
    BY <2>1, QueueSame
  <2>13. Cardinality(InHand') <= 1
    BY <2>4, FS_EmptySet
  <2> QED BY <1>2, <2>10, <2>11, <2>12, <2>13 DEF InStep
<1> QED BY <1>1, <1>6, <1>7, <1>8, <1>9 DEF aq_ptp_xmit

LEMMA InStepDevice ==
    ASSUME Inv, Inv', InStep, ~Disturbed, Device \/ TenSeconds
    PROVE  InStep'
<1>1. /\ hwts \in Seq(Skbs) /\ air \in Seq(Skbs) /\ Unsent \in Seq(Skbs)
  BY PendingIs
<1>2. CASE Transmit
  <2>1. /\ sent < Len(txq) /\ sent' = sent + 1 /\ air' = Append(air, txq[sent + 1])
        /\ UNCHANGED <<cpus, pc, skb, ring, hwts, txq>>
    BY <1>2 DEF Transmit, setup, xmit
  <2>2. Queue' = Queue /\ InHand' = InHand /\ Hand' = Hand
    BY <2>1, QueueSame, HandSame
  <2>3. txq \in Seq(Skbs) /\ sent \in 0 .. Len(txq) /\ Len(txq) \in Nat
    BY DEF Inv, Types
  <2>4. sent + 1 \in 0 .. Len(txq) /\ sent + 1 \in 1 .. Len(txq)
    BY <2>1, <2>3
  <2>5. txq[sent + 1] \in Skbs
    BY <2>3, <2>4
  <2>6. /\ Len(Unsent) = Len(txq) - sent
        /\ \A i \in 1 .. Len(txq) - sent : Unsent[i] = txq[sent + i]
    BY <2>3, DropIs DEF Unsent
  <2>7. /\ Unsent' \in Seq(Skbs) /\ Len(Unsent') = Len(txq) - (sent + 1)
        /\ \A i \in 1 .. Len(txq) - (sent + 1) : Unsent'[i] = txq[sent + 1 + i]
    BY <2>1, <2>3, <2>4, DropIs DEF Unsent
  <2>8. Unsent # <<>> /\ Head(Unsent) = txq[sent + 1]
    BY <1>1, <2>3, <2>4, <2>6
  <2>9. Tail(Unsent) = Unsent'
    <3>1. Tail(Unsent) \in Seq(Skbs) /\ Len(Tail(Unsent)) = Len(Unsent) - 1
          /\ \A i \in 1 .. Len(Tail(Unsent)) : Tail(Unsent)[i] = Unsent[i + 1]
      BY <1>1, <2>8, HeadTailProperties
    <3>2. Len(Tail(Unsent)) = Len(Unsent')
      BY <2>3, <2>6, <2>7, <3>1
    <3>3. \A i \in 1 .. Len(Tail(Unsent)) : Tail(Unsent)[i] = Unsent'[i]
      BY <2>3, <2>6, <2>7, <3>1
    <3> QED BY <2>7, <3>1, <3>2, <3>3, SeqEqual
  <2>10. Unsent = <<txq[sent + 1]>> \o Unsent'
    <3>1. Unsent = <<Head(Unsent)>> \o Tail(Unsent)
      BY <1>1, <2>8, HeadAndTail
    <3> QED BY <2>8, <2>9, <3>1
  <2>11. air' = air \o <<txq[sent + 1]>>
    BY <1>1, <2>1, <2>5, AppendIsConcat
  <2>12. PICK x \in Skbs : x = txq[sent + 1]
    BY <2>5
  <2>13. <<x>> \in Seq(Skbs) /\ (hwts \o air) \in Seq(Skbs)
    BY <1>1, ConcatProperties
  <2>14. (hwts \o air) \o (<<x>> \o Unsent') = ((hwts \o air) \o <<x>>) \o Unsent'
    BY <2>7, <2>13, Associative
  <2>15. (hwts \o air) \o <<x>> = hwts \o (air \o <<x>>)
    BY <1>1, <2>13, Associative
  <2>16. (hwts \o air \o Unsent)' = hwts \o air \o Unsent
    BY <2>1, <2>10, <2>11, <2>12, <2>14, <2>15
  <2> QED BY <2>2, <2>16, InStepSame
<1>3. CASE WriteStamp
  <2>1. /\ air # <<>> /\ air' = Tail(air) /\ hwts' = Append(hwts, Head(air))
        /\ UNCHANGED <<cpus, pc, skb, ring, txq, sent>>
    BY <1>3 DEF WriteStamp, setup, xmit, tx
  <2>2. Queue' = Queue /\ InHand' = InHand /\ Hand' = Hand
    BY <2>1, QueueSame, HandSame
  <2>3. Unsent' = Unsent
    BY <2>1 DEF Unsent
  <2>4. PICK x \in Skbs : x = Head(air)
    BY <1>1, <2>1, HeadTailProperties
  <2>5. air = <<x>> \o air' /\ air' \in Seq(Skbs) /\ <<x>> \in Seq(Skbs)
    BY <1>1, <2>1, <2>4
  <2>6. hwts' = hwts \o <<x>>
    BY <1>1, <2>1, <2>4, AppendIsConcat
  <2>7. hwts \o (<<x>> \o air') = (hwts \o <<x>>) \o air'
    <3>1. hwts \in Seq(Skbs) /\ <<x>> \in Seq(Skbs) /\ air' \in Seq(Skbs)
      BY <1>1, <2>5
    <3> QED BY <3>1, Associative
  <2>8. (hwts \o air \o Unsent)' = hwts \o air \o Unsent
    BY <2>3, <2>5, <2>6, <2>7
  <2> QED BY <2>2, <2>8, InStepSame
<1>4. CASE LoseStamp
  BY <1>4 DEF Disturbed
<1>5. CASE TenSeconds
  <2>1. UNCHANGED <<ring, hwts, air, cpus, pc, skb>> /\ Unsent' = Unsent
    BY <1>5 DEF TenSeconds, Unsent, setup, xmit, tx, ts
  <2> QED BY <2>1, InStepQuiet
<1> QED BY <1>2, <1>3, <1>4, <1>5 DEF Device

LEMMA InStepPoll ==
    ASSUME Inv, Inv', InStep, aq_ptp_poll
    PROVE  InStep'
<1>1. CASE PollTx
  <2>1. Smaller(sent, TxBudget) \in 0 .. sent
    BY SmallerIs DEF Inv, Types
  <2>2. /\ txq' = Drop(txq, Smaller(sent, TxBudget)) /\ sent' = sent - Smaller(sent, TxBudget)
        /\ UNCHANGED <<ring, hwts, air, cpus, pc, skb>>
    BY <1>1 DEF PollTx, setup, xmit, ts
  <2>3. Unsent' = Unsent
    BY <2>1, <2>2, UnsentClean
  <2> QED BY <2>2, <2>3, InStepQuiet
<1>2. CASE PollReceive \/ PollLen \/ PollClear \/ PollRx
  <2>1. UNCHANGED <<ring, hwts, air, cpus, pc, skb>> /\ Unsent' = Unsent
    BY <1>2 DEF PollReceive, PollLen, PollClear, PollRx, Unsent, setup, xmit, tx, ts
  <2> QED BY <2>1, InStepQuiet
<1>3. CASE PollStamp
  <2>1. /\ hwts' = Tail(hwts) /\ ppc = "stamp"
        /\ UNCHANGED <<air, cpus, pc, skb, txq, sent>>
        /\ ~Empty => Get
    BY <1>3 DEF PollStamp, setup, xmit, tx
  <2>2. /\ hwts \in Seq(Skbs) /\ air \in Seq(Skbs) /\ Unsent \in Seq(Skbs)
        /\ Hand \in Seq(Skbs) /\ Pending = hwts \o air \o Unsent \o Hand /\ Queue = Pending
    BY PendingIs DEF InStep
  <2>3. hwts # <<>>
    <3>1. Len(hwts) >= 1
      BY <2>1 DEF Inv, Types, PollInv
    <3> QED BY <2>2, <3>1
  <2>4. InHand' = InHand /\ Hand' = Hand /\ Unsent' = Unsent
    BY <2>1, HandSame DEF Unsent
  <2>5. PICK x \in Skbs : x = Head(hwts)
    BY <2>2, <2>3, HeadTailProperties
  <2>6. hwts = <<x>> \o hwts' /\ hwts' \in Seq(Skbs) /\ <<x>> \in Seq(Skbs)
    BY <2>1, <2>2, <2>3, <2>5
  <2>7. PICK A \in Seq(Skbs) : A = hwts' \o air
    BY <2>2, <2>6, ConcatProperties
  <2>8. hwts \o air = <<x>> \o A
    BY <2>2, <2>6, <2>7, Associative
  <2>9. PICK B \in Seq(Skbs) : B = A \o Unsent
    BY <2>2, <2>7, ConcatProperties
  <2>10. (<<x>> \o A) \o Unsent = <<x>> \o B
    <3>1. Unsent \in Seq(Skbs) /\ <<x>> \in Seq(Skbs)
      BY <2>2, <2>6
    <3>2. (<<x>> \o A) \o Unsent = <<x>> \o (A \o Unsent)
      BY <3>1, Associative
    <3> QED BY <2>9, <3>2
  <2>11. PICK C \in Seq(Skbs) : C = B \o Hand
    BY <2>2, <2>9, ConcatProperties
  <2>12. (<<x>> \o B) \o Hand = <<x>> \o C
    <3>1. Hand \in Seq(Skbs) /\ <<x>> \in Seq(Skbs)
      BY <2>2, <2>6
    <3>2. (<<x>> \o B) \o Hand = <<x>> \o (B \o Hand)
      BY <3>1, Associative
    <3> QED BY <2>11, <3>2
  <2>13. Pending = <<x>> \o C
    BY <2>2, <2>8, <2>10, <2>12
  <2>14. Pending' = C
    <3>1. Pending' = (hwts \o air \o Unsent \o Hand)'
      BY DEF Pending, Unsent, Hand, Chosen
    <3> QED BY <2>1, <2>4, <2>7, <2>9, <2>11, <3>1
  <2>15. <<x>> \o C # <<>> /\ Tail(<<x>> \o C) = C
    BY <2>11, <2>6
  <2>16. Ring
    BY DEF Inv, Types
  <2>17. ~Empty
    BY <2>2, <2>13, <2>15, <2>16, QueueIs DEF QueueOk
  <2>18. Queue' = Tail(Queue)
    BY <2>1, <2>16, <2>17, QueueGet
  <2> QED BY <2>2, <2>4, <2>13, <2>14, <2>15, <2>18 DEF InStep
<1> QED BY <1>1, <1>2, <1>3 DEF aq_ptp_poll

LEMMA InStepOther ==
    ASSUME Inv, Inv', InStep, ~Disturbed,
           aq_ptp_tx_timeout_check \/ aq_ptp_skb_ring_clean \/ Rtnl
    PROVE  InStep'
<1>1. CASE \/ aq_ptp_tx_timeout_check \/ aq_ptp_hwtstamp_config_set \/ StartQueues
           \/ StopQueues \/ CancelService
  <2>1. UNCHANGED <<ring, hwts, air, cpus, pc, skb>> /\ Unsent' = Unsent
    BY <1>1 DEF aq_ptp_tx_timeout_check, aq_ptp_hwtstamp_config_set, StartQueues,
                StopQueues, CancelService, Unsent, setup, xmit, tx, ts
  <2> QED BY <2>1, InStepQuiet
<1>2. CASE aq_ptp_skb_ring_clean \/ aq_ptp_ring_stop
  BY <1>2 DEF aq_ptp_skb_ring_clean, Disturbed
\* Nothing is under way while the device is down.
<1>3. ASSUME life = "down", UNCHANGED <<cpus, pc, skb>>, tail' = head',
             hwts' = <<>>, air' = <<>>, txq' = <<>>, sent' = 0
      PROVE  InStep'
  <2>1. InHand' = {} /\ Hand' = <<>>
    <3>1. \A t \in cpus : pc[t] = "idle"
      BY <1>3 DEF Inv, SendInv
    <3>2. InHand' = {}
      BY <1>3, <3>1 DEF InHand
    <3> QED BY <3>2 DEF Hand
  <2>2. Queue' = <<>>
    <3>1. QueueOk'
      BY QueueIs, PTL DEF Inv, Types
    <3> QED BY <1>3, <3>1 DEF QueueOk, Empty
  <2>3. Unsent' = <<>>
    BY <1>3, EmptySeq DEF Unsent, Drop
  <2>4. Pending' = <<>> \o <<>> \o <<>> \o <<>>
    <3>1. Pending' = (hwts \o air \o Unsent \o Hand)'
      BY DEF Pending, Unsent, Hand, Chosen
    <3> QED BY <1>3, <2>1, <2>3, <3>1
  <2>5. <<>> \o <<>> = <<>>
    OBVIOUS
  <2>6. Cardinality(InHand') = 0
    BY <2>1, FS_EmptySet
  <2> QED BY <2>2, <2>4, <2>5, <2>6 DEF InStep
<1>4. CASE RingOpen
  <2>1. /\ life = "down" /\ UNCHANGED <<cpus, pc, skb>> /\ tail' = head'
        /\ hwts' = <<>> /\ air' = <<>> /\ txq' = <<>> /\ sent' = 0
    BY <1>4 DEF RingOpen, aq_ptp_ring_alloc, setup, xmit
  <2> QED BY <1>3, <2>1
<1>5. CASE aq_ptp_ring_free
  <2>1. /\ life = "down" /\ UNCHANGED <<cpus, pc, skb>> /\ tail' = head'
        /\ hwts' = <<>> /\ txq' = <<>> /\ sent' = 0
    BY <1>5 DEF aq_ptp_ring_free, setup, xmit
  <2>2. air' = <<>>
    BY <1>5 DEF aq_ptp_ring_free, Inv, PollInv
  <2> QED BY <1>3, <2>1, <2>2
<1>6. CASE aq_ptp_ring_deinit
  <2>1. Smaller(known, TxBudget) \in 0 .. sent
    <3>1. known \in Nat /\ sent \in Nat /\ known <= sent
      BY DEF Inv, Types
    <3>2. Smaller(known, TxBudget) \in 0 .. known
      BY <3>1, SmallerIs
    <3> QED BY <3>1, <3>2
  <2>2. /\ txq' = Drop(txq, Smaller(known, TxBudget)) /\ sent' = sent - Smaller(known, TxBudget)
        /\ UNCHANGED <<ring, hwts, air, cpus, pc, skb>>
    BY <1>6 DEF aq_ptp_ring_deinit, setup, xmit, ts
  <2>3. Unsent' = Unsent
    BY <2>1, <2>2, UnsentClean
  <2> QED BY <2>2, <2>3, InStepQuiet
<1> QED BY <1>1, <1>2, <1>4, <1>5, <1>6 DEF Rtnl

(***************************************************************************)
(* For every number of packets, CPUs and opens and every size of the rings *)
(* a time stamp goes to the packet it belongs to, as long as no stamp is   *)
(* lost, no packet fails to be mapped, no two CPUs are between the put and *)
(* the send, and the timeout does not empty skb_ring.                      *)
(***************************************************************************)
THEOREM StampsTheorem == Spec => StampsMatch
<1>1. ASSUME Inv, [Next]_vars PROVE [InStep /\ ~Disturbed => InStep']_vars
  <2> SUFFICES ASSUME Next, InStep, ~Disturbed PROVE InStep'
    BY <1>1
  <2>1. Inv'
    BY <1>1, NextStep
  <2> QED BY <1>1, <2>1, InStepXmit, InStepDevice, InStepPoll, InStepOther DEF Next
<1>2. Inv /\ [Next]_vars => [InStep /\ ~Disturbed => InStep']_vars
  BY <1>1
<1> QED BY <1>2, Invariance, PTL DEF Spec, StampsMatch

-----------------------------------------------------------------------------
(* The timeout. *)

\* A step after which an entry is unwatched starts with one that is.
LEMMA WatchQuiet ==
    ASSUME Unwatched', UNCHANGED <<ring, active, spc, cpus>>, ppc # "clear",
           \A t \in cpus : pc[t] = "start" => pc'[t] = "start"
    PROVE  Unwatched
<1>1. Queue' = Queue
  BY QueueSame
<1> QED BY <1>1 DEF Unwatched

LEMMA WatchStep == ASSUME Inv, Next, ~StaleStop, Unwatched' PROVE Unwatched
<1>0. /\ Queue' # <<>> /\ ~active' /\ spc' = "idle" /\ ppc' # "clear"
      /\ \A t \in cpus' : pc'[t] # "start"
  BY DEF Unwatched
<1>1. Inv'
  BY NextStep
<1>2. Ring /\ (Empty <=> Queue = <<>>) /\ (Empty' <=> Queue' = <<>>)
  <2>1. QueueOk
    BY QueueIs DEF Inv, Types
  <2>2. QueueOk'
    BY <1>1, QueueIs, PTL DEF Inv, Types
  <2> QED BY <2>1, <2>2 DEF QueueOk, Inv, Types
<1>3. pc \in [cpus -> {"idle", "put", "start", "map"}]
  BY DEF Inv, Types
<1>4. UNCHANGED ring => ~Empty
  BY <1>0, <1>2, QueueSame
<1>5. ASSUME NEW t \in cpus, aq_ptp_xmit(t) PROVE Unwatched
  <2>1. cpus' = cpus
    BY <1>5 DEF aq_ptp_xmit, XmitStart, XmitPut, aq_ptp_tx_timeout_start, XmitMap,
                XmitMapFails, setup
  <2>2. ~aq_ptp_tx_timeout_start(t)
    BY <1>0 DEF aq_ptp_tx_timeout_start
  <2>3. ~(XmitPut(t) /\ ~Full)
    BY <1>0, <1>3, <2>1 DEF XmitPut, Goto
  <2>4. /\ UNCHANGED <<ring, active, spc, ppc>> /\ pc[t] # "start"
        /\ \A u \in cpus : u # t => pc'[u] = pc[u]
    BY <1>3, <1>5, <2>2, <2>3
       DEF aq_ptp_xmit, XmitStart, XmitPut, XmitMap, XmitMapFails, Goto, xmit, timeout, poll
  <2> QED BY <1>0, <2>1, <2>4, WatchQuiet
<1>6. CASE Device \/ TenSeconds \/ PollTx \/ PollReceive \/ PollRx
  <2>1. UNCHANGED <<ring, active, spc, cpus, pc>> /\ ppc # "clear"
    BY <1>0, <1>6 DEF Device, Transmit, WriteStamp, LoseStamp, TenSeconds, PollTx, PollReceive,
                      PollRx, setup, xmit, timeout, poll
  <2> QED BY <2>1, WatchQuiet
<1>7. CASE PollStamp
  <2>1. /\ UNCHANGED <<active, spc, cpus, pc>> /\ ppc = "stamp"
        /\ Empty => UNCHANGED ring
    BY <1>7 DEF PollStamp, setup, xmit, timeout
  <2> QED BY <1>0, <1>2, <1>4, <2>1 DEF Unwatched
<1>8. CASE PollLen
  <2>1. UNCHANGED <<ring, active, spc, cpus, pc>> /\ ppc # "clear"
    BY <1>8 DEF PollLen, setup, xmit, timeout
  <2> QED BY <2>1, WatchQuiet
<1>9. CASE PollClear
  BY <1>4, <1>9 DEF PollClear, StaleStop
<1>10. CASE aq_ptp_tx_timeout_check
  BY <1>0, <1>10 DEF aq_ptp_tx_timeout_check
<1>11. CASE aq_ptp_skb_ring_clean
  BY <1>0, <1>4, <1>11 DEF aq_ptp_skb_ring_clean
<1>12. CASE RingOpen \/ aq_ptp_ring_free
  BY <1>0, <1>2, <1>12 DEF RingOpen, aq_ptp_ring_alloc, aq_ptp_ring_free, Empty
<1>13. CASE \/ aq_ptp_hwtstamp_config_set \/ StartQueues \/ StopQueues
            \/ CancelService \/ aq_ptp_ring_stop \/ aq_ptp_ring_deinit
  <2>1. UNCHANGED <<ring, active, spc, ppc, cpus, pc>>
    BY <1>13 DEF aq_ptp_hwtstamp_config_set, StartQueues, StopQueues, CancelService,
                 aq_ptp_ring_stop, aq_ptp_ring_deinit, setup, xmit, timeout, poll
  <2> QED BY <1>0, <2>1, WatchQuiet
<1> QED BY <1>5, <1>6, <1>7, <1>8, <1>9, <1>10, <1>11, <1>12, <1>13
        DEF Next, aq_ptp_poll, Rtnl

(***************************************************************************)
(* An entry of skb_ring has the timeout, or somebody about to start it or  *)
(* to empty the ring, for every number of CPUs and every size: only the    *)
(* stale stop of aq_ptp_tx_timeout_update takes that from it (the safety   *)
(* part of Drains).                                                        *)
(***************************************************************************)
THEOREM WatchTheorem == Spec => [][~Unwatched /\ ~StaleStop => ~Unwatched']_vars
<1>1. ASSUME Inv, [Next]_vars PROVE [~Unwatched /\ ~StaleStop => ~Unwatched']_vars
  BY <1>1, WatchStep
<1>2. Inv /\ [Next]_vars => [~Unwatched /\ ~StaleStop => ~Unwatched']_vars
  BY <1>1
<1> QED BY <1>2, Invariance, PTL DEF Spec

=============================================================================
