-------------------------- MODULE JtagUart_proofs --------------------------
(***************************************************************************)
(* The console loses, doubles and reorders no byte, and never leaves an    *)
(* interrupt off that somebody waits for: for rings and FIFOs of any size, *)
(* any thresholds, and any calls and moves of the host.  And its calls     *)
(* behave as on two plain queues (ConsoleQueues).                          *)
(***************************************************************************)
EXTENDS ConsoleRefinement, SequenceTheorems, TLAPS

(* How many bytes a ring holds. *)
Fill(from, to) == (to - from) % BufLen

(* The offset k bytes on *)
Past(a, k) == (a + k) % BufLen

(* k bytes of a buffer, up to its end *)
Run(buf, a, k) == [i \in 1 .. k |-> buf[a + i - 1]]

(* What the thread relies on between loading the offsets and publishing    *)
(* its own: the routine moves only the other end, which makes room, or     *)
(* brings bytes, but takes nothing away.                                   *)
WriterHolds ==
    pc \in {"copy", "publish"} =>
        /\ in = tx_in /\ n > 0 /\ n <= call.left /\ in + n <= BufLen
        /\ Fill(tx_out, tx_in) + n < BufLen
        /\ pc = "publish" => \A i \in 0 .. n - 1 : tx_buf[in + i] = written + 1 + i

ReaderHolds ==
    pc \in {"read_copy", "read_publish"} =>
        /\ out = rx_out /\ n > 0 /\ n <= call.left /\ out + n <= BufLen
        /\ n <= Fill(rx_out, rx_in)
        /\ pc = "read_publish" => chunk = Run(rx_buf, out, n)

(* The counts of a call, and the bounds of the instance. *)
Counts ==
    /\ call.left + call.done <= MaxRequest
    /\ pc \in {"read", "read_wait", "read_test"} => call.left > 0
    /\ written + Pending + sent <= MaxBytes

(* What the routine knows of the device and of the rings. *)
RoutineHolds ==
    /\ isr \in {"rx", "rx_end", "tx"} => control.space + Len(wfifo) <= WriteDepth
    /\ isr = "rx_end" /\ data => RxFull

Sent == got \o Ring(rx_buf, rx_out, rx_in) \o rfifo = Bytes(sent)
Written == hostGot \o wfifo \o Ring(tx_buf, tx_out, tx_in) = Bytes(written)

IInv ==
    /\ TypeOK /\ WriterHolds /\ ReaderHolds /\ Counts /\ RoutineHolds
    /\ Written /\ Sent /\ Armed
-----------------------------------------------------------------------------
(* Offsets in a ring. *)

LEMMA ModSmall ==
    ASSUME NEW a \in 0 .. BufLen - 1
    PROVE  a % BufLen = a
  BY ConstantsAssumption

LEMMA ModOver ==
    ASSUME NEW a \in BufLen .. 2 * BufLen - 1
    PROVE  a % BufLen = a - BufLen
<1>1. a = BufLen * (a \div BufLen) + (a % BufLen) /\ a % BufLen \in 0 .. BufLen - 1 /\ a \div BufLen \in Int
  BY ConstantsAssumption
<1>2. a \div BufLen = 1
  BY <1>1, ConstantsAssumption
<1> QED
  BY <1>1, <1>2, ConstantsAssumption

LEMMA ModUnder ==
    ASSUME NEW a \in 1 - BufLen .. -1
    PROVE  a % BufLen = a + BufLen
<1>1. a = BufLen * (a \div BufLen) + (a % BufLen) /\ a % BufLen \in 0 .. BufLen - 1 /\ a \div BufLen \in Int
  BY ConstantsAssumption
<1>2. a \div BufLen = -1
  BY <1>1, ConstantsAssumption
<1> QED
  BY <1>1, <1>2, ConstantsAssumption

(* The place i steps after offset a. *)
LEMMA Step ==
    ASSUME NEW a \in Index, NEW i \in 0 .. BufLen
    PROVE  /\ (a + i) % BufLen = IF a + i < BufLen THEN a + i ELSE a + i - BufLen
           /\ (a + i) % BufLen \in Index
<1>1. CASE a + i < BufLen
  BY <1>1, ModSmall, ConstantsAssumption DEF Index
<1>2. CASE a + i >= BufLen
  BY <1>2, ModOver, ConstantsAssumption DEF Index
<1> QED
  BY <1>1, <1>2, ConstantsAssumption DEF Index

(* The offset after a run of bytes that ends at the end of the array at the latest. *)
LEMMA RunEnd ==
    ASSUME NEW a \in Index, NEW k \in Nat, a + k <= BufLen
    PROVE  /\ (a + k) % BufLen = IF a + k < BufLen THEN a + k ELSE 0
           /\ (a + k) % BufLen \in Index
<1>1. k \in 0 .. BufLen /\ a \in 0 .. BufLen - 1 /\ BufLen \in Nat
  BY ConstantsAssumption DEF Index
<1> DEFINE c == (a + k) % BufLen
<1>2. c = (IF a + k < BufLen THEN a + k ELSE a + k - BufLen) /\ c \in Index
  BY <1>1, Step
<1> HIDE DEF c
<1>3. c = IF a + k < BufLen THEN a + k ELSE 0
  BY <1>1, <1>2
<1> QED
  BY <1>2, <1>3 DEF c

LEMMA FillValue ==
    ASSUME NEW a \in Index, NEW b \in Index
    PROVE  /\ Fill(a, b) = IF a <= b THEN b - a ELSE b - a + BufLen
           /\ Fill(a, b) \in 0 .. BufLen - 1
<1>1. CASE a <= b
  BY <1>1, ModSmall, ConstantsAssumption DEF Index, Fill
<1>2. CASE a > b
  BY <1>2, ModUnder, ConstantsAssumption DEF Index, Fill
<1> QED
  BY <1>1, <1>2, ConstantsAssumption DEF Index, Fill

LEMMA NextOffset ==
    ASSUME NEW a \in Index
    PROVE  Next1(a) = (IF a = BufLen - 1 THEN 0 ELSE a + 1) /\ Next1(a) \in Index
<1>1. 1 \in 0 .. BufLen
  BY ConstantsAssumption
<1>2. /\ (a + 1) % BufLen = IF a + 1 < BufLen THEN a + 1 ELSE a + 1 - BufLen
      /\ (a + 1) % BufLen \in Index
  BY <1>1, Step
<1> QED
  BY <1>2, ConstantsAssumption DEF Next1, Index

-----------------------------------------------------------------------------
(* The bytes in a ring. *)

LEMMA RingSeq ==
    ASSUME NEW buf \in [Index -> Nat], NEW a \in Index, NEW b \in Index
    PROVE  /\ Ring(buf, a, b) \in Seq(Nat)
           /\ Len(Ring(buf, a, b)) = Fill(a, b)
           /\ \A i \in 1 .. Fill(a, b) : Ring(buf, a, b)[i] = buf[(a + i - 1) % BufLen]
<1>1. Ring(buf, a, b) = [i \in 1 .. Fill(a, b) |-> buf[(a + i - 1) % BufLen]]
  BY DEF Ring, Fill
<1>2. Fill(a, b) \in 0 .. BufLen - 1
  BY FillValue
<1>3. ASSUME NEW i \in 1 .. Fill(a, b)
      PROVE  buf[(a + i - 1) % BufLen] \in Nat
  <2>1. (a + (i - 1)) % BufLen \in Index
    BY <1>2, Step, ConstantsAssumption
  <2>2. a + i - 1 = a + (i - 1)
    BY DEF Index
  <2> QED
    BY <2>1, <2>2
<1> QED
  BY <1>1, <1>2, <1>3

LEMMA Joined ==
    ASSUME NEW r \in Seq(Nat), NEW s \in Seq(Nat), NEW t \in Seq(Nat), Len(r) = Len(s) + Len(t),
           \A i \in 1 .. Len(s) : r[i] = s[i],
           \A i \in 1 .. Len(t) : r[Len(s) + i] = t[i]
    PROVE  r = s \o t
<1>1. /\ s \o t \in Seq(Nat)
      /\ Len(s \o t) = Len(s) + Len(t)
      /\ \A i \in 1 .. Len(s) + Len(t) : (s \o t)[i] = IF i <= Len(s) THEN s[i] ELSE t[i - Len(s)]
  BY ConcatProperties
<1>2. Len(s) \in Nat /\ Len(t) \in Nat
  OBVIOUS
<1>3. ASSUME NEW i \in 1 .. Len(r)
      PROVE  r[i] = (s \o t)[i]
  <2>1. i \in 1 .. Len(s) + Len(t)
    OBVIOUS
  <2>2. CASE i <= Len(s)
    <3>1. i \in 1 .. Len(s)
      BY <1>2, <2>1, <2>2
    <3> QED
      BY <1>1, <2>1, <2>2, <3>1
  <2>3. CASE ~(i <= Len(s))
    <3>1. i - Len(s) \in 1 .. Len(t) /\ Len(s) + (i - Len(s)) = i
      BY <1>2, <2>1, <2>3
    <3> QED
      BY <1>1, <2>1, <2>3, <3>1
  <2> QED
    BY <2>2, <2>3
<1> QED
  BY <1>1, <1>3, SeqEqual

(* The place of the i-th byte, in integers without a remainder. *)
Place(a, i) == IF a + i - 1 < BufLen THEN a + i - 1 ELSE a + i - 1 - BufLen

LEMMA RingByte ==
    ASSUME NEW buf \in [Index -> Nat], NEW a \in Index, NEW b \in Index, NEW i \in 1 .. Fill(a, b)
    PROVE  Ring(buf, a, b)[i] = buf[Place(a, i)] /\ Place(a, i) \in Index
<1>1. i \in 1 .. BufLen - 1
  BY FillValue, ConstantsAssumption
<1>2. (a + (i - 1)) % BufLen = Place(a, i) /\ (a + (i - 1)) % BufLen \in Index
  <2>1. i - 1 \in 0 .. BufLen /\ a \in Int
    BY <1>1, ConstantsAssumption DEF Index
  <2>2. a + (i - 1) = a + i - 1
    BY <2>1, <1>1
  <2> QED
    BY <2>1, <2>2, Step DEF Place
<1>3. a + i - 1 = a + (i - 1)
  BY <1>1 DEF Index
<1> QED
  BY <1>2, <1>3, RingSeq

LEMMA RingNone == ASSUME NEW buf, NEW a \in Index PROVE Ring(buf, a, a) = <<>>
<1>1. (a - a) % BufLen = 0
  BY FillValue DEF Fill, Index
<1> QED
  BY <1>1 DEF Ring

(* At most the k bytes from offset b on have been written. *)
WrittenAt(buf, new, b, k) == \A j \in Index : j \notin b .. b + k - 1 => new[j] = buf[j]

(* Bytes written behind the last one, up to where the ring wraps, extend   *)
(* what it holds; those before them stay.                                  *)
LEMMA RingExtend ==
    ASSUME NEW buf \in [Index -> Nat], NEW new \in [Index -> Nat],
           NEW a \in Index, NEW b \in Index, NEW k \in Nat,
           b + k <= BufLen, Fill(a, b) + k < BufLen,
           WrittenAt(buf, new, b, k)
    PROVE  /\ Past(b, k) \in Index
           /\ Fill(a, Past(b, k)) = Fill(a, b) + k
           /\ Ring(new, a, b) = Ring(buf, a, b)
           /\ Ring(new, a, Past(b, k)) = Ring(buf, a, b) \o Run(new, b, k)
<1> DEFINE c == Past(b, k)
           more == Run(new, b, k)
<1>0. a \in 0 .. BufLen - 1 /\ b \in 0 .. BufLen - 1 /\ BufLen \in Nat
  BY ConstantsAssumption DEF Index
<1>1. c \in Index /\ c = IF b + k < BufLen THEN b + k ELSE 0
  BY RunEnd DEF Past
<1>2. Fill(a, c) = Fill(a, b) + k /\ Fill(a, b) \in 0 .. BufLen - 1
  <2>1. Fill(a, b) = IF a <= b THEN b - a ELSE b - a + BufLen
    BY FillValue
  <2>2. Fill(a, c) = IF a <= c THEN c - a ELSE c - a + BufLen
    BY <1>1, FillValue
  <2> HIDE DEF c
  <2> QED
    BY <1>0, <1>1, <2>1, <2>2
<1> HIDE DEF c
<1>3. \A i \in 1 .. k : b + i - 1 \in Index
  BY <1>0 DEF Index
<1>4. more \in Seq(Nat) /\ Len(more) = k /\ \A i \in 1 .. k : more[i] = new[b + i - 1]
  BY <1>3 DEF Run
<1> HIDE DEF more
<1>5. ASSUME NEW i \in 1 .. Fill(a, b)
      PROVE  /\ Ring(buf, a, b)[i] = new[Place(a, i)]
             /\ Ring(new, a, b)[i] = new[Place(a, i)]
             /\ Ring(new, a, c)[i] = new[Place(a, i)]
  <2>1. Ring(buf, a, b)[i] = buf[Place(a, i)] /\ Place(a, i) \in Index
    BY RingByte
  <2>2. Place(a, i) \notin b .. b + k - 1
    BY <1>0, FillValue DEF Place
  <2>3. i \in 1 .. Fill(a, c)
    BY <1>2
  <2>4. Ring(new, a, b)[i] = new[Place(a, i)]
    BY RingByte
  <2>5. Ring(new, a, c)[i] = new[Place(a, i)]
    BY <1>1, <2>3, RingByte
  <2> QED
    BY <2>1, <2>2, <2>4, <2>5 DEF WrittenAt
<1>6. Ring(new, a, b) = Ring(buf, a, b)
  <2>1. Ring(new, a, b) \in Seq(Nat) /\ Ring(buf, a, b) \in Seq(Nat)
    BY RingSeq
  <2>2. Len(Ring(new, a, b)) = Fill(a, b) /\ Len(Ring(buf, a, b)) = Fill(a, b)
    BY RingSeq
  <2> QED
    BY <2>1, <2>2, <1>5, SeqEqual
<1>R. /\ Ring(buf, a, b) \in Seq(Nat) /\ Len(Ring(buf, a, b)) = Fill(a, b)
      /\ Ring(new, a, c) \in Seq(Nat) /\ Len(Ring(new, a, c)) = Fill(a, b) + k
  <2>1. Len(Ring(new, a, c)) = Fill(a, c) /\ Ring(new, a, c) \in Seq(Nat)
    BY <1>1, RingSeq
  <2> QED
    BY <2>1, <1>2, RingSeq
<1>7. ASSUME NEW i \in 1 .. k
      PROVE  Ring(new, a, c)[Fill(a, b) + i] = more[i]
  <2>1. Fill(a, b) + i \in 1 .. Fill(a, c)
    BY <1>2
  <2>2. Ring(new, a, c)[Fill(a, b) + i] = new[Place(a, Fill(a, b) + i)]
    BY <2>1, <1>1, RingByte
  <2>3. Place(a, Fill(a, b) + i) = b + i - 1
    BY <1>0, FillValue DEF Place
  <2> QED
    BY <2>2, <2>3, <1>4
<1>8. Ring(new, a, c) = Ring(buf, a, b) \o more
  <2>1. \A i \in 1 .. Len(Ring(buf, a, b)) : Ring(new, a, c)[i] = Ring(buf, a, b)[i]
    BY <1>5, <1>R
  <2>2. \A i \in 1 .. Len(more) : Ring(new, a, c)[Len(Ring(buf, a, b)) + i] = more[i]
    BY <1>4, <1>7, <1>R
  <2>3. Len(Ring(new, a, c)) = Len(Ring(buf, a, b)) + Len(more)
    BY <1>4, <1>R
  <2>4. more \in Seq(Nat)
    BY <1>4
  <2> QED
    BY <2>1, <2>2, <2>3, <2>4, <1>R, Joined
<1> QED
  BY <1>1, <1>2, <1>6, <1>8 DEF c, more

(* Bytes taken from the front, up to where the ring wraps. *)
LEMMA RingTake ==
    ASSUME NEW buf \in [Index -> Nat],
           NEW a \in Index, NEW b \in Index, NEW k \in Nat,
           a + k <= BufLen, k <= Fill(a, b)
    PROVE  /\ Past(a, k) \in Index
           /\ Fill(Past(a, k), b) = Fill(a, b) - k
           /\ Ring(buf, a, b) = Run(buf, a, k) \o Ring(buf, Past(a, k), b)
<1> DEFINE c == Past(a, k)
           front == Run(buf, a, k)
<1>0. a \in 0 .. BufLen - 1 /\ b \in 0 .. BufLen - 1 /\ BufLen \in Nat
  BY ConstantsAssumption DEF Index
<1>1. c \in Index /\ c = IF a + k < BufLen THEN a + k ELSE 0
  BY RunEnd DEF Past
<1>2. Fill(c, b) = Fill(a, b) - k /\ Fill(a, b) \in 0 .. BufLen - 1
  <2>1. Fill(a, b) = IF a <= b THEN b - a ELSE b - a + BufLen
    BY FillValue
  <2>2. Fill(c, b) = IF c <= b THEN b - c ELSE b - c + BufLen
    BY <1>1, FillValue
  <2> HIDE DEF c
  <2> QED
    BY <1>0, <1>1, <2>1, <2>2
<1> HIDE DEF c
<1>3. \A i \in 1 .. k : a + i - 1 \in Index
  BY <1>0 DEF Index
<1>4. front \in Seq(Nat) /\ Len(front) = k /\ \A i \in 1 .. k : front[i] = buf[a + i - 1]
  BY <1>3 DEF Run
<1> HIDE DEF front
<1>5. /\ Ring(buf, a, b) \in Seq(Nat) /\ Len(Ring(buf, a, b)) = Fill(a, b)
      /\ Ring(buf, c, b) \in Seq(Nat) /\ Len(Ring(buf, c, b)) = Fill(a, b) - k
  <2>1. Len(Ring(buf, c, b)) = Fill(c, b) /\ Ring(buf, c, b) \in Seq(Nat)
    BY <1>1, RingSeq
  <2> QED
    BY <2>1, <1>2, RingSeq
<1>6. ASSUME NEW i \in 1 .. k
      PROVE  Ring(buf, a, b)[i] = front[i]
  <2>1. i \in 1 .. Fill(a, b) /\ Place(a, i) = a + i - 1
    BY <1>0, <1>2 DEF Place
  <2>2. Ring(buf, a, b)[i] = buf[Place(a, i)]
    BY <2>1, RingByte
  <2> QED
    BY <2>1, <2>2, <1>4
<1>7. ASSUME NEW i \in 1 .. Fill(a, b) - k
      PROVE  Ring(buf, a, b)[k + i] = Ring(buf, c, b)[i]
  <2>1. k + i \in 1 .. Fill(a, b) /\ i \in 1 .. Fill(c, b)
    BY <1>2
  <2>2. Ring(buf, a, b)[k + i] = buf[Place(a, k + i)]
    BY <2>1, RingByte
  <2>3. Ring(buf, c, b)[i] = buf[Place(c, i)]
    BY <2>1, <1>1, RingByte
  <2>4. Place(c, i) = Place(a, k + i)
    BY <1>0, <1>1, <1>2 DEF Place
  <2> QED
    BY <2>2, <2>3, <2>4
<1>8. Ring(buf, a, b) = front \o Ring(buf, c, b)
  <2>1. \A i \in 1 .. Len(front) : Ring(buf, a, b)[i] = front[i]
    BY <1>4, <1>6
  <2>2. \A i \in 1 .. Len(Ring(buf, c, b)) : Ring(buf, a, b)[Len(front) + i] = Ring(buf, c, b)[i]
    BY <1>4, <1>5, <1>7
  <2>3. Len(Ring(buf, a, b)) = Len(front) + Len(Ring(buf, c, b))
    BY <1>2, <1>4, <1>5
  <2>4. front \in Seq(Nat)
    BY <1>4
  <2> QED
    BY <2>1, <2>2, <2>3, <2>4, <1>5, Joined
<1> QED
  BY <1>1, <1>2, <1>8 DEF c, front

(* One byte at a time, which may be the one at the end of the array. *)
LEMMA RingPut ==
    ASSUME NEW buf \in [Index -> Nat], NEW a \in Index, NEW b \in Index, NEW v \in Nat,
           Next1(b) # a
    PROVE  Ring([buf EXCEPT ![b] = v], a, Next1(b)) = Append(Ring(buf, a, b), v)
<1> DEFINE new == [buf EXCEPT ![b] = v]
<1>1. a \in 0 .. BufLen - 1 /\ b \in 0 .. BufLen - 1 /\ BufLen \in Nat
  BY ConstantsAssumption DEF Index
<1>2. Fill(a, b) + 1 < BufLen
  BY <1>1, FillValue, NextOffset, ConstantsAssumption
<1>3. new \in [Index -> Nat] /\ new[b] = v /\ \A j \in Index : j # b => new[j] = buf[j]
  OBVIOUS
<1> HIDE DEF new
<1>4. Ring(new, a, Past(b, 1)) = Ring(buf, a, b) \o Run(new, b, 1)
  <2> DEFINE one == 1
  <2>1. WrittenAt(buf, new, b, one)
    BY <1>1, <1>3 DEF WrittenAt
  <2>2. one \in Nat /\ b + one <= BufLen /\ Fill(a, b) + one < BufLen
    BY <1>1, <1>2
  <2> HIDE DEF one
  <2>3. new \in [Index -> Nat]
    BY <1>3
  <2>4. Ring(new, a, Past(b, one)) = Ring(buf, a, b) \o Run(new, b, one)
    BY <2>1, <2>2, <2>3, RingExtend, SMTT(40)
  <2> QED
    BY <2>4 DEF one
<1>5. Run(new, b, 1) = <<v>>
  <2>1. \A i \in 1 .. 1 : b + i - 1 = b
    BY <1>1
  <2>2. Run(new, b, 1) = [i \in 1 .. 1 |-> v]
    BY <2>1, <1>3 DEF Run
  <2> QED
    BY <2>2
<1>6. Append(Ring(buf, a, b), v) = Ring(buf, a, b) \o <<v>>
  BY RingSeq, AppendIsConcat
<1> QED
  BY <1>4, <1>5, <1>6 DEF Next1, Past, new

LEMMA RingGet ==
    ASSUME NEW buf \in [Index -> Nat], NEW a \in Index, NEW b \in Index, a # b
    PROVE  Ring(buf, a, b) = <<buf[a]>> \o Ring(buf, Next1(a), b)
<1>1. a \in 0 .. BufLen - 1 /\ b \in 0 .. BufLen - 1 /\ BufLen \in Nat
  BY ConstantsAssumption DEF Index
<1>2. 1 <= Fill(a, b)
  BY <1>1, FillValue
<1>3. Ring(buf, a, b) = Run(buf, a, 1) \o Ring(buf, Past(a, 1), b)
  <2>1. 1 \in Nat /\ a + 1 <= BufLen
    BY <1>1
  <2> QED
    BY <1>2, <2>1, RingTake
<1>4. Run(buf, a, 1) = <<buf[a]>>
  <2>1. \A i \in 1 .. 1 : a + i - 1 = a
    BY <1>1
  <2>2. Run(buf, a, 1) = [i \in 1 .. 1 |-> buf[a]]
    BY <2>1 DEF Run
  <2> QED
    BY <2>2
<1> QED
  BY <1>3, <1>4 DEF Next1, Past

(* The numbers of the bytes so far. *)
LEMMA MoreBytes ==
    ASSUME NEW m \in Nat, NEW k \in Nat
    PROVE  /\ Bytes(m) \in Seq(Nat)
           /\ Bytes(m + k) = Bytes(m) \o [i \in 1 .. k |-> m + i]
<1>1. \A j \in Nat : Bytes(j) \in Seq(Nat) /\ Len(Bytes(j)) = j /\ \A i \in 1 .. j : Bytes(j)[i] = i
  BY DEF Bytes
<1> DEFINE more == [i \in 1 .. k |-> m + i]
<1>2. more \in Seq(Nat) /\ Len(more) = k /\ \A i \in 1 .. k : more[i] = m + i
  OBVIOUS
<1> HIDE DEF more
<1>5. Bytes(m + k) = Bytes(m) \o more
  <2>1. Bytes(m) \in Seq(Nat) /\ Len(Bytes(m)) = m /\ Bytes(m + k) \in Seq(Nat) /\ Len(Bytes(m + k)) = m + k
    BY <1>1, m + k \in Nat
  <2>2. \A i \in 1 .. Len(Bytes(m)) : Bytes(m + k)[i] = Bytes(m)[i]
    <3>1. ASSUME NEW i \in 1 .. m
          PROVE  Bytes(m + k)[i] = Bytes(m)[i]
      <4>1. Bytes(m)[i] = i
        BY <1>1
      <4>2. i \in 1 .. m + k /\ m + k \in Nat
        OBVIOUS
      <4>3. Bytes(m + k)[i] = i
        BY <1>1, <4>2
      <4> QED
        BY <4>1, <4>3
    <3>2. Len(Bytes(m)) = m
      BY <1>1
    <3> QED
      BY <3>1, <3>2
  <2>3. \A i \in 1 .. Len(more) : Bytes(m + k)[Len(Bytes(m)) + i] = more[i]
    <3>1. ASSUME NEW i \in 1 .. k
          PROVE  Bytes(m + k)[m + i] = more[i]
      <4>1. more[i] = m + i
        BY <1>2
      <4>2. m + i \in 1 .. m + k /\ m + k \in Nat
        OBVIOUS
      <4>3. Bytes(m + k)[m + i] = m + i
        BY <1>1, <4>2
      <4> QED
        BY <4>1, <4>3
    <3>2. Len(Bytes(m)) = m /\ Len(more) = k
      BY <1>1, <1>2
    <3> QED
      BY <3>1, <3>2
  <2>4. more \in Seq(Nat) /\ Len(Bytes(m + k)) = Len(Bytes(m)) + Len(more)
    BY <1>2, <2>1
  <2> QED
    BY <2>1, <2>2, <2>3, <2>4, Joined
<1> QED
  BY <1>1, <1>5 DEF more

-----------------------------------------------------------------------------
(* Every step keeps the types. *)

USE DEF ring, routine, thread, device, host, At, Leave, Go, NoCall, NoControl, Least

LEMMA SeqFacts ==
    /\ \A s \in Seq(Nat) : s # <<>> => Head(s) \in Nat /\ Tail(s) \in Seq(Nat) /\ Len(Tail(s)) = Len(s) - 1
    /\ \A s \in Seq(Nat) : \A v \in Nat : Append(s, v) \in Seq(Nat) /\ Len(Append(s, v)) = Len(s) + 1
    /\ \A s \in Seq(Nat) : Len(s) \in Nat
  BY HeadTailProperties, AppendProperties

LEMMA InitIInv == Init => IInv
<1> SUFFICES ASSUME Init PROVE IInv
  OBVIOUS
<1>1. TypeOK
  BY ConstantsAssumption DEF Init, TypeOK, Index
<1>2. WriterHolds /\ ReaderHolds /\ Counts /\ RoutineHolds
  BY ConstantsAssumption DEF Init, WriterHolds, ReaderHolds, Counts, RoutineHolds, Pending
<1>3. Written /\ Sent
  <2>1. 0 \in Index
    BY ConstantsAssumption DEF Index
  <2>2. Ring(rx_buf, 0, 0) = <<>> /\ Ring(tx_buf, 0, 0) = <<>>
    BY <2>1, RingNone
  <2>3. Bytes(0) = <<>>
    BY DEF Bytes
  <2> QED
    BY <2>2, <2>3 DEF Init, Written, Sent
<1>4. Armed
  BY DEF Init, Armed, TxEmpty
<1> QED
  BY <1>1, <1>2, <1>3, <1>4 DEF IInv

RingTypes ==
    /\ rx_in \in Index /\ rx_out \in Index /\ tx_in \in Index /\ tx_out \in Index
    /\ rx_buf \in [Index -> Nat] /\ tx_buf \in [Index -> Nat]

RoutineTypes ==
    /\ irq_enable \subseteq {"RE", "WE"} /\ host_inactive \in 0 .. Timeout
    /\ isr \in {"idle", "control", "rx", "rx_end", "tx"}
    /\ control \in [RI : BOOLEAN, WI : BOOLEAN, space : 0 .. WriteDepth] /\ data \in BOOLEAN

ThreadTypes ==
    /\ pc \in Places
    /\ call \in [left : 0 .. MaxRequest, done : 0 .. MaxRequest, nonblock : BOOLEAN]
    /\ in \in Index /\ out \in Index /\ n \in 0 .. BufLen
    /\ chunk \in Seq(Nat)

DeviceTypes ==
    /\ rfifo \in Seq(Nat) /\ Len(rfifo) <= ReadDepth
    /\ wfifo \in Seq(Nat) /\ Len(wfifo) <= WriteDepth
    /\ pause_irq \in BOOLEAN /\ ac \in BOOLEAN

HostTypes ==
    /\ connected \in BOOLEAN /\ plugs \in 0 .. MaxPlugs
    /\ written \in 0 .. MaxBytes /\ sent \in 0 .. MaxBytes
    /\ got \in Seq(Nat) /\ hostGot \in Seq(Nat)

LEMMA TypeParts ==
    /\ TypeOK <=> RingTypes /\ RoutineTypes /\ ThreadTypes /\ DeviceTypes /\ HostTypes
    /\ TypeOK' <=> RingTypes' /\ RoutineTypes' /\ ThreadTypes' /\ DeviceTypes' /\ HostTypes'
  BY DEF TypeOK, RingTypes, RoutineTypes, ThreadTypes, DeviceTypes, HostTypes

LEMMA RingTypesStep == ASSUME IInv, Next PROVE RingTypes'
<1>1. RingTypes /\ ThreadTypes /\ DeviceTypes /\ HostTypes /\ WriterHolds /\ ReaderHolds
  BY TypeParts DEF IInv
<1>2. CASE UNCHANGED ring
  BY <1>1, <1>2 DEF RingTypes
<1>3. CASE RxByte
  <2>1. CASE rfifo = <<>>
    BY <1>1, <1>3, <2>1 DEF RxByte, RingTypes
  <2>2. CASE rfifo # <<>>
    BY <1>1, <1>3, <2>2, SeqFacts, NextOffset DEF RxByte, RingTypes, DeviceTypes
  <2> QED
    BY <2>1, <2>2
<1>4. CASE TxByte
  BY <1>1, <1>4, NextOffset DEF TxByte, RingTypes
<1>5. CASE WriteCopy
  <2>1. \A i \in Index : i \in in .. in + n - 1 => written + 1 + i - in \in Nat
    BY <1>1, <1>5 DEF HostTypes, ThreadTypes, WriteCopy, Index
  <2> QED
    BY <1>1, <1>5, <2>1 DEF WriteCopy, RingTypes
<1>6. CASE WritePublish
  <2>1. (in + n) % BufLen \in Index
    BY <1>1, <1>6, RunEnd DEF WritePublish, WriterHolds, ThreadTypes
  <2> QED
    BY <1>1, <1>6, <2>1 DEF WritePublish, RingTypes
<1>7. CASE ReadPublish
  <2>1. (out + n) % BufLen \in Index
    BY <1>1, <1>7, RunEnd DEF ReadPublish, ReaderHolds, ThreadTypes
  <2> QED
    BY <1>1, <1>7, <2>1 DEF ReadPublish, RingTypes
<1>8. CASE Write \/ Read \/ Close
  BY <1>2, <1>8 DEF Write, Read, Close, Call
<1>9. CASE Return
  BY <1>2, <1>9 DEF Return, WriteKick, WriteTest, ReadLoad, ReadTest, ReadRearm, CloseWait
<1>10. CASE Host
  BY <1>2, <1>10 DEF Host, HostSend, HostPause, HostTake, Plug
<1>11. CASE Interrupt \/ ReadControl \/ RxStop \/ RxEnd \/ TxEnd \/ Alarm
  BY <1>2, <1>11 DEF Interrupt, ReadControl, RxStop, RxEnd, TxEnd, Alarm
<1>12. CASE WriteLoad \/ WriteWait \/ ReadCopy \/ ReadWait
  BY <1>2, <1>12 DEF WriteLoad, WriteWait, ReadCopy, ReadWait
<1> QED
  BY <1>3, <1>4, <1>5, <1>6, <1>7, <1>8, <1>9, <1>10, <1>11, <1>12 DEF Next, Routine, ThreadStep

LEMMA RoutineTypesStep == ASSUME IInv, Next PROVE RoutineTypes'
<1>1. RoutineTypes /\ DeviceTypes /\ Timeout \in Nat /\ WriteDepth \in Nat
  BY TypeParts, ConstantsAssumption DEF IInv
<1>2. CASE UNCHANGED <<irq_enable, host_inactive, routine>>
  BY <1>1, <1>2 DEF RoutineTypes
<1>3. CASE Interrupt \/ RxStop \/ RxEnd \/ TxEnd
  BY <1>1, <1>3 DEF Interrupt, RxStop, RxEnd, TxEnd, RoutineTypes
<1>4. CASE ReadControl
  <2>1. WriteDepth - Len(wfifo) \in 0 .. WriteDepth
    BY <1>1, SeqFacts DEF DeviceTypes
  <2>2. RI \in BOOLEAN /\ WI \in BOOLEAN
    BY DEF RI, WI
  <2>3. control' \in [RI : BOOLEAN, WI : BOOLEAN, space : 0 .. WriteDepth]
    BY <1>1, <1>4, <2>1, <2>2 DEF ReadControl
  <2> QED
    BY <1>1, <1>4, <2>2, <2>3 DEF ReadControl, RoutineTypes
<1>5. CASE RxByte
  <2>1. (Len(rfifo) > 1) \in BOOLEAN
    OBVIOUS
  <2>2. CASE rfifo = <<>>
    BY <1>1, <1>5, <2>2 DEF RxByte, RoutineTypes
  <2>3. CASE rfifo # <<>>
    <3>1. /\ data' = (Len(rfifo) > 1)
          /\ UNCHANGED <<isr, irq_enable, host_inactive, control>>
      BY <1>5, <2>3 DEF RxByte
    <3>2. data' \in BOOLEAN
      BY <2>1, <3>1
    <3> QED
      BY <1>1, <3>1, <3>2 DEF RoutineTypes
  <2> QED
    BY <2>2, <2>3
<1>6. CASE TxByte
  BY <1>1, <1>6 DEF TxByte, RoutineTypes
<1>7. CASE Alarm
  BY <1>1, <1>7 DEF Alarm, RoutineTypes
<1>8. CASE Write \/ Read \/ Close
  BY <1>2, <1>8 DEF Write, Read, Close, Call
<1>9. CASE Return
  BY <1>1, <1>9 DEF Return, WriteKick, WriteTest, ReadLoad, ReadTest, ReadRearm, CloseWait, RoutineTypes
<1>10. CASE Host
  BY <1>2, <1>10 DEF Host, HostSend, HostPause, HostTake, Plug
<1>11. CASE WriteLoad \/ WriteCopy \/ WritePublish \/ WriteWait \/ ReadCopy \/ ReadPublish \/ ReadWait
  BY <1>2, <1>11 DEF WriteLoad, WriteCopy, WritePublish, WriteWait, ReadCopy, ReadPublish, ReadWait
<1> QED
  BY <1>3, <1>4, <1>5, <1>6, <1>7, <1>8, <1>9, <1>10, <1>11 DEF Next, Routine, ThreadStep

LEMMA ThreadTypesStep == ASSUME IInv, Next PROVE ThreadTypes'
<1>1. ThreadTypes /\ RingTypes /\ WriterHolds /\ ReaderHolds /\ Counts
  BY TypeParts DEF IInv
<1>2. BufLen \in Nat /\ BufLen > 1 /\ MaxRequest \in Nat /\ 0 \in Index /\ Index \subseteq Nat
  BY ConstantsAssumption DEF Index
<1>3. CASE UNCHANGED thread
  BY <1>1, <1>3 DEF ThreadTypes
<1>4. CASE Write \/ Read \/ Close
  BY <1>1, <1>2, <1>4 DEF Write, Read, Close, Call, ThreadTypes, Places
<1>5. CASE WriteLoad
  <2>1. WriteSpace \in 0 .. BufLen
    BY <1>1, <1>2 DEF WriteSpace, RingTypes, Index
  <2>2. Least(WriteSpace, call.left) \in 0 .. BufLen
    BY <1>1, <2>1, <1>2 DEF ThreadTypes
  <2> HIDE DEF Least
  <2> QED
    BY <1>1, <1>5, <2>2 DEF WriteLoad, ThreadTypes, RingTypes, Places
<1>6. CASE WriteCopy \/ WriteWait \/ ReadWait
  BY <1>1, <1>6 DEF WriteCopy, WriteWait, ReadWait, ThreadTypes, Places
<1>7. CASE WritePublish
  <2>1. call.left - n \in 0 .. MaxRequest /\ call.done + n \in 0 .. MaxRequest
    <3>1. pc = "publish"
      BY <1>7 DEF WritePublish
    <3>2. n <= call.left /\ call.left + call.done <= MaxRequest
      BY <1>1, <3>1 DEF WriterHolds, Counts
    <3>3. call.left \in 0 .. MaxRequest /\ call.done \in 0 .. MaxRequest /\ n \in Nat
      BY <1>1, <1>2 DEF ThreadTypes
    <3> QED
      BY <1>2, <3>2, <3>3
  <2> QED
    BY <1>1, <1>7, <2>1 DEF WritePublish, ThreadTypes, Places
<1>8. CASE ReadCopy
  <2>1. \A i \in 1 .. n : rx_buf[out + i - 1] \in Nat
    <3>1. \A i \in 1 .. n : out + i - 1 \in Index
      <4>1. pc = "read_copy"
        BY <1>8 DEF ReadCopy
      <4>2. out + n <= BufLen /\ out \in Nat /\ n \in Nat
        BY <1>1, <1>2, <4>1 DEF ReaderHolds, ThreadTypes
      <4> QED
        BY <1>2, <4>2 DEF Index
    <3> QED
      BY <1>1, <3>1 DEF RingTypes
  <2>2. chunk' \in Seq(Nat)
    BY <1>1, <1>8, <2>1 DEF ReadCopy, ThreadTypes
  <2> QED
    BY <1>1, <1>8, <2>2 DEF ReadCopy, ThreadTypes, Places
<1>9. CASE ReadPublish
  <2>1. call.left - n \in 0 .. MaxRequest /\ call.done + n \in 0 .. MaxRequest
    <3>1. pc = "read_publish"
      BY <1>9 DEF ReadPublish
    <3>2. n <= call.left /\ call.left + call.done <= MaxRequest
      BY <1>1, <3>1 DEF ReaderHolds, Counts
    <3>3. call.left \in 0 .. MaxRequest /\ call.done \in 0 .. MaxRequest /\ n \in Nat
      BY <1>1, <1>2 DEF ThreadTypes
    <3> QED
      BY <1>2, <3>2, <3>3
  <2>2. chunk' \in Seq(Nat) /\ pc' \in Places
    BY <1>9, EmptySeq DEF ReadPublish, Places
  <2>3. call' \in [left : 0 .. MaxRequest, done : 0 .. MaxRequest, nonblock : BOOLEAN]
    BY <1>1, <1>9, <2>1 DEF ReadPublish, ThreadTypes
  <2> QED
    BY <1>1, <1>9, <2>2, <2>3 DEF ReadPublish, ThreadTypes
<1>10. CASE WriteKick \/ WriteTest \/ ReadTest \/ ReadRearm \/ CloseWait
  <2>1. Leave \/ Go("write_wait") \/ Go("write") \/ Go("read")
    BY <1>10 DEF WriteKick, WriteTest, ReadTest, ReadRearm, CloseWait
  <2>2. chunk' = chunk
    BY <1>10 DEF WriteKick, WriteTest, ReadTest, ReadRearm, CloseWait
  <2>3. NoCall \in [left : 0 .. MaxRequest, done : 0 .. MaxRequest, nonblock : BOOLEAN]
    BY <1>2
  <2>4. CASE Leave
    BY <1>1, <1>2, <2>2, <2>3, <2>4 DEF ThreadTypes, Places
  <2>5. CASE Go("write_wait") \/ Go("write") \/ Go("read")
    BY <1>1, <2>2, <2>5 DEF ThreadTypes, Places
  <2> QED
    BY <2>1, <2>4, <2>5
<1>11. CASE ReadLoad
  <2> DEFINE there == IF rx_in >= rx_out THEN rx_in - rx_out ELSE BufLen - rx_out
  <2>1. there \in 0 .. BufLen
    BY <1>1, <1>2 DEF RingTypes, Index
  <2>2. Least(there, call.left) \in 0 .. BufLen
    BY <1>1, <2>1, <1>2 DEF ThreadTypes
  <2>3. n' \in 0 .. BufLen
    BY <1>1, <1>2, <1>11, <2>2 DEF ReadLoad, ThreadTypes
  <2>4. pc' \in Places
    BY <1>1, <1>11 DEF ReadLoad, ThreadTypes, Places
  <2>5. in' \in Index /\ out' \in Index
    BY <1>1, <1>2, <1>11 DEF ReadLoad, ThreadTypes, RingTypes
  <2>6. call' = call \/ call' = NoCall
    BY <1>11 DEF ReadLoad
  <2>7. chunk' = chunk
    BY <1>11 DEF ReadLoad
  <2>8. NoCall \in [left : 0 .. MaxRequest, done : 0 .. MaxRequest, nonblock : BOOLEAN]
    BY <1>2
  <2>9. call' \in [left : 0 .. MaxRequest, done : 0 .. MaxRequest, nonblock : BOOLEAN]
    BY <1>1, <2>6, <2>8 DEF ThreadTypes
  <2> QED
    BY <1>1, <2>3, <2>4, <2>5, <2>7, <2>9 DEF ThreadTypes
<1>12. CASE Host
  BY <1>3, <1>12 DEF Host, HostSend, HostPause, HostTake, Plug
<1>13. CASE Routine \/ Alarm
  BY <1>3, <1>13 DEF Routine, Interrupt, ReadControl, RxByte, RxStop, RxEnd, TxByte, TxEnd, Alarm
<1> QED
  BY <1>4, <1>5, <1>6, <1>7, <1>8, <1>9, <1>10, <1>11, <1>12, <1>13 DEF Next, ThreadStep, Return

LEMMA DeviceTypesStep == ASSUME IInv, Next PROVE DeviceTypes'
<1>1. DeviceTypes /\ RoutineTypes /\ RingTypes /\ HostTypes /\ RoutineHolds
  BY TypeParts DEF IInv
<1>2. CASE UNCHANGED device
  BY <1>1, <1>2 DEF DeviceTypes
<1>3. CASE RxByte
  <2>1. CASE rfifo = <<>>
    BY <1>1, <1>3, <2>1 DEF RxByte, DeviceTypes
  <2>2. CASE rfifo # <<>>
    <3>1. Tail(rfifo) \in Seq(Nat) /\ Len(Tail(rfifo)) <= ReadDepth
      BY <1>1, <2>2, SeqFacts, ConstantsAssumption DEF DeviceTypes
    <3> QED
      BY <1>1, <1>3, <2>2, <3>1 DEF RxByte, DeviceTypes
  <2> QED
    BY <2>1, <2>2
<1>4. CASE TxByte
  <2>1. tx_buf[tx_out] \in Nat /\ control.space \in Nat /\ WriteDepth \in Nat
    BY <1>1, ConstantsAssumption DEF RingTypes, RoutineTypes
  <2>2. Len(wfifo) + 1 <= WriteDepth
    BY <1>1, <1>4, <2>1, SeqFacts DEF TxByte, DeviceTypes, RoutineHolds
  <2> QED
    BY <1>1, <1>4, <2>1, <2>2, SeqFacts DEF TxByte, DeviceTypes
<1>5. CASE Alarm
  BY <1>1, <1>5 DEF Alarm, DeviceTypes
<1>6. CASE HostSend
  BY <1>1, <1>6, SeqFacts, ConstantsAssumption DEF HostSend, DeviceTypes, HostTypes
<1>7. CASE HostPause
  BY <1>1, <1>7 DEF HostPause, DeviceTypes
<1>8. CASE HostTake
  BY <1>1, <1>8, SeqFacts, ConstantsAssumption DEF HostTake, DeviceTypes
<1>9. CASE Plug \/ Write \/ Read \/ Close
  BY <1>2, <1>9 DEF Plug, Write, Read, Close, Call
<1>10. CASE Interrupt \/ ReadControl \/ RxStop \/ RxEnd \/ TxEnd
  BY <1>2, <1>10 DEF Interrupt, ReadControl, RxStop, RxEnd, TxEnd
<1>11. CASE WriteLoad \/ WriteCopy \/ WritePublish \/ WriteWait \/ ReadCopy \/ ReadPublish \/ ReadWait
  BY <1>2, <1>11 DEF WriteLoad, WriteCopy, WritePublish, WriteWait, ReadCopy, ReadPublish, ReadWait
<1>12. CASE Return
  BY <1>2, <1>12 DEF Return, WriteKick, WriteTest, ReadLoad, ReadTest, ReadRearm, CloseWait
<1> QED
  BY <1>3, <1>4, <1>5, <1>6, <1>7, <1>8, <1>9, <1>10, <1>11, <1>12 DEF Next, Routine, ThreadStep, Host

LEMMA HostTypesStep == ASSUME IInv, Next PROVE HostTypes'
<1>1. HostTypes /\ DeviceTypes /\ ThreadTypes /\ WriterHolds /\ Counts /\ MaxBytes \in Nat /\ MaxPlugs \in Nat
  BY TypeParts, ConstantsAssumption DEF IInv
<1>2. CASE UNCHANGED <<host, written, got>>
  BY <1>1, <1>2 DEF HostTypes
<1>3. CASE WritePublish
  <2>1. written + n \in 0 .. MaxBytes
    BY <1>1, <1>3 DEF WritePublish, HostTypes, ThreadTypes, WriterHolds, Counts, Pending
  <2> QED
    BY <1>1, <1>3, <2>1 DEF WritePublish, HostTypes
<1>4. CASE ReadPublish
  BY <1>1, <1>4, ConcatProperties DEF ReadPublish, HostTypes, ThreadTypes
<1>5. CASE HostSend
  <2>1. Pending \in Nat
    BY <1>1 DEF Pending, ThreadTypes
  <2>2. sent + 1 \in 0 .. MaxBytes
    BY <1>1, <1>5, <2>1 DEF HostSend, HostTypes
  <2> QED
    BY <1>1, <1>5, <2>2 DEF HostSend, HostTypes
<1>6. CASE HostTake
  BY <1>1, <1>6, SeqFacts DEF HostTake, HostTypes, DeviceTypes
<1>7. CASE Plug
  BY <1>1, <1>7 DEF Plug, HostTypes
<1>8. CASE HostPause \/ Write \/ Read \/ Close
  BY <1>2, <1>8 DEF HostPause, Write, Read, Close, Call
<1>9. CASE Routine \/ Alarm
  BY <1>2, <1>9 DEF Routine, Interrupt, ReadControl, RxByte, RxStop, RxEnd, TxByte, TxEnd, Alarm
<1>10. CASE WriteLoad \/ WriteCopy \/ WriteWait \/ ReadCopy \/ ReadWait
  BY <1>2, <1>10 DEF WriteLoad, WriteCopy, WriteWait, ReadCopy, ReadWait
<1>11. CASE Return
  BY <1>2, <1>11 DEF Return, WriteKick, WriteTest, ReadLoad, ReadTest, ReadRearm, CloseWait
<1> QED
  BY <1>3, <1>4, <1>5, <1>6, <1>7, <1>8, <1>9, <1>10, <1>11 DEF Next, ThreadStep, Host

LEMMA TypeStep == ASSUME IInv, Next PROVE TypeOK'
  BY RingTypesStep, RoutineTypesStep, ThreadTypesStep, DeviceTypesStep, HostTypesStep, TypeParts

-----------------------------------------------------------------------------
(* What the thread relies on stays true while the routine moves the other end. *)

LEMMA FillNext ==
    ASSUME NEW a \in Index, NEW b \in Index
    PROVE  /\ a # b => Fill(Next1(a), b) = Fill(a, b) - 1
           /\ Next1(b) # a => Fill(a, Next1(b)) = Fill(a, b) + 1
<1>1. a \in 0 .. BufLen - 1 /\ b \in 0 .. BufLen - 1 /\ BufLen \in Nat
  BY ConstantsAssumption DEF Index
<1>2. Fill(a, b) = IF a <= b THEN b - a ELSE b - a + BufLen
  BY FillValue
<1>3. Fill(Next1(a), b) = IF Next1(a) <= b THEN b - Next1(a) ELSE b - Next1(a) + BufLen
  BY NextOffset, FillValue
<1>4. Fill(a, Next1(b)) = IF a <= Next1(b) THEN Next1(b) - a ELSE Next1(b) - a + BufLen
  BY NextOffset, FillValue
<1>5. /\ Next1(a) = IF a = BufLen - 1 THEN 0 ELSE a + 1
      /\ Next1(b) = IF b = BufLen - 1 THEN 0 ELSE b + 1
  BY NextOffset
<1> QED
  BY <1>1, <1>2, <1>3, <1>4, <1>5

LEMMA RingFills ==
    ASSUME RingTypes
    PROVE  /\ Fill(tx_out, tx_in) = IF tx_out <= tx_in THEN tx_in - tx_out ELSE tx_in - tx_out + BufLen
           /\ Fill(rx_out, rx_in) = IF rx_out <= rx_in THEN rx_in - rx_out ELSE rx_in - rx_out + BufLen
           /\ Fill(tx_out, tx_in) \in 0 .. BufLen - 1 /\ Fill(rx_out, rx_in) \in 0 .. BufLen - 1
           /\ tx_in \in 0 .. BufLen - 1 /\ tx_out \in 0 .. BufLen - 1
           /\ rx_in \in 0 .. BufLen - 1 /\ rx_out \in 0 .. BufLen - 1
<1>1. tx_in \in Index /\ tx_out \in Index /\ rx_in \in Index /\ rx_out \in Index
  BY DEF RingTypes
<1>2. /\ Fill(tx_out, tx_in) = IF tx_out <= tx_in THEN tx_in - tx_out ELSE tx_in - tx_out + BufLen
      /\ Fill(tx_out, tx_in) \in 0 .. BufLen - 1
  BY <1>1, FillValue
<1>3. /\ Fill(rx_out, rx_in) = IF rx_out <= rx_in THEN rx_in - rx_out ELSE rx_in - rx_out + BufLen
      /\ Fill(rx_out, rx_in) \in 0 .. BufLen - 1
  BY <1>1, FillValue
<1> QED
  BY <1>1, <1>2, <1>3 DEF Index

LEMMA WriterStep == ASSUME IInv, Next PROVE WriterHolds'
<1>1. RingTypes /\ ThreadTypes /\ HostTypes /\ WriterHolds
  BY TypeParts DEF IInv
<1>2. BufLen \in Nat /\ BufLen > 1 /\ Index = 0 .. BufLen - 1
  BY ConstantsAssumption DEF Index
<1>3. CASE UNCHANGED <<thread, tx_in, tx_out, tx_buf, written>>
  BY <1>1, <1>3 DEF WriterHolds, Fill
<1>4. CASE TxByte
  <2>1. /\ UNCHANGED <<thread, tx_in, tx_buf, written>>
        /\ tx_out' = Next1(tx_out) /\ tx_out # tx_in
    BY <1>4 DEF TxByte, TxEmpty
  <2>2. Fill(Next1(tx_out), tx_in) = Fill(tx_out, tx_in) - 1 /\ Fill(tx_out, tx_in) \in Nat
    <3>1. tx_out \in Index /\ tx_in \in Index /\ tx_out # tx_in
      BY <1>1, <2>1 DEF RingTypes
    <3>2. Fill(Next1(tx_out), tx_in) = Fill(tx_out, tx_in) - 1
      BY <3>1, FillNext
    <3> QED
      BY <1>1, <1>2, <3>2, RingFills
  <2>3. Fill(tx_out, tx_in)' = Fill(tx_out, tx_in) - 1
    BY <2>1, <2>2 DEF Fill
  <2> QED
    BY <1>1, <1>2, <2>1, <2>2, <2>3 DEF WriterHolds, ThreadTypes
<1>5. CASE WriteLoad
  <2>1. SUFFICES ASSUME pc' = "copy" \/ pc' = "publish" PROVE WriterHolds'
    BY DEF WriterHolds
  <2>2. /\ in' = tx_in /\ n' = Least(WriteSpace, call.left) /\ pc' = "copy" /\ WriteSpace # 0 /\ call.left # 0
        /\ UNCHANGED <<ring, call, written>>
    BY <1>5, <2>1 DEF WriteLoad
  <2>3. /\ WriteSpace > 0 /\ tx_in + WriteSpace <= BufLen
        /\ Fill(tx_out, tx_in) + WriteSpace < BufLen /\ WriteSpace \in Nat
    <3>1. WriteSpace # 0
      BY <2>2
    <3>2. /\ Fill(tx_out, tx_in) = IF tx_out <= tx_in THEN tx_in - tx_out ELSE tx_in - tx_out + BufLen
          /\ tx_in \in 0 .. BufLen - 1 /\ tx_out \in 0 .. BufLen - 1
      BY <1>1, RingFills
    <3> QED
      BY <1>2, <3>1, <3>2 DEF WriteSpace
  <2>4. Fill(tx_out, tx_in) \in Nat /\ tx_in \in Nat /\ call.left \in Nat
    BY <1>1, <1>2, RingFills DEF ThreadTypes
  <2>5. n' > 0 /\ n' <= call.left /\ n' <= WriteSpace /\ n' \in Nat
    BY <2>2, <2>3, <2>4
  <2>6. Fill(tx_out, tx_in)' = Fill(tx_out, tx_in)
    BY <2>2 DEF Fill
  <2> QED
    BY <1>2, <2>2, <2>3, <2>4, <2>5, <2>6 DEF WriterHolds
<1>6. CASE WriteCopy
  <2>1. /\ pc = "copy" /\ pc' = "publish" /\ UNCHANGED <<tx_in, tx_out, call, in, n, written>>
        /\ tx_buf' = [i \in Index |-> IF i \in in .. in + n - 1 THEN written + 1 + i - in ELSE tx_buf[i]]
    BY <1>6 DEF WriteCopy
  <2>2. in \in Nat /\ n \in Nat /\ written \in Nat /\ in + n <= BufLen
    BY <1>1, <1>2, <2>1 DEF WriterHolds, ThreadTypes, HostTypes
  <2>3. ASSUME NEW i \in 0 .. n - 1
        PROVE  tx_buf'[in + i] = written + 1 + i
    <3>1. in + i \in Index /\ in + i \in in .. in + n - 1 /\ written + 1 + (in + i) - in = written + 1 + i
      BY <1>2, <2>2
    <3> QED
      BY <2>1, <3>1
  <2>4. Fill(tx_out, tx_in)' = Fill(tx_out, tx_in)
    BY <2>1 DEF Fill
  <2> QED
    BY <1>1, <2>1, <2>3, <2>4 DEF WriterHolds
<1>7. CASE WritePublish \/ WriteWait \/ ReadCopy \/ ReadPublish \/ ReadWait
  <2>1. pc' \notin {"copy", "publish"}
    BY <1>7 DEF WritePublish, WriteWait, ReadCopy, ReadPublish, ReadWait
  <2> QED
    BY <2>1 DEF WriterHolds
<1>8. CASE Return
  <2>1. pc' \notin {"copy", "publish"}
    BY <1>8 DEF Return, WriteKick, WriteTest, ReadLoad, ReadTest, ReadRearm, CloseWait
  <2> QED
    BY <2>1 DEF WriterHolds
<1>9. CASE Write \/ Read \/ Close
  <2>1. pc' \notin {"copy", "publish"}
    BY <1>9 DEF Write, Read, Close, Call
  <2> QED
    BY <2>1 DEF WriterHolds
<1>10. CASE Host
  BY <1>3, <1>10 DEF Host, HostSend, HostPause, HostTake, Plug
<1>11. CASE Interrupt \/ ReadControl \/ RxByte \/ RxStop \/ RxEnd \/ TxEnd \/ Alarm
  BY <1>3, <1>11 DEF Interrupt, ReadControl, RxByte, RxStop, RxEnd, TxEnd, Alarm
<1> QED
  BY <1>4, <1>5, <1>6, <1>7, <1>8, <1>9, <1>10, <1>11 DEF Next, Routine, ThreadStep

LEMMA ReaderStep == ASSUME IInv, Next PROVE ReaderHolds'
<1>1. RingTypes /\ ThreadTypes /\ DeviceTypes /\ ReaderHolds /\ Counts
  BY TypeParts DEF IInv
<1>2. BufLen \in Nat /\ BufLen > 1 /\ Index = 0 .. BufLen - 1
  BY ConstantsAssumption DEF Index
<1>3. CASE UNCHANGED <<thread, rx_in, rx_out, rx_buf>>
  BY <1>1, <1>3 DEF ReaderHolds, Fill, Run
<1>4. CASE RxByte
  <2>1. CASE rfifo = <<>>
    BY <1>3, <1>4, <2>1 DEF RxByte
  <2>2. CASE rfifo # <<>>
    <3>1. /\ UNCHANGED <<thread, rx_out>> /\ rx_in' = Next1(rx_in) /\ Next1(rx_in) # rx_out
          /\ rx_buf' = [rx_buf EXCEPT ![rx_in] = Head(rfifo)]
      BY <1>4, <2>2 DEF RxByte, RxFull
    <3>2. Fill(rx_out, Next1(rx_in)) = Fill(rx_out, rx_in) + 1 /\ Fill(rx_out, rx_in) \in Nat
      <4>1. rx_out \in Index /\ rx_in \in Index /\ Next1(rx_in) # rx_out
        BY <1>1, <3>1 DEF RingTypes
      <4>2. Fill(rx_out, Next1(rx_in)) = Fill(rx_out, rx_in) + 1
        BY <4>1, FillNext
      <4> QED
        BY <1>1, <1>2, <4>2, RingFills
    <3>3. Fill(rx_out, rx_in)' = Fill(rx_out, rx_in) + 1
      BY <3>1, <3>2 DEF Fill
    <3>4. ASSUME out = rx_out, out + n <= BufLen, n <= Fill(rx_out, rx_in)
          PROVE  Run(rx_buf, out, n)' = Run(rx_buf, out, n)
      <4>1. rx_in \in Nat /\ rx_out \in Nat /\ out \in Nat /\ n \in Nat
        BY <1>1, <1>2 DEF RingTypes, ThreadTypes
      <4>2. Fill(rx_out, rx_in) = IF rx_out <= rx_in THEN rx_in - rx_out ELSE rx_in - rx_out + BufLen
        BY <1>1, FillValue DEF RingTypes
      <4>3. \A i \in 1 .. n : out + i - 1 \in Index /\ out + i - 1 # rx_in
        BY <1>1, <1>2, <3>4, <4>1, <4>2 DEF RingTypes
      <4>4. \A i \in 1 .. n : rx_buf'[out + i - 1] = rx_buf[out + i - 1]
        BY <1>1, <3>1, <4>3 DEF RingTypes
      <4>5. out' = out /\ n' = n
        BY <3>1
      <4> QED
        BY <4>4, <4>5 DEF Run
    <3> QED
      BY <1>1, <3>1, <3>2, <3>3, <3>4 DEF ReaderHolds, ThreadTypes
  <2> QED
    BY <2>1, <2>2
<1>5. CASE ReadLoad
  <2> DEFINE there == IF rx_in >= rx_out THEN rx_in - rx_out ELSE BufLen - rx_out
  <2>1. SUFFICES ASSUME pc' = "read_copy" \/ pc' = "read_publish" PROVE ReaderHolds'
    BY DEF ReaderHolds
  <2>2. /\ out' = rx_out /\ n' = Least(there, call.left) /\ there > 0 /\ pc' = "read_copy" /\ pc = "read"
        /\ UNCHANGED <<ring, call>>
    BY <1>5, <2>1 DEF ReadLoad
  <2>3. there \in Nat /\ rx_out + there <= BufLen /\ there <= Fill(rx_out, rx_in)
    BY <1>1, <1>2, RingFills
  <2>4. Fill(rx_out, rx_in) \in Nat /\ rx_out \in Nat /\ call.left \in Nat /\ call.left > 0
    BY <1>1, <1>2, <2>2, RingFills DEF ThreadTypes, Counts
  <2>5. n' > 0 /\ n' <= call.left /\ n' <= there /\ n' \in Nat
    <3> HIDE DEF there
    <3> QED
      BY <2>2, <2>3, <2>4
  <2>6. Fill(rx_out, rx_in)' = Fill(rx_out, rx_in)
    BY <2>2 DEF Fill
  <2> HIDE DEF there
  <2> QED
    BY <1>2, <2>2, <2>3, <2>4, <2>5, <2>6 DEF ReaderHolds
<1>6. CASE ReadCopy
  <2>1. /\ pc = "read_copy" /\ pc' = "read_publish" /\ UNCHANGED <<rx_in, rx_out, rx_buf, call, out, n>>
        /\ chunk' = Run(rx_buf, out, n)
    BY <1>6 DEF ReadCopy, Run
  <2>2. Fill(rx_out, rx_in)' = Fill(rx_out, rx_in) /\ Run(rx_buf, out, n)' = Run(rx_buf, out, n)
    BY <2>1 DEF Fill, Run
  <2> QED
    BY <1>1, <2>1, <2>2 DEF ReaderHolds
<1>7. CASE WriteLoad \/ WriteCopy \/ WritePublish \/ WriteWait \/ ReadPublish \/ ReadWait
  <2>1. pc' \notin {"read_copy", "read_publish"}
    BY <1>7 DEF WriteLoad, WriteCopy, WritePublish, WriteWait, ReadPublish, ReadWait
  <2> QED
    BY <2>1 DEF ReaderHolds
<1>8. CASE WriteKick \/ WriteTest \/ ReadTest \/ ReadRearm \/ CloseWait
  <2>1. pc' \notin {"read_copy", "read_publish"}
    BY <1>8 DEF WriteKick, WriteTest, ReadTest, ReadRearm, CloseWait
  <2> QED
    BY <2>1 DEF ReaderHolds
<1>9. CASE Write \/ Read \/ Close
  <2>1. pc' \notin {"read_copy", "read_publish"}
    BY <1>9 DEF Write, Read, Close, Call
  <2> QED
    BY <2>1 DEF ReaderHolds
<1>10. CASE Host
  BY <1>3, <1>10 DEF Host, HostSend, HostPause, HostTake, Plug
<1>11. CASE Interrupt \/ ReadControl \/ RxStop \/ RxEnd \/ TxByte \/ TxEnd \/ Alarm
  BY <1>3, <1>11 DEF Interrupt, ReadControl, RxStop, RxEnd, TxByte, TxEnd, Alarm
<1> QED
  BY <1>4, <1>5, <1>6, <1>7, <1>8, <1>9, <1>10, <1>11 DEF Next, Routine, ThreadStep, Return

LEMMA CountsStep == ASSUME IInv, Next PROVE Counts'
<1>1. ThreadTypes /\ HostTypes /\ WriterHolds /\ ReaderHolds /\ Counts
  BY TypeParts DEF IInv
<1>2. MaxRequest \in Nat \ {0} /\ MaxBytes \in Nat
  BY ConstantsAssumption
<1>3. CASE UNCHANGED <<pc, call, written, sent>>
  BY <1>1, <1>3 DEF Counts, Pending
<1>4. CASE Write
  <2>1. PICK k \in 1 .. MaxRequest : written + sent + k <= MaxBytes /\ Call("write", k)
    BY <1>4 DEF Write
  <2>2. /\ pc' = "write" /\ call'.left = k /\ call'.done = 0 /\ UNCHANGED <<written, sent>>
    BY <2>1 DEF Call
  <2> QED
    BY <1>1, <1>2, <2>1, <2>2 DEF Counts, Pending, HostTypes
<1>5. CASE Read
  <2>1. PICK k \in 1 .. MaxRequest : Call("read", k)
    BY <1>5 DEF Read
  <2>2. /\ pc = "idle" /\ pc' = "read" /\ call'.left = k /\ call'.done = 0 /\ UNCHANGED <<written, sent>>
    BY <2>1 DEF Call
  <2> QED
    BY <1>1, <1>2, <2>1, <2>2 DEF Counts, Pending, HostTypes
<1>6. CASE Close
  <2>1. /\ pc = "idle" /\ pc' = "close" /\ call'.left = 0 /\ call'.done = 0 /\ UNCHANGED <<written, sent>>
    BY <1>6 DEF Close, Call
  <2> QED
    BY <1>1, <1>2, <2>1 DEF Counts, Pending, HostTypes
<1>7. CASE WriteLoad \/ WriteCopy \/ WriteWait
  <2>1. /\ pc \in {"write", "copy", "write_wait"} /\ UNCHANGED <<call, written, sent>>
        /\ pc' \in {"kick", "copy", "publish", "write_test"}
    BY <1>7 DEF WriteLoad, WriteCopy, WriteWait
  <2> QED
    BY <1>1, <2>1 DEF Counts, Pending
<1>8. CASE ReadCopy \/ ReadWait
  <2>1. /\ pc \in {"read_copy", "read_wait"} /\ UNCHANGED <<call, written, sent>>
        /\ pc = "read_copy" => pc' = "read_publish"
        /\ pc = "read_wait" => pc' = "read_test"
    BY <1>8 DEF ReadCopy, ReadWait
  <2> QED
    BY <1>1, <2>1 DEF Counts, Pending
<1>9. CASE WritePublish
  <2>1. /\ pc = "publish" /\ pc' = "write" /\ written' = written + n /\ sent' = sent
        /\ call'.left = call.left - n /\ call'.done = call.done + n
    BY <1>1, <1>9 DEF WritePublish, ThreadTypes
  <2>2. /\ written \in Nat /\ sent \in Nat /\ n \in Nat
        /\ call.left \in Nat /\ call.done \in Nat
    BY <1>1, <1>2 DEF HostTypes, ThreadTypes
  <2>3. call.left + call.done <= MaxRequest /\ written + call.left + sent <= MaxBytes
    BY <1>1, <2>1 DEF Counts, Pending
  <2>4. Pending' = call.left - n
    BY <2>1 DEF Pending
  <2>5. (call.left + call.done <= MaxRequest)' /\ (written + Pending + sent <= MaxBytes)'
    BY <1>2, <2>1, <2>2, <2>3, <2>4
  <2> QED
    BY <2>1, <2>5 DEF Counts
<1>10. CASE ReadPublish
  <2>1. /\ pc = "read_publish" /\ UNCHANGED <<written, sent>>
        /\ pc' = (IF call.left = n THEN "rearm" ELSE "read")
        /\ call'.left = call.left - n /\ call'.done = call.done + n
    BY <1>1, <1>10 DEF ReadPublish, ThreadTypes
  <2>2. n <= call.left /\ call.left \in Nat /\ call.done \in Nat /\ n \in Nat
    BY <1>1, <2>1 DEF ReaderHolds, ThreadTypes
  <2> QED
    BY <1>1, <1>2, <2>1, <2>2 DEF Counts, Pending, HostTypes
<1>11. CASE Return
  <2>1. UNCHANGED <<written, sent>>
    BY <1>11 DEF Return, WriteKick, WriteTest, ReadLoad, ReadTest, ReadRearm, CloseWait
  <2>2. \/ Leave
        \/ pc = "kick" /\ Go("write_wait")
        \/ pc = "write_test" /\ Go("write")
        \/ pc = "read_test" /\ Go("read")
        \/ pc = "read" /\ Go("rearm")
        \/ pc = "read" /\ pc' \in {"read_copy", "read_wait"} /\ UNCHANGED call
    <3>1. CASE WriteKick
      BY <3>1 DEF WriteKick
    <3>3. CASE WriteTest
      BY <3>3 DEF WriteTest
    <3>4. CASE ReadTest
      BY <3>4 DEF ReadTest
    <3>5. CASE ReadRearm \/ CloseWait
      BY <3>5 DEF ReadRearm, CloseWait
    <3>2. CASE ReadLoad
      BY <3>2 DEF ReadLoad
    <3> QED
      BY <1>11, <3>1, <3>2, <3>3, <3>4, <3>5 DEF Return
  <2>3. CASE Leave
    <3>1. pc' = "idle" /\ call'.left = 0 /\ call'.done = 0
      BY <2>3
    <3>2. written + sent <= MaxBytes
      BY <1>1, <1>2 DEF Counts, Pending, HostTypes, ThreadTypes
    <3> QED
      BY <1>1, <1>2, <2>1, <3>1, <3>2 DEF Counts, Pending, HostTypes
  <2>4. CASE ~Leave
    <3>1. \/ pc = "kick" /\ pc' = "write_wait"
          \/ pc = "write_test" /\ pc' = "write"
          \/ pc = "read_test" /\ pc' = "read"
          \/ pc = "read" /\ pc' \in {"rearm", "read_copy", "read_wait"}
      BY <2>2, <2>4
    <3>2. call' = call
      BY <2>2, <2>4
    <3> QED
      BY <1>1, <2>1, <3>1, <3>2 DEF Counts, Pending
  <2> QED
    BY <2>3, <2>4
<1>12. CASE HostSend
  <2>1. written + Pending + sent < MaxBytes /\ sent' = sent + 1 /\ UNCHANGED <<pc, call, written>>
    BY <1>12 DEF HostSend
  <2>2. written \in Nat /\ sent \in Nat /\ Pending \in Nat
    BY <1>1, <1>2 DEF HostTypes, ThreadTypes, Pending
  <2>3. Pending' = Pending
    BY <2>1 DEF Pending
  <2>4. (written + Pending + sent <= MaxBytes)'
    BY <1>2, <2>1, <2>2, <2>3
  <2> QED
    BY <1>1, <2>1, <2>4 DEF Counts
<1>13. CASE HostPause \/ HostTake \/ Plug
  BY <1>3, <1>13 DEF HostPause, HostTake, Plug
<1>14. CASE Routine \/ Alarm
  BY <1>3, <1>14 DEF Routine, Interrupt, ReadControl, RxByte, RxStop, RxEnd, TxByte, TxEnd, Alarm
<1> QED
  BY <1>4, <1>5, <1>6, <1>7, <1>8, <1>9, <1>10, <1>11, <1>12, <1>13, <1>14 DEF Next, ThreadStep, Host

-----------------------------------------------------------------------------
(* The routine.  It alone fills the transmit FIFO, and the thread does not *)
(* run before the routine is done with what it has read.                   *)

LEMMA RoutineStep == ASSUME IInv, Next PROVE RoutineHolds'
<1>1. RoutineTypes /\ DeviceTypes /\ RoutineHolds
  BY TypeParts DEF IInv
<1>2. WriteDepth \in Nat /\ Len(wfifo) \in Nat
  BY <1>1, ConstantsAssumption, SeqFacts DEF DeviceTypes
<1>3. CASE UNCHANGED <<routine, wfifo, rx_in, rx_out>>
  BY <1>1, <1>3 DEF RoutineHolds, RxFull
<1>4. CASE isr' = "idle"
  BY <1>4 DEF RoutineHolds
<1>5. CASE Interrupt \/ TxEnd
  <2>1. isr' = "control"
    BY <1>5 DEF Interrupt, TxEnd
  <2> QED
    BY <2>1 DEF RoutineHolds
<1>6. CASE ReadControl
  <2>1. /\ isr' \in {"rx", "tx", "idle"} /\ wfifo' = wfifo
        /\ isr' # "idle" => control'.space = WriteDepth - Len(wfifo)
    BY <1>6 DEF ReadControl
  <2> QED
    BY <1>2, <2>1 DEF RoutineHolds
<1>7. CASE RxByte
  <2>1. UNCHANGED <<control, wfifo>> /\ isr = "rx" /\ isr' \in {"rx", "rx_end"} /\ (isr' = "rx_end" => ~data')
    BY <1>7 DEF RxByte
  <2> QED
    BY <1>1, <2>1 DEF RoutineHolds
<1>8. CASE RxStop
  <2>1. UNCHANGED <<control, wfifo, rx_in, rx_out>> /\ isr = "rx" /\ isr' = "rx_end" /\ RxFull
    BY <1>8 DEF RxStop
  <2> QED
    BY <1>1, <2>1 DEF RoutineHolds, RxFull
<1>9. CASE RxEnd
  <2>1. UNCHANGED <<control, wfifo>> /\ isr = "rx_end" /\ isr' \in {"tx", "control"}
    BY <1>9 DEF RxEnd
  <2> QED
    BY <1>1, <2>1 DEF RoutineHolds
<1>10. CASE TxByte
  <2>1. /\ isr = "tx" /\ isr' = "tx" /\ wfifo' = Append(wfifo, tx_buf[tx_out])
        /\ control'.space = control.space - 1
    BY <1>1, <1>10 DEF TxByte, RoutineTypes
  <2>2. Len(wfifo') = Len(wfifo) + 1
    <3>1. RingTypes
      BY TypeParts DEF IInv
    <3> QED
      BY <1>1, <2>1, <3>1, SeqFacts DEF DeviceTypes, RingTypes
  <2>3. control.space \in Nat
    BY <1>1, <1>2 DEF RoutineTypes
  <2> QED
    BY <1>1, <1>2, <2>1, <2>2, <2>3 DEF RoutineHolds
<1>11. CASE HostTake
  <2>1. Len(wfifo') = Len(wfifo) - 1
    BY <1>1, <1>11, SeqFacts DEF HostTake, DeviceTypes
  <2>2. UNCHANGED <<routine, rx_in, rx_out>>
    BY <1>11 DEF HostTake
  <2>3. control.space \in Nat
    BY <1>1, <1>2 DEF RoutineTypes
  <2> QED
    BY <1>1, <1>2, <2>1, <2>2, <2>3 DEF RoutineHolds, RxFull
<1>12. CASE HostSend \/ HostPause \/ Plug
  BY <1>3, <1>12 DEF HostSend, HostPause, Plug
<1>13. CASE Write \/ Read \/ Close \/ Alarm
  <2>1. isr' = "idle"
    BY <1>13 DEF Write, Read, Close, Call, Alarm
  <2> QED
    BY <1>4, <2>1
<1>14. CASE WriteLoad \/ WriteCopy \/ WritePublish \/ WriteWait \/ ReadCopy \/ ReadPublish \/ ReadWait
  <2>1. isr' = "idle"
    BY <1>14 DEF WriteLoad, WriteCopy, WritePublish, WriteWait, ReadCopy, ReadPublish, ReadWait
  <2> QED
    BY <1>4, <2>1
<1>15. CASE Return
  <2>1. isr' = "idle"
    BY <1>15 DEF Return, WriteKick, WriteTest, ReadLoad, ReadTest, ReadRearm, CloseWait
  <2> QED
    BY <1>4, <2>1
<1> QED
  BY <1>5, <1>6, <1>7, <1>8, <1>9, <1>10, <1>11, <1>12, <1>13, <1>14, <1>15 DEF Next, Routine, ThreadStep, Host

-----------------------------------------------------------------------------
(* The bytes on their way to the host, and those on their way to read. *)

LEMMA Assoc ==
    ASSUME NEW r \in Seq(Nat), NEW s \in Seq(Nat), NEW t \in Seq(Nat)
    PROVE  (r \o s) \o t = r \o (s \o t)
  BY ConcatAssociative, SMTT(60)

LEMMA WrittenStep == ASSUME IInv, Next PROVE Written'
<1>1. RingTypes /\ ThreadTypes /\ DeviceTypes /\ HostTypes /\ WriterHolds /\ Written
  BY TypeParts DEF IInv
<1>2. BufLen \in Nat /\ BufLen > 1 /\ Index = 0 .. BufLen - 1
  BY ConstantsAssumption DEF Index
<1> DEFINE held == Ring(tx_buf, tx_out, tx_in)
<1>3. held \in Seq(Nat)
  BY <1>1, RingSeq DEF RingTypes
<1>4. CASE UNCHANGED <<hostGot, wfifo, tx_buf, tx_out, tx_in, written>>
  BY <1>1, <1>4 DEF Written, Ring, Bytes
<1>5. CASE TxByte
  <2>1. /\ UNCHANGED <<hostGot, tx_buf, tx_in, written>> /\ tx_out # tx_in
        /\ wfifo' = Append(wfifo, tx_buf[tx_out]) /\ tx_out' = Next1(tx_out)
    BY <1>5 DEF TxByte, TxEmpty
  <2>2. tx_buf[tx_out] \in Nat
    BY <1>1 DEF RingTypes
  <2> DEFINE rest == Ring(tx_buf, Next1(tx_out), tx_in)
  <2>3. held = <<tx_buf[tx_out]>> \o rest
    BY <1>1, <2>1, RingGet DEF RingTypes
  <2>4. rest \in Seq(Nat)
    BY <1>1, NextOffset, RingSeq DEF RingTypes
  <2>5. held' = rest
    BY <2>1 DEF Ring
  <2> HIDE DEF held, rest
  <2>6. wfifo' = wfifo \o <<tx_buf[tx_out]>>
    BY <1>1, <2>1, <2>2, AppendIsConcat DEF DeviceTypes
  <2>7. (wfifo \o <<tx_buf[tx_out]>>) \o rest = wfifo \o held
    BY <1>1, <2>2, <2>3, <2>4, Assoc DEF DeviceTypes
  <2>8. wfifo \o <<tx_buf[tx_out]>> \in Seq(Nat)
    BY <1>1, <2>2, ConcatProperties DEF DeviceTypes
  <2>9. (hostGot \o (wfifo \o <<tx_buf[tx_out]>>)) \o rest = hostGot \o (wfifo \o held)
    <3>1. hostGot \in Seq(Nat)
      BY <1>1 DEF HostTypes
    <3>2. (hostGot \o (wfifo \o <<tx_buf[tx_out]>>)) \o rest = hostGot \o ((wfifo \o <<tx_buf[tx_out]>>) \o rest)
      BY <2>4, <2>8, <3>1, Assoc
    <3> QED
      BY <2>7, <3>2
  <2>10. hostGot \o (wfifo \o held) = (hostGot \o wfifo) \o held
    <3>1. hostGot \in Seq(Nat) /\ wfifo \in Seq(Nat) /\ held \in Seq(Nat)
      BY <1>1, <1>3 DEF HostTypes, DeviceTypes, held
    <3> QED
      BY ONLY <3>1, Assoc
  <2>11. (hostGot \o wfifo) \o held = Bytes(written)
    BY <1>1 DEF Written, held
  <2>12. ((hostGot' \o wfifo') \o held') = Bytes(written')
    BY <2>1, <2>5, <2>6, <2>9, <2>10, <2>11
  <2> QED
    BY <2>12 DEF Written, held
<1>6. CASE HostTake
  <2>1. /\ hostGot' = Append(hostGot, Head(wfifo)) /\ wfifo' = Tail(wfifo) /\ wfifo # <<>>
        /\ UNCHANGED <<tx_buf, tx_out, tx_in, written>>
    BY <1>6 DEF HostTake
  <2>2. wfifo = <<Head(wfifo)>> \o Tail(wfifo) /\ Head(wfifo) \in Nat /\ Tail(wfifo) \in Seq(Nat)
    <3>1. Head(wfifo) \in Nat /\ Tail(wfifo) \in Seq(Nat) /\ Len(wfifo) = Len(Tail(wfifo)) + 1
      BY <1>1, <2>1, SeqFacts DEF DeviceTypes
    <3>2. \A i \in 1 .. Len(<<Head(wfifo)>>) : wfifo[i] = <<Head(wfifo)>>[i]
      BY <1>1, <2>1 DEF DeviceTypes
    <3>3. \A i \in 1 .. Len(Tail(wfifo)) : wfifo[Len(<<Head(wfifo)>>) + i] = Tail(wfifo)[i]
      BY <1>1, <2>1, HeadTailProperties DEF DeviceTypes
    <3> QED
      BY <1>1, <3>1, <3>2, <3>3, Joined DEF DeviceTypes
  <2>3. hostGot' = hostGot \o <<Head(wfifo)>>
    BY <1>1, <2>1, <2>2, AppendIsConcat DEF HostTypes
  <2>4. (hostGot \o <<Head(wfifo)>>) \o Tail(wfifo) = hostGot \o wfifo
    <3>1. hostGot \in Seq(Nat) /\ <<Head(wfifo)>> \in Seq(Nat) /\ Tail(wfifo) \in Seq(Nat)
      BY <1>1, <2>2 DEF HostTypes
    <3>2. (hostGot \o <<Head(wfifo)>>) \o Tail(wfifo) = hostGot \o (<<Head(wfifo)>> \o Tail(wfifo))
      BY <3>1, Assoc
    <3> QED
      BY <2>2, <3>2
  <2>5. hostGot' \o wfifo' = hostGot \o wfifo
    BY <2>1, <2>3, <2>4
  <2> QED
    BY <1>1, <2>1, <2>5 DEF Written, Ring, Bytes
<1>7. CASE WriteCopy
  <2>1. /\ pc = "copy" /\ UNCHANGED <<hostGot, wfifo, tx_out, tx_in, written>>
        /\ tx_buf' = [i \in Index |-> IF i \in in .. in + n - 1 THEN written + 1 + i - in ELSE tx_buf[i]]
    BY <1>7 DEF WriteCopy
  <2>2. /\ in = tx_in /\ n \in Nat /\ in + n <= BufLen /\ Fill(tx_out, tx_in) + n < BufLen
    BY <1>1, <2>1 DEF WriterHolds, ThreadTypes
  <2>3. tx_buf' \in [Index -> Nat]
    BY RingTypesStep DEF RingTypes
  <2>4. WrittenAt(tx_buf, tx_buf', tx_in, n)
    BY <2>1, <2>2 DEF WrittenAt
  <2>5. Ring(tx_buf', tx_out, tx_in) = held
    <3>1. tx_buf \in [Index -> Nat] /\ tx_out \in Index /\ tx_in \in Index
      BY <1>1 DEF RingTypes
    <3>2. n \in Nat /\ tx_in + n <= BufLen /\ Fill(tx_out, tx_in) + n < BufLen
      BY <2>2
    <3> HIDE DEF held
    <3>3. Ring(tx_buf', tx_out, tx_in) = Ring(tx_buf, tx_out, tx_in)
      BY <2>3, <2>4, <3>1, <3>2, RingExtend
    <3> QED
      BY <3>3 DEF held
  <2>6. held' = Ring(tx_buf', tx_out, tx_in)
    BY <2>1 DEF Ring
  <2> QED
    BY <1>1, <2>1, <2>5, <2>6 DEF Written, Bytes
<1>8. CASE WritePublish
  <2>1. /\ pc = "publish" /\ UNCHANGED <<hostGot, wfifo, tx_out, tx_buf>>
        /\ tx_in' = (in + n) % BufLen /\ written' = written + n
    BY <1>8 DEF WritePublish
  <2>2. /\ in = tx_in /\ n \in Nat /\ in + n <= BufLen /\ Fill(tx_out, tx_in) + n < BufLen
        /\ \A i \in 0 .. n - 1 : tx_buf[in + i] = written + 1 + i
    BY <1>1, <2>1 DEF WriterHolds, ThreadTypes
  <2>3. Ring(tx_buf, tx_out, Past(tx_in, n)) = held \o Run(tx_buf, tx_in, n)
    <3>1. WrittenAt(tx_buf, tx_buf, tx_in, n)
      BY DEF WrittenAt
    <3>2. tx_buf \in [Index -> Nat] /\ tx_out \in Index /\ tx_in \in Index
      BY <1>1 DEF RingTypes
    <3>3. n \in Nat /\ tx_in + n <= BufLen /\ Fill(tx_out, tx_in) + n < BufLen
      BY <2>2
    <3> HIDE DEF held
    <3>4. Ring(tx_buf, tx_out, Past(tx_in, n)) = Ring(tx_buf, tx_out, tx_in) \o Run(tx_buf, tx_in, n)
      BY <3>1, <3>2, <3>3, RingExtend
    <3> QED
      BY <3>4 DEF held
  <2> DEFINE more == [i \in 1 .. n |-> written + i]
  <2>4. Run(tx_buf, tx_in, n) = more
    <3>1. ASSUME NEW i \in 1 .. n
          PROVE  tx_buf[tx_in + i - 1] = written + i
      <4>1. i - 1 \in 0 .. n - 1 /\ in + (i - 1) = tx_in + i - 1 /\ written + 1 + (i - 1) = written + i
        BY <1>1, <1>2, <2>2 DEF RingTypes, HostTypes
      <4> QED
        BY <2>2, <4>1
    <3> QED
      BY <3>1 DEF Run
  <2>5. held' = held \o more
    BY <2>1, <2>2, <2>3, <2>4 DEF Past, Ring
  <2>6. Bytes(written + n) = Bytes(written) \o more
    <3>1. written \in Nat /\ n \in Nat
      BY <1>1, <2>2 DEF HostTypes
    <3> QED
      BY <3>1, MoreBytes
  <2>7. more \in Seq(Nat)
    BY <1>1, <2>2 DEF HostTypes
  <2> HIDE DEF held, more
  <2>8. hostGot \o wfifo \in Seq(Nat)
    BY <1>1, ConcatProperties DEF HostTypes, DeviceTypes
  <2>9. (hostGot \o wfifo) \o (held \o more) = ((hostGot \o wfifo) \o held) \o more
    BY <1>3, <2>7, <2>8, Assoc
  <2>10. (hostGot \o wfifo) \o held = Bytes(written)
    BY <1>1 DEF Written, held
  <2>11. (hostGot' \o wfifo') \o held' = Bytes(written')
    BY <2>1, <2>5, <2>6, <2>9, <2>10
  <2> QED
    BY <2>11 DEF Written, held
<1>9. CASE Write \/ Read \/ Close
  BY <1>4, <1>9 DEF Write, Read, Close, Call
<1>10. CASE Return
  BY <1>4, <1>10 DEF Return, WriteKick, WriteTest, ReadLoad, ReadTest, ReadRearm, CloseWait
<1>11. CASE WriteLoad \/ WriteWait \/ ReadCopy \/ ReadPublish \/ ReadWait
  BY <1>4, <1>11 DEF WriteLoad, WriteWait, ReadCopy, ReadPublish, ReadWait
<1>12. CASE HostSend \/ HostPause \/ Plug
  BY <1>4, <1>12 DEF HostSend, HostPause, Plug
<1>13. CASE Interrupt \/ ReadControl \/ RxByte \/ RxStop \/ RxEnd \/ TxEnd \/ Alarm
  BY <1>4, <1>13 DEF Interrupt, ReadControl, RxByte, RxStop, RxEnd, TxEnd, Alarm
<1> QED
  BY <1>5, <1>6, <1>7, <1>8, <1>9, <1>10, <1>11, <1>12, <1>13 DEF Next, Routine, ThreadStep, Host

LEMMA SentStep == ASSUME IInv, Next PROVE Sent'
<1>1. RingTypes /\ ThreadTypes /\ DeviceTypes /\ HostTypes /\ ReaderHolds /\ Sent
  BY TypeParts DEF IInv
<1> DEFINE held == Ring(rx_buf, rx_out, rx_in)
<1>2. held \in Seq(Nat)
  BY <1>1, RingSeq DEF RingTypes
<1>3. got \in Seq(Nat) /\ rfifo \in Seq(Nat) /\ (got \o held) \o rfifo = Bytes(sent)
  BY <1>1 DEF Sent, HostTypes, DeviceTypes
<1>4. CASE UNCHANGED <<got, rfifo, rx_buf, rx_out, rx_in, sent>>
  BY <1>1, <1>4 DEF Sent, Ring, Bytes
<1>5. CASE RxByte
  <2>1. CASE rfifo = <<>>
    BY <1>4, <1>5, <2>1 DEF RxByte
  <2>2. CASE rfifo # <<>>
    <3> DEFINE byte == Head(rfifo)
    <3>1. /\ rx_buf' = [rx_buf EXCEPT ![rx_in] = byte] /\ rx_in' = Next1(rx_in) /\ Next1(rx_in) # rx_out
          /\ rfifo' = Tail(rfifo) /\ UNCHANGED <<got, rx_out, sent>>
      BY <1>5, <2>2 DEF RxByte, RxFull
    <3>2. rfifo = <<byte>> \o Tail(rfifo) /\ byte \in Nat /\ Tail(rfifo) \in Seq(Nat)
      <4>1. byte \in Nat /\ Tail(rfifo) \in Seq(Nat) /\ Len(rfifo) = Len(Tail(rfifo)) + 1
        BY <1>3, <2>2, SeqFacts
      <4>2. \A i \in 1 .. Len(<<byte>>) : rfifo[i] = <<byte>>[i]
        BY <1>3, <2>2
      <4>3. \A i \in 1 .. Len(Tail(rfifo)) : rfifo[Len(<<byte>>) + i] = Tail(rfifo)[i]
        BY <1>3, <2>2, HeadTailProperties
      <4> QED
        BY <1>3, <4>1, <4>2, <4>3, Joined
    <3>3. held' = Append(held, byte)
      <4>1. Ring([rx_buf EXCEPT ![rx_in] = byte], rx_out, Next1(rx_in)) = Append(held, byte)
        BY <1>1, <3>1, <3>2, RingPut DEF RingTypes
      <4> QED
        BY <3>1, <4>1 DEF Ring
    <3> HIDE DEF held, byte
    <3>4. held' = held \o <<byte>> /\ <<byte>> \in Seq(Nat)
      BY <1>2, <3>2, <3>3, AppendIsConcat
    <3>5. (got \o (held \o <<byte>>)) = (got \o held) \o <<byte>>
      BY <1>2, <1>3, <3>4, Assoc
    <3>6. got \o held \in Seq(Nat)
      BY <1>2, <1>3, ConcatProperties
    <3>7. ((got \o held) \o <<byte>>) \o Tail(rfifo) = (got \o held) \o rfifo
      <4>1. ((got \o held) \o <<byte>>) \o Tail(rfifo) = (got \o held) \o (<<byte>> \o Tail(rfifo))
        BY <3>2, <3>4, <3>6, Assoc
      <4> QED
        BY <3>2, <4>1
    <3>8. (got' \o held') \o rfifo' = Bytes(sent')
      BY <1>3, <3>1, <3>4, <3>5, <3>7
    <3> QED
      BY <3>8 DEF Sent, held
  <2> QED
    BY <2>1, <2>2
<1>6. CASE ReadPublish
  <2>1. /\ pc = "read_publish" /\ rx_out' = (out + n) % BufLen /\ got' = got \o chunk
        /\ UNCHANGED <<rx_in, rx_buf, rfifo, sent>>
    BY <1>6 DEF ReadPublish
  <2>2. /\ out = rx_out /\ n \in Nat /\ out + n <= BufLen /\ n <= Fill(rx_out, rx_in)
        /\ chunk = Run(rx_buf, out, n) /\ chunk \in Seq(Nat)
    BY <1>1, <2>1 DEF ReaderHolds, ThreadTypes
  <2> DEFINE rest == Ring(rx_buf, Past(rx_out, n), rx_in)
  <2>3. held = chunk \o rest /\ Past(rx_out, n) \in Index
    <3>1. rx_buf \in [Index -> Nat] /\ rx_out \in Index /\ rx_in \in Index
      BY <1>1 DEF RingTypes
    <3>2. n \in Nat /\ rx_out + n <= BufLen /\ n <= Fill(rx_out, rx_in)
      BY <2>2
    <3> HIDE DEF held, rest
    <3>3. /\ Ring(rx_buf, rx_out, rx_in) = Run(rx_buf, rx_out, n) \o Ring(rx_buf, Past(rx_out, n), rx_in)
          /\ Past(rx_out, n) \in Index
      BY <3>1, <3>2, RingTake
    <3> QED
      BY <2>2, <3>3 DEF held, rest
  <2>4. rest \in Seq(Nat)
    BY <1>1, <2>3, RingSeq DEF RingTypes
  <2>5. held' = rest
    BY <2>1, <2>2 DEF Ring, Past
  <2> HIDE DEF held, rest
  <2>6. (got \o chunk) \o rest = got \o held
    <3>1. (got \o chunk) \o rest = got \o (chunk \o rest)
      <4>1. got \in Seq(Nat) /\ chunk \in Seq(Nat)
        BY <1>3, <2>2
      <4> QED
        BY <2>4, <4>1, Assoc
    <3> QED
      BY <2>3, <3>1
  <2>7. (got' \o held') \o rfifo' = Bytes(sent')
    BY <1>3, <2>1, <2>5, <2>6
  <2> QED
    BY <2>7 DEF Sent, held
<1>7. CASE HostSend
  <2>1. sent' = sent + 1 /\ rfifo' = Append(rfifo, sent + 1) /\ UNCHANGED <<got, rx_buf, rx_out, rx_in>>
    BY <1>7 DEF HostSend
  <2>2. sent \in Nat
    BY <1>1 DEF HostTypes
  <2> DEFINE more == [i \in 1 .. 1 |-> sent + i]
  <2>3. more = <<sent + 1>> /\ more \in Seq(Nat)
    BY <2>2
  <2>4. Bytes(sent + 1) = Bytes(sent) \o more
    BY <2>2, MoreBytes
  <2>5. held' = held
    BY <2>1 DEF Ring
  <2> HIDE DEF held, more
  <2>6. rfifo' = rfifo \o more
    BY <1>3, <2>1, <2>2, <2>3, AppendIsConcat
  <2>7. got \o held \in Seq(Nat)
    BY <1>2, <1>3, ConcatProperties
  <2>8. (got \o held) \o (rfifo \o more) = ((got \o held) \o rfifo) \o more
    BY <1>3, <2>3, <2>7, Assoc
  <2>9. (got' \o held') \o rfifo' = Bytes(sent')
    BY <1>3, <2>1, <2>4, <2>5, <2>6, <2>8
  <2> QED
    BY <2>9 DEF Sent, held
<1>8. CASE HostPause \/ HostTake \/ Plug
  BY <1>4, <1>8 DEF HostPause, HostTake, Plug
<1>9. CASE Write \/ Read \/ Close
  BY <1>4, <1>9 DEF Write, Read, Close, Call
<1>10. CASE Return
  BY <1>4, <1>10 DEF Return, WriteKick, WriteTest, ReadLoad, ReadTest, ReadRearm, CloseWait
<1>11. CASE WriteLoad \/ WriteCopy \/ WritePublish \/ WriteWait \/ ReadCopy \/ ReadWait
  BY <1>4, <1>11 DEF WriteLoad, WriteCopy, WritePublish, WriteWait, ReadCopy, ReadWait
<1>12. CASE Interrupt \/ ReadControl \/ RxStop \/ RxEnd \/ TxByte \/ TxEnd \/ Alarm
  BY <1>4, <1>12 DEF Interrupt, ReadControl, RxStop, RxEnd, TxByte, TxEnd, Alarm
<1> QED
  BY <1>5, <1>6, <1>7, <1>8, <1>9, <1>10, <1>11, <1>12 DEF Next, Routine, ThreadStep, Host

-----------------------------------------------------------------------------
(* The interrupts. *)

ArmedTx == ~TxEmpty => "WE" \in irq_enable \/ pc \in {"write", "copy", "publish", "kick"}
ArmedRx == "RE" \notin irq_enable =>
              RxFull \/ (pc \in {"read", "read_copy", "read_publish", "rearm"} /\ call.done > 0)

LEMMA ArmedTxStep == ASSUME IInv, Next PROVE ArmedTx'
<1>1. RingTypes /\ RoutineTypes /\ ArmedTx
  BY TypeParts DEF IInv, Armed, ArmedTx
<1>2. CASE UNCHANGED <<tx_in, tx_out, irq_enable, pc>>
  BY <1>1, <1>2 DEF ArmedTx, TxEmpty
<1>3. CASE RxEnd
  BY <1>1, <1>3 DEF RxEnd, ArmedTx, TxEmpty
<1>4. CASE TxByte
  BY <1>1, <1>4 DEF TxByte, ArmedTx, TxEmpty
<1>5. CASE TxEnd
  <2>1. /\ control.space = 0 \/ TxEmpty
        /\ irq_enable' = IF control.space > 0 THEN irq_enable \ {"WE"} ELSE irq_enable
        /\ UNCHANGED <<tx_in, tx_out, pc>>
    BY <1>5 DEF TxEnd
  <2> QED
    BY <1>1, <2>1 DEF ArmedTx, TxEmpty
<1>6. CASE Write \/ Read \/ Close
  <2>1. pc = "idle" /\ UNCHANGED <<tx_in, tx_out, irq_enable>>
    BY <1>6 DEF Write, Read, Close, Call
  <2> QED
    BY <1>1, <2>1 DEF ArmedTx, TxEmpty
<1>7. CASE WriteLoad \/ WriteCopy \/ WritePublish
  <2>1. pc' \in {"write", "copy", "publish", "kick"}
    BY <1>7 DEF WriteLoad, WriteCopy, WritePublish
  <2> QED
    BY <2>1 DEF ArmedTx
<1>8. CASE WriteKick
  BY <1>8 DEF WriteKick, ArmedTx
<1>9. CASE WriteTest \/ ReadLoad \/ ReadTest \/ CloseWait
  <2>1. pc \in {"write_test", "read", "read_test", "close"} /\ UNCHANGED <<tx_in, tx_out, irq_enable>>
    BY <1>9 DEF WriteTest, ReadLoad, ReadTest, CloseWait
  <2> QED
    BY <1>1, <2>1 DEF ArmedTx, TxEmpty
<1>10. CASE ReadRearm
  BY <1>1, <1>10 DEF ReadRearm, ArmedTx, TxEmpty
<1>11. CASE WriteWait \/ ReadCopy \/ ReadPublish \/ ReadWait
  <2>1. /\ pc \in {"write_wait", "read_copy", "read_publish", "read_wait"}
        /\ UNCHANGED <<tx_in, tx_out, irq_enable>>
    BY <1>11 DEF WriteWait, ReadCopy, ReadPublish, ReadWait
  <2> QED
    BY <1>1, <2>1 DEF ArmedTx, TxEmpty
<1>12. CASE Host
  BY <1>2, <1>12 DEF Host, HostSend, HostPause, HostTake, Plug
<1>13. CASE Interrupt \/ ReadControl \/ RxByte \/ RxStop \/ Alarm
  BY <1>2, <1>13 DEF Interrupt, ReadControl, RxByte, RxStop, Alarm
<1> QED
  BY <1>3, <1>4, <1>5, <1>6, <1>7, <1>8, <1>9, <1>10, <1>11, <1>12, <1>13 DEF Next, Routine, ThreadStep, Return

LEMMA ArmedRxStep == ASSUME IInv, Next PROVE ArmedRx'
<1>1. RingTypes /\ RoutineTypes /\ ThreadTypes /\ RoutineHolds /\ ReaderHolds /\ ArmedRx
  BY TypeParts DEF IInv, Armed, ArmedRx
<1>2. CASE UNCHANGED <<rx_in, rx_out, irq_enable, pc, call>>
  BY <1>1, <1>2 DEF ArmedRx, RxFull
<1>3. CASE RxByte
  <2>1. ~RxFull /\ UNCHANGED <<rx_out, irq_enable, pc, call>>
    BY <1>3 DEF RxByte
  <2> QED
    BY <1>1, <2>1 DEF ArmedRx
<1>4. CASE RxEnd
  <2>1. /\ isr = "rx_end" /\ irq_enable' = (IF data THEN irq_enable \ {"RE"} ELSE irq_enable)
        /\ UNCHANGED <<rx_in, rx_out, pc, call>>
    BY <1>4 DEF RxEnd
  <2>2. CASE data
    BY <1>1, <2>1, <2>2 DEF ArmedRx, RxFull, RoutineHolds
  <2>3. CASE ~data
    BY <1>1, <2>1, <2>3 DEF ArmedRx, RxFull
  <2> QED
    BY <2>2, <2>3
<1>5. CASE TxEnd
  BY <1>1, <1>5 DEF TxEnd, ArmedRx, RxFull
<1>6. CASE Write \/ Read \/ Close
  <2>1. pc = "idle" /\ UNCHANGED <<rx_in, rx_out, irq_enable>>
    BY <1>6 DEF Write, Read, Close, Call
  <2> QED
    BY <1>1, <2>1 DEF ArmedRx, RxFull
<1>7. CASE WriteLoad \/ WriteCopy \/ WritePublish \/ WriteWait \/ ReadWait
  <2>1. /\ pc \in {"write", "copy", "publish", "write_wait", "read_wait"}
        /\ UNCHANGED <<rx_in, rx_out, irq_enable>>
    BY <1>7 DEF WriteLoad, WriteCopy, WritePublish, WriteWait, ReadWait
  <2> QED
    BY <1>1, <2>1 DEF ArmedRx, RxFull
<1>8. CASE WriteKick
  BY <1>1, <1>8 DEF WriteKick, ArmedRx, RxFull
<1>9. CASE WriteTest \/ ReadTest \/ CloseWait
  <2>1. pc \in {"write_test", "read_test", "close"} /\ UNCHANGED <<rx_in, rx_out, irq_enable>>
    BY <1>9 DEF WriteTest, ReadTest, CloseWait
  <2> QED
    BY <1>1, <2>1 DEF ArmedRx, RxFull
<1>10. CASE ReadRearm
  BY <1>10 DEF ReadRearm, ArmedRx
<1>11. CASE ReadLoad
  <2>1. SUFFICES ASSUME "RE" \notin irq_enable', ~RxFull' PROVE pc' \in {"read_copy", "rearm"} /\ call'.done > 0
    BY DEF ArmedRx
  <2>2. UNCHANGED <<rx_in, rx_out, irq_enable>> /\ pc = "read"
    BY <1>11 DEF ReadLoad
  <2>3. call.done > 0
    BY <1>1, <2>1, <2>2 DEF ArmedRx, RxFull
  <2>4. call.done # 0 /\ ~(call.done = 0)
    BY <1>1, <2>3 DEF ThreadTypes
  <2>5. pc' \in {"read_copy", "rearm"} /\ UNCHANGED call
    BY <1>11, <2>4 DEF ReadLoad
  <2> QED
    BY <2>3, <2>5
<1>12. CASE ReadCopy
  <2>1. /\ pc = "read_copy" /\ pc' = "read_publish" /\ UNCHANGED <<rx_in, rx_out, irq_enable, call>>
    BY <1>12 DEF ReadCopy
  <2> QED
    BY <1>1, <2>1 DEF ArmedRx, RxFull
<1>13. CASE ReadPublish
  <2>1. pc = "read_publish" /\ pc' \in {"rearm", "read"} /\ call'.done = call.done + n
    BY <1>1, <1>13 DEF ReadPublish, ThreadTypes
  <2>2. call.done \in Nat /\ n \in Nat /\ n > 0
    BY <1>1, <2>1 DEF ReaderHolds, ThreadTypes
  <2> QED
    BY <2>1, <2>2 DEF ArmedRx
<1>14. CASE Host
  BY <1>2, <1>14 DEF Host, HostSend, HostPause, HostTake, Plug
<1>15. CASE Interrupt \/ ReadControl \/ RxStop \/ TxByte \/ Alarm
  BY <1>2, <1>15 DEF Interrupt, ReadControl, RxStop, TxByte, Alarm
<1> QED
  BY <1>3, <1>4, <1>5, <1>6, <1>7, <1>8, <1>9, <1>10, <1>11, <1>12, <1>13, <1>14, <1>15
     DEF Next, Routine, ThreadStep, Return

-----------------------------------------------------------------------------
(* The invariant. *)

LEMMA IInvStep == IInv /\ [Next]_vars => IInv'
<1> SUFFICES ASSUME IInv, [Next]_vars PROVE IInv'
  OBVIOUS
<1>1. CASE Next
  <2>1. TypeOK' /\ WriterHolds' /\ ReaderHolds' /\ Counts' /\ RoutineHolds'
    BY <1>1, TypeStep, WriterStep, ReaderStep, CountsStep, RoutineStep
  <2>2. Written' /\ Sent'
    BY <1>1, WrittenStep, SentStep
  <2>3. Armed'
    BY <1>1, ArmedTxStep, ArmedRxStep DEF Armed, ArmedTx, ArmedRx
  <2> QED
    BY <2>1, <2>2, <2>3 DEF IInv
<1>2. CASE UNCHANGED vars
  <2>1. UNCHANGED <<ring, irq_enable, host_inactive, routine, thread, device, host, written, got>>
    BY <1>2 DEF vars
  <2>2. TypeOK'
    <3>1. RingTypes /\ RoutineTypes /\ ThreadTypes /\ DeviceTypes /\ HostTypes
      BY TypeParts DEF IInv
    <3>2. RingTypes' /\ RoutineTypes'
      BY <2>1, <3>1 DEF RingTypes, RoutineTypes
    <3>3. ThreadTypes' /\ DeviceTypes' /\ HostTypes'
      BY <2>1, <3>1 DEF ThreadTypes, DeviceTypes, HostTypes
    <3> QED
      BY <3>2, <3>3, TypeParts
  <2>3. WriterHolds' /\ ReaderHolds'
    BY <2>1 DEF IInv, WriterHolds, ReaderHolds, Fill, Run
  <2>4. Counts' /\ RoutineHolds'
    BY <2>1 DEF IInv, Counts, Pending, RoutineHolds, RxFull
  <2>5. Written' /\ Sent'
    BY <2>1 DEF IInv, Written, Sent, Ring, Bytes
  <2>6. Armed'
    BY <2>1 DEF IInv, Armed, TxEmpty, RxFull
  <2> QED
    BY <2>2, <2>3, <2>4, <2>5, <2>6 DEF IInv
<1> QED
  BY <1>1, <1>2

(* The thread, which works with offsets it has loaded before, the routine  *)
(* that moves the other ends meanwhile, the device and the host keep the   *)
(* invariant.                                                              *)
THEOREM Invariance == Spec => []IInv
  BY InitIInv, IInvStep, PTL DEF Spec

(* The offsets of altera_avalon_jtag_uart_read.c and _write.c stay inside  *)
(* the rings, no call moves more bytes than it was asked for, and the      *)
(* routine overruns neither FIFO of the device.                            *)
THEOREM TypeCorrect == Spec => []TypeOK
<1>1. IInv => TypeOK
  BY DEF IInv
<1> QED
  BY <1>1, Invariance, PTL

(* What write has accepted reaches the host, and what the host has sent    *)
(* reaches read, once, complete and in order, though the rings are shared  *)
(* between the thread and the interrupt routine without a lock.            *)
THEOREM InOrder == Spec => []BytesInOrder
<1>1. IInv => BytesInOrder
  BY DEF IInv, BytesInOrder, Written, Sent
<1> QED
  BY <1>1, Invariance, PTL

(* Neither interrupt is left disabled while a ring has something for it to *)
(* do, except where the thread is on its way to enable it: what the        *)
(* routine turns off on its own, write and read turn on again.             *)
THEOREM ArmedCorrect == Spec => []Armed
<1>1. IInv => Armed
  BY DEF IInv
<1> QED
  BY <1>1, Invariance, PTL

-----------------------------------------------------------------------------
(* The refinement of ConsoleQueues. *)

(* What the waits rely on: while a write waits, its ring was full at the   *)
(* offsets it loaded, and nobody else moves tx_in; while a read waits, its *)
(* ring was empty, and nobody else moves rx_out.                           *)
WaitHolds ==
    /\ pc \in {"write_wait", "write_test"} \/ (pc = "kick" /\ call.left > 0) => Next1(tx_in) = out
    /\ pc \in {"read_wait", "read_test"} => in = rx_out

(* What the two rings hold, and when they are empty and full. *)
LEMMA QueueFacts ==
    ASSUME IInv
    PROVE  /\ Outq \in Seq(Nat) /\ Len(Outq) = Fill(tx_out, tx_in) /\ Len(Outq) \in 0 .. BufLen - 1
           /\ Inq \in Seq(Nat) /\ Len(Inq) = Fill(rx_out, rx_in) /\ Len(Inq) \in 0 .. BufLen - 1
           /\ Outq = <<>> <=> TxEmpty
           /\ Inq = <<>> <=> rx_in = rx_out
           /\ Len(Outq) = BufLen - 1 <=> Next1(tx_in) = tx_out
           /\ Len(Inq) = BufLen - 1 <=> RxFull
           /\ WriteSpace = 0 <=> Next1(tx_in) = tx_out
<1>1. RingTypes
  BY TypeParts DEF IInv
<1>2. /\ tx_in \in 0 .. BufLen - 1 /\ tx_out \in 0 .. BufLen - 1
      /\ rx_in \in 0 .. BufLen - 1 /\ rx_out \in 0 .. BufLen - 1
      /\ BufLen \in Nat /\ BufLen > 1
  BY <1>1, ConstantsAssumption DEF RingTypes, Index
<1>3. /\ Outq \in Seq(Nat) /\ Len(Outq) = Fill(tx_out, tx_in)
      /\ Inq \in Seq(Nat) /\ Len(Inq) = Fill(rx_out, rx_in)
  BY <1>1, RingSeq DEF RingTypes, Outq, Inq
<1>4. /\ Fill(tx_out, tx_in) = (IF tx_out <= tx_in THEN tx_in - tx_out ELSE tx_in - tx_out + BufLen)
      /\ Fill(rx_out, rx_in) = (IF rx_out <= rx_in THEN rx_in - rx_out ELSE rx_in - rx_out + BufLen)
  BY <1>1, FillValue DEF RingTypes
<1>5. /\ Next1(tx_in) = (IF tx_in = BufLen - 1 THEN 0 ELSE tx_in + 1)
      /\ Next1(rx_in) = (IF rx_in = BufLen - 1 THEN 0 ELSE rx_in + 1)
  BY <1>1, NextOffset DEF RingTypes
<1>6. (Outq = <<>> <=> Len(Outq) = 0) /\ (Inq = <<>> <=> Len(Inq) = 0)
  BY <1>3, EmptySeq
<1>7. Outq = <<>> <=> TxEmpty
  BY <1>2, <1>3, <1>4, <1>6 DEF TxEmpty
<1>8. Inq = <<>> <=> rx_in = rx_out
  BY <1>2, <1>3, <1>4, <1>6
<1>9. Len(Outq) = BufLen - 1 <=> Next1(tx_in) = tx_out
  BY <1>2, <1>3, <1>4, <1>5
<1>10. Len(Inq) = BufLen - 1 <=> RxFull
  BY <1>2, <1>3, <1>4, <1>5 DEF RxFull
<1>11. WriteSpace = 0 <=> Next1(tx_in) = tx_out
  BY <1>2, <1>5 DEF WriteSpace
<1>12. Len(Outq) \in 0 .. BufLen - 1 /\ Len(Inq) \in 0 .. BufLen - 1
  BY <1>2, <1>3, <1>4
<1> QED
  BY <1>3, <1>7, <1>8, <1>9, <1>10, <1>11, <1>12

LEMMA WaitStep == ASSUME IInv, WaitHolds, Next PROVE WaitHolds'
<1>1. RingTypes /\ ThreadTypes
  BY TypeParts DEF IInv
<1>2. CASE UNCHANGED <<pc, call, in, out, tx_in, rx_out>>
  BY <1>2 DEF WaitHolds, Next1
<1>3. CASE Write \/ Read \/ Close
  <2>1. pc' \in {"write", "read", "close"}
    BY <1>3 DEF Write, Read, Close, Call
  <2> QED
    BY <2>1 DEF WaitHolds
<1>4. CASE WriteLoad
  <2>1. CASE call.left = 0
    <3>1. pc' = "kick" /\ call'.left = 0
      BY <1>4, <2>1 DEF WriteLoad
    <3> QED
      BY <3>1 DEF WaitHolds
  <2>2. CASE call.left # 0
    <3>1. /\ out' = tx_out /\ tx_in' = tx_in
          /\ pc' = IF WriteSpace = 0 THEN "kick" ELSE "copy"
      BY <1>4, <2>2 DEF WriteLoad
    <3>2. pc' = "copy" \/ (pc' = "kick" /\ Next1(tx_in) = tx_out)
      BY QueueFacts, <3>1
    <3> QED
      BY <3>1, <3>2 DEF WaitHolds, Next1
  <2> QED
    BY <2>1, <2>2
<1>5. CASE WriteCopy \/ WritePublish \/ ReadCopy \/ ReadPublish
  <2>1. pc' \in {"publish", "write", "read_publish", "rearm", "read"}
    BY <1>5 DEF WriteCopy, WritePublish, ReadCopy, ReadPublish
  <2> QED
    BY <2>1 DEF WaitHolds
<1>6. CASE WriteKick
  <2>1. pc = "kick" /\ (pc' = "idle" \/ (pc' = "write_wait" /\ call.left # 0)) /\ UNCHANGED tx_in
    BY <1>6 DEF WriteKick
  <2>2. pc' = "write_wait" => UNCHANGED out
    BY <1>6 DEF WriteKick
  <2>3. call.left \in Nat
    BY <1>1 DEF ThreadTypes
  <2>4. call.left # 0 => call.left > 0
    BY ONLY <2>3
  <2> QED
    BY <2>1, <2>2, <2>4 DEF WaitHolds, Next1
<1>7. CASE WriteWait
  BY <1>7 DEF WriteWait, WaitHolds, Next1
<1>8. CASE ReadWait
  BY <1>8 DEF ReadWait, WaitHolds
<1>9. CASE WriteTest \/ ReadTest \/ ReadRearm \/ CloseWait
  <2>1. pc' \in {"idle", "write", "read"}
    BY <1>9 DEF WriteTest, ReadTest, ReadRearm, CloseWait
  <2> QED
    BY <2>1 DEF WaitHolds
<1>10. CASE ReadLoad
  <2>1. pc' \in {"read_copy", "rearm", "idle", "read_wait"} /\ UNCHANGED rx_out
    BY <1>10 DEF ReadLoad
  <2>2. pc' = "read_wait" => rx_in = rx_out /\ in' = rx_in
    <3>1. SUFFICES ASSUME pc' = "read_wait" PROVE rx_in = rx_out /\ in' = rx_in
      OBVIOUS
    <3>2. (IF rx_in >= rx_out THEN rx_in - rx_out ELSE BufLen - rx_out) = 0 /\ in' = rx_in
      BY <1>10, <3>1 DEF ReadLoad
    <3>3. rx_in \in 0 .. BufLen - 1 /\ rx_out \in 0 .. BufLen - 1 /\ BufLen \in Nat
      BY <1>1, ConstantsAssumption DEF RingTypes, Index
    <3> QED
      BY ONLY <3>2, <3>3
  <2> QED
    BY <2>1, <2>2 DEF WaitHolds
<1>11. CASE Host
  BY <1>2, <1>11 DEF Host, HostSend, HostPause, HostTake, Plug
<1>12. CASE Routine \/ Alarm
  BY <1>2, <1>12 DEF Routine, Interrupt, ReadControl, RxByte, RxStop, RxEnd, TxByte, TxEnd, Alarm
<1> QED
  BY <1>3, <1>4, <1>5, <1>6, <1>7, <1>8, <1>9, <1>10, <1>11, <1>12 DEF Next, ThreadStep, Return

(* A ring whose offsets and bytes stay holds the same. *)
LEMMA SameOut == ASSUME UNCHANGED <<tx_in, tx_out, tx_buf>> PROVE Outq' = Outq
  BY DEF Outq, Ring

LEMMA SameIn == ASSUME UNCHANGED <<rx_in, rx_out, rx_buf>> PROVE Inq' = Inq
  BY DEF Inq, Ring

(* So do the call and what it has concluded, while the thread stands still. *)
LEMMA SameCall ==
    ASSUME UNCHANGED <<pc, call, in, out, tx_out, rx_in>>
    PROVE  Op' = Op /\ Phase' = Phase /\ call' = call
  BY DEF Op, Phase, Short, Waits, Tests, Unmoved

LEMMA SameSilent == ASSUME UNCHANGED host_inactive PROVE Silent' = Silent
  BY DEF Silent, Active

-----------------------------------------------------------------------------
(* Every step of the console is a step of the two queues, or none. *)

LEMMA CallSteps == ASSUME IInv, Write \/ Read \/ Close PROVE Queues!Next
<1>1. /\ UNCHANGED <<ring, host_inactive, device, host, written, got>> /\ pc = "idle"
      /\ call'.done = 0 /\ call'.nonblock \in BOOLEAN
  BY DEF Write, Read, Close, Call
<1>2. /\ UNCHANGED <<Outq, wfifo, hostGot, rfifo, Inq, got, written, sent, Silent>>
  BY <1>1, SameOut, SameIn, SameSilent
<1>3. Op = "none" /\ Phase = "working"
  BY <1>1 DEF Op, Phase, Short, Waits, Tests
<1>4. CASE Write
  <2>1. PICK k \in 1 .. MaxRequest : Call("write", k)
    BY <1>4 DEF Write
  <2>2. pc' = "write" /\ call'.left = k
    BY <2>1 DEF Call
  <2>3. Op' = "write" /\ Phase' = "working"
    BY <2>2 DEF Op, Phase, Short, Waits, Tests
  <2>4. Queues!Begin("write", k)
    BY <1>1, <1>2, <1>3, <2>2, <2>3 DEF Queues!Begin, Queues!bytes
  <2> QED
    BY <2>4 DEF Queues!Next, Queues!Write
<1>5. CASE Read
  <2>1. PICK k \in 1 .. MaxRequest : Call("read", k)
    BY <1>5 DEF Read
  <2>2. pc' = "read" /\ call'.left = k
    BY <2>1 DEF Call
  <2>3. Op' = "read" /\ Phase' = "working"
    BY <2>2 DEF Op, Phase, Short, Waits, Tests
  <2>4. Queues!Begin("read", k)
    BY <1>1, <1>2, <1>3, <2>2, <2>3 DEF Queues!Begin, Queues!bytes
  <2> QED
    BY <2>4 DEF Queues!Next, Queues!Read
<1>6. CASE Close
  <2>2. pc' = "close" /\ call'.left = 0
    BY <1>6 DEF Close, Call
  <2>3. Op' = "close" /\ Phase' = "working"
    BY <2>2 DEF Op, Phase, Short, Waits, Tests
  <2>4. Queues!Begin("close", 0)
    BY <1>1, <1>2, <1>3, <2>2, <2>3 DEF Queues!Begin, Queues!bytes
  <2> QED
    BY <2>4 DEF Queues!Next, Queues!Close
<1> QED
  BY <1>4, <1>5, <1>6

(* Looking at the offsets: a step only if the call finds its buffer full or empty. *)
LEMMA LoadStep == ASSUME IInv, WaitHolds, WriteLoad \/ ReadLoad PROVE [Queues!Next]_Queues!vars
<1>1. /\ UNCHANGED <<ring, host_inactive, device, host, written, got>>
  BY DEF WriteLoad, ReadLoad
<1>2. /\ UNCHANGED <<Outq, wfifo, hostGot, rfifo, Inq, got, written, sent, Silent>>
  BY <1>1, SameOut, SameIn, SameSilent
<1>3. /\ UNCHANGED <<Outq, wfifo, hostGot, rfifo, Inq, got, written, sent, Silent, Op, call, Phase>>
      => UNCHANGED Queues!vars
  BY DEF Queues!vars, Queues!bytes, Queues!call
<1>4. call.left \in Nat /\ call.done \in Nat /\ call.nonblock \in BOOLEAN
  BY TypeParts DEF IInv, ThreadTypes
<1>5. CASE WriteLoad
  <2>1. pc = "write" /\ call' = call /\ Op = "write" /\ Phase = "working"
    BY <1>5 DEF WriteLoad, Op, Phase, Short, Waits, Tests
  <2>2. CASE call.left = 0
    <3>1. pc' = "kick" /\ call'.left = 0
      BY <1>5, <2>1, <2>2 DEF WriteLoad
    <3>2. Op' = "write" /\ Phase' = "working"
      BY <3>1 DEF Op, Phase, Short, Waits, Tests
    <3> QED
      BY <1>2, <1>3, <2>1, <3>2
  <2>3. CASE call.left # 0 /\ WriteSpace # 0
    <3>1. pc' = "copy"
      BY <1>5, <2>3 DEF WriteLoad
    <3>2. Op' = "write" /\ Phase' = "working"
      BY <3>1 DEF Op, Phase, Short, Waits, Tests
    <3> QED
      BY <1>2, <1>3, <2>1, <3>2
  <2>4. CASE call.left # 0 /\ WriteSpace = 0
    <3>1. pc' = "kick" /\ out' = tx_out /\ tx_out' = tx_out
      BY <1>1, <1>5, <2>4 DEF WriteLoad
    <3>2. call.left > 0 /\ call'.left > 0 /\ call'.nonblock = call.nonblock
      BY <1>4, <2>1, <2>4
    <3>3. Op' = "write" /\ Phase' = IF call.nonblock THEN "short" ELSE "waiting"
      BY <3>1, <3>2 DEF Op, Phase, Short, Waits, Tests, Unmoved
    <3>4. Len(Outq) = BufLen - 1
      BY <2>4, QueueFacts
    <3>5. Queues!Stuck /\ (Queues!MayBeShort <=> call.nonblock)
      BY <2>1, <3>2, <3>4 DEF Queues!Stuck, Queues!MayBeShort
    <3>6. Queues!Block
      BY <1>2, <2>1, <3>3, <3>5 DEF Queues!Block, Queues!bytes
    <3> QED
      BY <3>6 DEF Queues!Next
  <2> QED
    BY <2>2, <2>3, <2>4
<1>6. CASE ReadLoad
  <2>1. pc = "read" /\ Op = "read" /\ Phase = "working"
    BY <1>6 DEF ReadLoad, Op, Phase, Short, Waits, Tests
  <2>2. call.left > 0
    BY <2>1 DEF IInv, Counts
  <2> DEFINE there == IF rx_in >= rx_out THEN rx_in - rx_out ELSE BufLen - rx_out
  <2>3. there = 0 => Inq = <<>>
    <3>1. rx_in \in 0 .. BufLen - 1 /\ rx_out \in 0 .. BufLen - 1 /\ BufLen \in Nat
      BY TypeParts, ConstantsAssumption DEF IInv, RingTypes, Index
    <3>2. there = 0 => rx_in = rx_out
      BY ONLY <3>1
    <3> QED
      BY <3>2, QueueFacts
  <2>4. there = 0 => Queues!Stuck
    BY <2>1, <2>2, <2>3 DEF Queues!Stuck
  <2>5. Queues!MayBeShort <=> (call.nonblock \/ call.done > 0)
    BY <2>1 DEF Queues!MayBeShort
  <2>6. CASE there > 0 /\ pc' = "read_copy" /\ UNCHANGED call
    <3>1. Op' = "read" /\ Phase' = "working"
      BY <2>6 DEF Op, Phase, Short, Waits, Tests
    <3> QED
      BY <1>2, <1>3, <2>1, <2>6, <3>1
  <2>7. CASE there = 0 /\ call.done > 0 /\ Go("rearm")
    <3>1. Op' = "read" /\ Phase' = "short" /\ call' = call
      BY <2>2, <2>7 DEF Op, Phase, Short
    <3>2. Queues!Block
      BY <1>2, <2>1, <2>4, <2>5, <2>7, <3>1 DEF Queues!Block, Queues!bytes
    <3> QED
      BY <3>2 DEF Queues!Next
  <2>8. CASE there = 0 /\ call.done = 0 /\ call.nonblock /\ Leave
    <3>1. /\ Op' = "none" /\ Phase' = "working"
          /\ call'.left = 0 /\ call'.done = 0 /\ call'.nonblock = FALSE
      BY <2>8 DEF Op, Phase, Short, Waits, Tests
    <3>2. Queues!Return
      BY <1>2, <2>4, <2>5, <2>8, <3>1 DEF Queues!Return, Queues!bytes
    <3> QED
      BY <3>2 DEF Queues!Next
  <2>9. CASE /\ there = 0 /\ call.done = 0 /\ ~call.nonblock
             /\ in' = rx_in /\ pc' = "read_wait" /\ UNCHANGED call
    <3>1. Op' = "read" /\ Phase' = "waiting"
      BY <1>1, <2>9 DEF Op, Phase, Short, Waits, Unmoved
    <3>2. ~Queues!MayBeShort
      BY <2>5, <2>9
    <3>3. Queues!Block
      BY <1>2, <2>1, <2>4, <2>9, <3>1, <3>2 DEF Queues!Block, Queues!bytes
    <3> QED
      BY <3>3 DEF Queues!Next
  <2> QED
    BY <1>6, <2>6, <2>7, <2>8, <2>9 DEF ReadLoad
<1> QED
  BY <1>5, <1>6

(* Bytes copied behind tx_in are not yet in the buffer, those copied out still are. *)
LEMMA CopyStep == ASSUME IInv, WriteCopy \/ ReadCopy PROVE UNCHANGED Queues!vars
<1>1. UNCHANGED <<wfifo, hostGot, rfifo, got, written, sent, host_inactive, call>>
  BY DEF WriteCopy, ReadCopy
<1>2. Outq' = Outq
  <2>1. CASE ReadCopy
    BY <2>1, SameOut DEF ReadCopy
  <2>2. CASE WriteCopy
    <3>1. /\ pc = "copy" /\ UNCHANGED <<tx_out, tx_in>>
          /\ tx_buf' = [i \in Index |-> IF i \in in .. in + n - 1 THEN written + 1 + i - in ELSE tx_buf[i]]
      BY <2>2 DEF WriteCopy
    <3>2. RingTypes /\ ThreadTypes /\ WriterHolds
      BY TypeParts DEF IInv
    <3>3. /\ in = tx_in /\ n \in Nat /\ tx_in + n <= BufLen /\ Fill(tx_out, tx_in) + n < BufLen
      BY <3>1, <3>2 DEF WriterHolds, ThreadTypes
    <3>4. tx_buf' \in [Index -> Nat]
      BY <2>2, RingTypesStep DEF RingTypes, Next, ThreadStep
    <3>5. WrittenAt(tx_buf, tx_buf', tx_in, n)
      BY <3>1, <3>3 DEF WrittenAt
    <3>6. tx_buf \in [Index -> Nat] /\ tx_out \in Index /\ tx_in \in Index
      BY <3>2 DEF RingTypes
    <3>7. Ring(tx_buf', tx_out, tx_in) = Ring(tx_buf, tx_out, tx_in)
      BY <3>3, <3>4, <3>5, <3>6, RingExtend
    <3> QED
      BY <3>1, <3>7 DEF Outq, Ring
  <2> QED
    BY <2>1, <2>2
<1>3. Inq' = Inq
  BY SameIn DEF WriteCopy, ReadCopy
<1>4. Op' = Op /\ Phase' = Phase
  <2>1. (pc = "copy" /\ pc' = "publish") \/ (pc = "read_copy" /\ pc' = "read_publish")
    BY DEF WriteCopy, ReadCopy
  <2> QED
    BY <2>1 DEF Op, Phase, Short, Waits, Tests
<1> QED
  BY <1>1, <1>2, <1>3, <1>4, SameSilent DEF Queues!vars, Queues!bytes, Queues!call

(* A sequence of two parts, cut where the first one ends. *)
LEMMA SplitAt ==
    ASSUME NEW s \in Seq(Nat), NEW t \in Seq(Nat), NEW k \in Nat, Len(s) = k
    PROVE  SubSeq(s \o t, 1, k) = s /\ SubSeq(s \o t, k + 1, Len(s \o t)) = t
<1>0. s \o t \in Seq(Nat) /\ Len(s \o t) = Len(s) + Len(t)
  BY ConcatProperties
<1>1. s \o t \in Seq(Nat) /\ Len(s \o t) = k + Len(t) /\ Len(t) \in Nat
  BY <1>0
<1>2. \A i \in 1 .. k + Len(t) : (s \o t)[i] = IF i <= k THEN s[i] ELSE t[i - k]
  BY ConcatProperties
<1> DEFINE r == s \o t
           l == Len(t)
<1>3. r \in Seq(Nat) /\ Len(r) = k + l /\ l \in Nat /\ \A i \in 1 .. k + l : r[i] = IF i <= k THEN s[i] ELSE t[i - k]
  BY <1>1, <1>2
<1>4. l = Len(t)
  OBVIOUS
<1> HIDE DEF r, l
<1>5. /\ SubSeq(r, 1, k) \in Seq(Nat) /\ Len(SubSeq(r, 1, k)) = k
      /\ \A i \in 1 .. k : SubSeq(r, 1, k)[i] = r[1 + i - 1]
  <2>1. 1 \in 1 .. Len(r) + 1 /\ k \in 0 .. Len(r) /\ (1 <= k => k - 1 + 1 = k)
    BY <1>3
  <2>2. \A i \in 1 .. k : r[i] \in Nat
    BY <1>3
  <2>3. SubSeq(r, 1, k) = [i \in 1 .. k |-> r[i]]
    BY <1>3
  <2> QED
    BY <2>2, <2>3
<1>6. \A i \in 1 .. k : SubSeq(r, 1, k)[i] = s[i]
  <2> TAKE i \in 1 .. k
  <2>1. 1 + i - 1 = i /\ i \in 1 .. k + l /\ i <= k
    BY <1>3
  <2> QED
    BY <1>3, <1>5, <2>1
<1>7. SubSeq(r, 1, k) = s
  BY <1>5, <1>6, SeqEqual
<1>8. /\ SubSeq(r, k + 1, k + l) \in Seq(Nat) /\ Len(SubSeq(r, k + 1, k + l)) = l
      /\ \A i \in 1 .. l : SubSeq(r, k + 1, k + l)[i] = r[k + i]
  BY <1>3
<1>9. \A i \in 1 .. l : SubSeq(r, k + 1, k + l)[i] = t[i]
  <2> TAKE i \in 1 .. l
  <2>1. (k + i) - k = i /\ k + i \in 1 .. k + l /\ ~(k + i <= k)
    BY <1>3
  <2> QED
    BY <1>3, <1>8, <2>1
<1>10. SubSeq(r, k + 1, k + l) = t
  BY <1>4, <1>8, <1>9, SeqEqual
<1> QED
  BY <1>3, <1>7, <1>10 DEF r

(* A sequence of one byte and the others. *)
LEMMA FrontAndRest ==
    ASSUME NEW v \in Nat, NEW t \in Seq(Nat)
    PROVE  Head(<<v>> \o t) = v /\ Tail(<<v>> \o t) = t
<1> DEFINE r == <<v>> \o t
<1>1. <<v>> \in Seq(Nat) /\ Len(<<v>>) = 1 /\ <<v>>[1] = v /\ Len(t) \in Nat
  OBVIOUS
<1>2. r \in Seq(Nat) /\ Len(r) = 1 + Len(t) /\ r[1] = v /\ \A i \in 1 .. Len(t) : r[i + 1] = t[i]
  <2>1. /\ r \in Seq(Nat) /\ Len(r) = 1 + Len(t)
        /\ \A i \in 1 .. 1 + Len(t) : r[i] = IF i <= 1 THEN <<v>>[i] ELSE t[i - 1]
    BY <1>1, ConcatProperties
  <2> HIDE DEF r
  <2>2. ASSUME NEW i \in 1 .. Len(t)
        PROVE  r[i + 1] = t[i]
    <3>1. i + 1 \in 1 .. 1 + Len(t) /\ ~(i + 1 <= 1) /\ (i + 1) - 1 = i
      BY <1>1
    <3> QED
      BY <2>1, <3>1
  <2>3. 1 \in 1 .. 1 + Len(t)
    BY <1>1
  <2> QED
    BY <1>1, <2>1, <2>2, <2>3
<1> HIDE DEF r
<1>3. Head(r) = v /\ Tail(r) \in Seq(Nat) /\ Len(Tail(r)) = Len(t) /\ \A i \in 1 .. Len(t) : Tail(r)[i] = t[i]
  <2>1. r # <<>>
    BY <1>1, <1>2
  <2>2. /\ Head(r) = r[1] /\ Tail(r) \in Seq(Nat) /\ Len(Tail(r)) = Len(r) - 1
        /\ \A i \in 1 .. Len(Tail(r)) : Tail(r)[i] = r[i + 1]
    BY <1>2, <2>1, HeadTailProperties
  <2>3. Len(Tail(r)) = Len(t)
    BY <1>1, <1>2, <2>2
  <2> QED
    BY <1>2, <2>2, <2>3
<1>4. Tail(r) = t
  BY <1>3, SeqEqual
<1> QED
  BY <1>3, <1>4 DEF r

(* The new offset puts all of them there, or takes them away, at once. *)
LEMMA PublishStep == ASSUME IInv, WritePublish \/ ReadPublish PROVE Queues!Next
<1>1. RingTypes /\ ThreadTypes /\ HostTypes /\ WriterHolds /\ ReaderHolds
  BY TypeParts DEF IInv
<1>2. UNCHANGED <<wfifo, hostGot, rfifo, sent, Silent>>
  BY SameSilent DEF WritePublish, ReadPublish
<1>3. call.left \in Nat /\ call.done \in Nat /\ MaxRequest \in Nat /\ call.left <= MaxRequest
  BY <1>1, ConstantsAssumption DEF ThreadTypes
<1>4. /\ call'.left = call.left - n /\ call'.done = call.done + n
      /\ call'.nonblock = call.nonblock
  BY <1>1 DEF WritePublish, ReadPublish, ThreadTypes
<1>5. CASE WritePublish
  <2>1. /\ pc = "publish" /\ pc' = "write" /\ UNCHANGED <<tx_out, tx_buf, Inq, got>>
        /\ tx_in' = (in + n) % BufLen /\ written' = written + n
    BY <1>5, SameIn DEF WritePublish
  <2>2. /\ in = tx_in /\ n \in Nat /\ n > 0 /\ n <= call.left
        /\ tx_in + n <= BufLen /\ Fill(tx_out, tx_in) + n < BufLen
        /\ \A i \in 0 .. n - 1 : tx_buf[in + i] = written + 1 + i
    BY <1>1, <2>1 DEF WriterHolds, ThreadTypes
  <2>3. Ring(tx_buf, tx_out, Past(tx_in, n)) = Outq \o Run(tx_buf, tx_in, n)
    <3>1. WrittenAt(tx_buf, tx_buf, tx_in, n)
      BY DEF WrittenAt
    <3>2. tx_buf \in [Index -> Nat] /\ tx_out \in Index /\ tx_in \in Index
      BY <1>1 DEF RingTypes
    <3>3. n \in Nat /\ tx_in + n <= BufLen /\ Fill(tx_out, tx_in) + n < BufLen
      BY <2>2
    <3>4. Ring(tx_buf, tx_out, Past(tx_in, n)) = Ring(tx_buf, tx_out, tx_in) \o Run(tx_buf, tx_in, n)
      BY <3>1, <3>2, <3>3, RingExtend
    <3> QED
      BY <3>4 DEF Outq
  <2>4. Run(tx_buf, tx_in, n) = [i \in 1 .. n |-> written + i]
    <3>1. tx_in \in Nat /\ written \in Nat
      BY <1>1 DEF RingTypes, HostTypes, Index
    <3>2. ASSUME NEW i \in 1 .. n
          PROVE  tx_buf[tx_in + i - 1] = written + i
      <4>1. i - 1 \in 0 .. n - 1 /\ in + (i - 1) = tx_in + i - 1 /\ written + 1 + (i - 1) = written + i
        BY <2>2, <3>1
      <4> QED
        BY <2>2, <4>1
    <3> QED
      BY <3>2 DEF Run
  <2>5. Outq' = Outq \o [i \in 1 .. n |-> written + i]
    BY <2>1, <2>2, <2>3, <2>4 DEF Past, Ring, Outq
  <2>6. Len(Outq) + n <= BufLen - 1
    <3>1. Len(Outq) = Fill(tx_out, tx_in) /\ Len(Outq) \in Nat /\ BufLen \in Nat
      BY QueueFacts, ConstantsAssumption
    <3> QED
      BY <2>2, <3>1
  <2>7. Op = "write" /\ Phase = "working" /\ Op' = "write" /\ Phase' = "working"
    BY <2>1 DEF Op, Phase, Short, Waits, Tests
  <2>8. n \in 1 .. MaxRequest
    BY <1>3, <2>2
  <2>9. Queues!Accept(n)
    BY <1>2, <1>4, <2>1, <2>2, <2>5, <2>6, <2>7 DEF Queues!Accept
  <2> QED
    BY <2>8, <2>9 DEF Queues!Next
<1>6. CASE ReadPublish
  <2>1. /\ pc = "read_publish" /\ pc' = (IF call.left = n THEN "rearm" ELSE "read")
        /\ UNCHANGED <<rx_in, rx_buf, Outq, written>>
        /\ rx_out' = (out + n) % BufLen /\ got' = got \o chunk
    BY <1>6, SameOut DEF ReadPublish
  <2>2. /\ out = rx_out /\ n \in Nat /\ n > 0 /\ n <= call.left
        /\ rx_out + n <= BufLen /\ n <= Fill(rx_out, rx_in)
        /\ chunk = Run(rx_buf, out, n) /\ chunk \in Seq(Nat)
    BY <1>1, <2>1 DEF ReaderHolds, ThreadTypes
  <2>3. Inq = chunk \o Inq' /\ Inq' \in Seq(Nat) /\ Len(chunk) = n
    <3>1. rx_buf \in [Index -> Nat] /\ rx_out \in Index /\ rx_in \in Index
      BY <1>1 DEF RingTypes
    <3>2. n \in Nat /\ rx_out + n <= BufLen /\ n <= Fill(rx_out, rx_in)
      BY <2>2
    <3>3. /\ Ring(rx_buf, rx_out, rx_in) = Run(rx_buf, rx_out, n) \o Ring(rx_buf, Past(rx_out, n), rx_in)
          /\ Past(rx_out, n) \in Index
      BY <3>1, <3>2, RingTake
    <3>4. Inq' = Ring(rx_buf, Past(rx_out, n), rx_in)
      BY <2>1, <2>2 DEF Past, Ring, Inq
    <3>5. Len(chunk) = n
      BY <2>2 DEF Run
    <3> QED
      BY <2>2, <3>1, <3>3, <3>4, <3>5, RingSeq DEF Inq
  <2>4. SubSeq(Inq, 1, n) = chunk /\ SubSeq(Inq, n + 1, Len(Inq)) = Inq'
    BY <2>2, <2>3, SplitAt
  <2>5. n <= Len(Inq)
    BY <2>2, QueueFacts
  <2>6. call'.left = 0 \/ pc' = "read"
    BY <1>3, <1>4, <2>1, <2>2
  <2>7. Op = "read" /\ Phase = "working" /\ Op' = "read" /\ Phase' = "working"
    BY <2>1, <2>6 DEF Op, Phase, Short, Waits, Tests
  <2>8. n \in 1 .. MaxRequest
    BY <1>3, <2>2
  <2>9. Queues!Deliver(n)
    BY <1>2, <1>4, <2>1, <2>2, <2>4, <2>5, <2>7 DEF Queues!Deliver
  <2> QED
    BY <2>8, <2>9 DEF Queues!Next
<1> QED
  BY <1>5, <1>6

(* A write that is done, or may be short, comes back; otherwise it goes on to wait. *)
LEMMA KickStep == ASSUME IInv, WriteKick PROVE [Queues!Next]_Queues!vars
<1>1. /\ UNCHANGED <<Outq, wfifo, hostGot, rfifo, Inq, got, written, sent, Silent>> /\ pc = "kick"
      /\ UNCHANGED <<tx_out, rx_in>>
  BY SameOut, SameIn, SameSilent DEF WriteKick
<1>2. call.left \in Nat /\ call.nonblock \in BOOLEAN
  BY TypeParts DEF IInv, ThreadTypes
<1>3. Op = "write"
  BY <1>1 DEF Op
<1>4. CASE call.left = 0 \/ call.nonblock
  <2>1. pc' = "idle" /\ call'.left = 0 /\ call'.done = 0 /\ call'.nonblock = FALSE
    BY <1>4 DEF WriteKick
  <2>2. Op' = "none" /\ Phase' = "working"
    BY <2>1 DEF Op, Phase, Short, Waits, Tests
  <2>3. call.left = 0 \/ Phase = "short"
    <3>1. call.left = 0 \/ call.left > 0
      BY <1>2
    <3> QED
      BY <1>1, <1>4, <3>1 DEF Phase, Short
  <2>4. Queues!Return
    BY <1>1, <1>3, <2>1, <2>2, <2>3 DEF Queues!Return, Queues!bytes
  <2> QED
    BY <2>4 DEF Queues!Next
<1>5. CASE ~(call.left = 0 \/ call.nonblock)
  <2>1. pc' = "write_wait" /\ UNCHANGED <<call, out, in>>
    BY <1>5 DEF WriteKick
  <2>2. call.left > 0 /\ ~call.nonblock
    BY <1>2, <1>5
  <2>3. Op' = Op /\ Phase' = Phase
    BY <1>1, <2>1, <2>2 DEF Op, Phase, Short, Waits, Tests, Unmoved
  <2> QED
    BY <1>1, <2>1, <2>3 DEF Queues!vars, Queues!bytes, Queues!call
<1> QED
  BY <1>4, <1>5

(* A wait ends because a byte has moved, or because the host is silent. *)
LEMMA WaitingStep == ASSUME IInv, WriteWait \/ ReadWait PROVE [Queues!Next]_Queues!vars
<1>1. /\ UNCHANGED <<Outq, wfifo, hostGot, rfifo, Inq, got, written, sent, Silent, call>>
      /\ UNCHANGED <<tx_out, rx_in, in, out>>
  BY SameOut, SameIn, SameSilent DEF WriteWait, ReadWait
<1>2. \/ pc = "write_wait" /\ pc' = "write_test" /\ (out # tx_out \/ Silent)
      \/ pc = "read_wait" /\ pc' = "read_test" /\ (in # rx_in \/ Silent)
  BY DEF WriteWait, ReadWait, Silent
<1>3. Op' = Op
  BY <1>2 DEF Op
<1>4. Unmoved' <=> Unmoved
  BY <1>1, <1>3 DEF Unmoved
<1>5. CASE Unmoved
  <2>1. Silent
    BY <1>2, <1>5 DEF Unmoved, Op
  <2>2. Phase = "waiting" /\ Phase' = "hopeless"
    BY <1>2, <1>4, <1>5 DEF Phase, Short, Waits, Tests
  <2>3. Queues!GiveUp
    BY <1>1, <1>3, <2>1, <2>2 DEF Queues!GiveUp, Queues!bytes
  <2> QED
    BY <2>3 DEF Queues!Next
<1>6. CASE ~Unmoved
  <2>1. Phase = "working" /\ Phase' = "working"
    BY <1>2, <1>4, <1>6 DEF Phase, Short, Waits, Tests
  <2> QED
    BY <1>1, <1>3, <2>1 DEF Queues!vars, Queues!bytes, Queues!call
<1> QED
  BY <1>5, <1>6

(* Then the offset decides, and only the ring itself, which of the two it was. *)
LEMMA TestStep == ASSUME IInv, WriteTest \/ ReadTest PROVE [Queues!Next]_Queues!vars
<1>1. /\ UNCHANGED <<Outq, wfifo, hostGot, rfifo, Inq, got, written, sent, Silent>>
      /\ UNCHANGED <<tx_out, rx_in>>
  BY SameOut, SameIn, SameSilent DEF WriteTest, ReadTest
<1>2. \/ pc = "write_test" /\ (IF out = tx_out THEN Leave ELSE Go("write"))
      \/ pc = "read_test" /\ (IF in = rx_in THEN Leave ELSE Go("read"))
  BY DEF WriteTest, ReadTest
<1>3. Op \in {"write", "read"} /\ (Unmoved <=> IF pc = "write_test" THEN out = tx_out ELSE in = rx_in)
  BY <1>2 DEF Op, Unmoved
<1>4. CASE Unmoved
  <2>1. pc' = "idle" /\ call'.left = 0 /\ call'.done = 0 /\ call'.nonblock = FALSE
    BY <1>2, <1>3, <1>4
  <2>2. Op' = "none" /\ Phase' = "working"
    BY <2>1 DEF Op, Phase, Short, Waits, Tests
  <2>3. Phase = "hopeless"
    BY <1>2, <1>4 DEF Phase, Short, Waits, Tests
  <2>4. Queues!Return
    BY <1>1, <1>3, <2>1, <2>2, <2>3 DEF Queues!Return, Queues!bytes
  <2> QED
    BY <2>4 DEF Queues!Next
<1>5. CASE ~Unmoved
  <2>1. call' = call /\ \/ pc = "write_test" /\ pc' = "write"
                        \/ pc = "read_test" /\ pc' = "read"
    BY <1>2, <1>3, <1>5
  <2>2. Op' = Op /\ Phase = "working" /\ Phase' = "working"
    BY <1>5, <2>1 DEF Op, Phase, Short, Waits, Tests
  <2> QED
    BY <1>1, <2>1, <2>2 DEF Queues!vars, Queues!bytes, Queues!call
<1> QED
  BY <1>4, <1>5

(* The other ways back. *)
LEMMA EndStep == ASSUME IInv, ReadRearm \/ CloseWait PROVE Queues!Next
<1>1. /\ UNCHANGED <<Outq, wfifo, hostGot, rfifo, Inq, got, written, sent, Silent>>
      /\ pc' = "idle" /\ call'.left = 0 /\ call'.done = 0 /\ call'.nonblock = FALSE
  BY SameOut, SameIn, SameSilent DEF ReadRearm, CloseWait
<1>2. Op' = "none" /\ Phase' = "working"
  BY <1>1 DEF Op, Phase, Short, Waits, Tests
<1>3. CASE ReadRearm
  <2>1. pc = "rearm" /\ call.left \in Nat
    BY <1>3, TypeParts DEF ReadRearm, IInv, ThreadTypes
  <2>2. call.left = 0 \/ call.left > 0
    BY <2>1
  <2>3. Op = "read" /\ (call.left = 0 \/ Phase = "short")
    BY <2>1, <2>2 DEF Op, Phase, Short
  <2>4. Queues!Return
    BY <1>1, <1>2, <2>3 DEF Queues!Return, Queues!bytes
  <2> QED
    BY <2>4 DEF Queues!Next
<1>4. CASE CloseWait
  <2>1. Op = "close" /\ (Outq = <<>> \/ Silent \/ call.nonblock)
    BY <1>4, QueueFacts DEF CloseWait, Op, Silent
  <2>4. Queues!Return
    BY <1>1, <1>2, <2>1 DEF Queues!Return, Queues!bytes
  <2> QED
    BY <2>4 DEF Queues!Next
<1> QED
  BY <1>3, <1>4

-----------------------------------------------------------------------------
(* The routine and the host. *)

(* A byte taken from a full ring is seen: tx_out does not come round to the place
   loaded, for it would have to pass tx_in first. *)
LEMMA TransmitStep == ASSUME IInv, WaitHolds, TxByte PROVE Queues!Next
<1>1. RingTypes /\ RoutineTypes /\ DeviceTypes /\ RoutineHolds
  BY TypeParts DEF IInv
<1>2. /\ UNCHANGED <<hostGot, rfifo, Inq, got, written, sent, Silent>>
      /\ UNCHANGED <<pc, call, in, out, rx_in, tx_in, tx_buf>>
      /\ tx_in # tx_out /\ tx_out' = Next1(tx_out) /\ wfifo' = Append(wfifo, tx_buf[tx_out])
      /\ isr = "tx" /\ control.space > 0
  BY SameIn, SameSilent DEF TxByte, TxEmpty
<1>3. Len(wfifo) < WriteDepth
  <2>1. control.space \in Nat /\ Len(wfifo) \in Nat /\ WriteDepth \in Nat
    BY <1>1, SeqFacts, ConstantsAssumption DEF RoutineTypes, DeviceTypes
  <2>2. control.space + Len(wfifo) <= WriteDepth
    BY <1>1, <1>2 DEF RoutineHolds
  <2> QED
    BY <1>2, <2>1, <2>2
<1>4. Outq # <<>> /\ Outq = <<tx_buf[tx_out]>> \o Outq' /\ Outq' \in Seq(Nat)
  <2>1. tx_buf \in [Index -> Nat] /\ tx_out \in Index /\ tx_in \in Index
    BY <1>1 DEF RingTypes
  <2>2. Ring(tx_buf, tx_out, tx_in) = <<tx_buf[tx_out]>> \o Ring(tx_buf, Next1(tx_out), tx_in)
    BY <1>2, <2>1, RingGet
  <2>3. Outq' = Ring(tx_buf, Next1(tx_out), tx_in)
    BY <1>2 DEF Outq, Ring
  <2>4. Next1(tx_out) \in Index
    BY <2>1, NextOffset
  <2> QED
    BY <1>2, <2>1, <2>2, <2>3, <2>4, RingSeq, QueueFacts DEF Outq, TxEmpty
<1>5. Head(Outq) = tx_buf[tx_out] /\ Tail(Outq) = Outq'
  <2>1. tx_buf[tx_out] \in Nat
    BY <1>1 DEF RingTypes
  <2> QED
    BY <1>4, <2>1, FrontAndRest
<1>6. Op' = Op
  BY <1>2 DEF Op
<1>7. Phase' = Queues!Woken("write")
  <2>1. CASE Op = "write" /\ Phase \in {"waiting", "hopeless"}
    <3>1. Waits \/ Tests
      BY <2>1 DEF Phase
    <3>2. Next1(tx_in) = out /\ ~Short /\ ~Short'
      BY <1>2, <2>1, <3>1 DEF WaitHolds, Op, Waits, Tests, Short
    <3>3. tx_out' # out
      <4>1. /\ tx_in \in 0 .. BufLen - 1 /\ tx_out \in 0 .. BufLen - 1 /\ BufLen \in Nat
            /\ Next1(tx_in) = (IF tx_in = BufLen - 1 THEN 0 ELSE tx_in + 1)
            /\ Next1(tx_out) = (IF tx_out = BufLen - 1 THEN 0 ELSE tx_out + 1)
        BY <1>1, NextOffset, ConstantsAssumption DEF RingTypes, Index
      <4> QED
        BY <1>2, <3>2, <4>1
    <3>4. ~Unmoved'
      BY <1>2, <1>6, <2>1, <3>3 DEF Unmoved
    <3>5. Phase' = "working"
      BY <3>2, <3>4 DEF Phase
    <3> QED
      BY <2>1, <3>5 DEF Queues!Woken
  <2>2. CASE ~(Op = "write" /\ Phase \in {"waiting", "hopeless"})
    <3>1. CASE Op = "write"
      <4>1. Phase \notin {"waiting", "hopeless"}
        BY <2>2, <3>1
      <4>2. Short \/ (~(Waits /\ Unmoved) /\ ~(Tests /\ Unmoved))
        BY <4>1 DEF Phase
      <4>3. (Short' <=> Short) /\ (Waits' <=> Waits) /\ (Tests' <=> Tests)
        BY <1>2 DEF Short, Waits, Tests
      <4>4. CASE Short
        BY <4>3, <4>4, <2>2 DEF Phase, Queues!Woken
      <4>5. CASE ~Short /\ ~Waits /\ ~Tests
        BY <4>3, <4>5, <2>2 DEF Phase, Queues!Woken
      <4>6. CASE ~Short /\ ~Unmoved /\ (Waits \/ Tests)
        <5>1. Next1(tx_in) = out /\ out # tx_out
          BY <1>2, <3>1, <4>6 DEF WaitHolds, Op, Waits, Tests, Unmoved
        <5>2. Next1(tx_out) # Next1(tx_in)
          <6>1. /\ tx_in \in 0 .. BufLen - 1 /\ tx_out \in 0 .. BufLen - 1 /\ BufLen \in Nat
                /\ Next1(tx_in) = (IF tx_in = BufLen - 1 THEN 0 ELSE tx_in + 1)
                /\ Next1(tx_out) = (IF tx_out = BufLen - 1 THEN 0 ELSE tx_out + 1)
            BY <1>1, NextOffset, ConstantsAssumption DEF RingTypes, Index
          <6> QED
            BY <1>2, <6>1
        <5>3. ~Unmoved'
          BY <1>2, <1>6, <3>1, <5>1, <5>2 DEF Unmoved
        <5> QED
          BY <2>2, <4>3, <4>6, <5>3 DEF Phase, Queues!Woken
      <4> QED
        BY <4>2, <4>4, <4>5, <4>6
    <3>2. CASE Op # "write"
      <4>1. (Short' <=> Short) /\ (Waits' <=> Waits) /\ (Tests' <=> Tests) /\ (Unmoved' <=> Unmoved)
        BY <1>2, <1>6, <3>2 DEF Short, Waits, Tests, Unmoved
      <4> QED
        BY <2>2, <4>1 DEF Phase, Queues!Woken
    <3> QED
      BY <3>1, <3>2
  <2> QED
    BY <2>1, <2>2
<1>8. Queues!Transmit
  BY <1>2, <1>3, <1>4, <1>5, <1>6, <1>7 DEF Queues!Transmit
<1> QED
  BY <1>8 DEF Queues!Next

(* Likewise a byte put into an empty ring. *)
LEMMA ReceiveStep == ASSUME IInv, WaitHolds, RxByte PROVE [Queues!Next]_Queues!vars
<1>1. RingTypes /\ DeviceTypes
  BY TypeParts DEF IInv
<1>2. /\ UNCHANGED <<wfifo, hostGot, Outq, got, written, sent, Silent>>
      /\ UNCHANGED <<pc, call, in, out, rx_out, tx_out>>
      /\ Next1(rx_in) # rx_out
  BY SameOut, SameSilent DEF RxByte, RxFull
<1>3. CASE rfifo = <<>>
  <2>1. UNCHANGED <<rx_in, rx_buf, rfifo>>
    BY <1>3 DEF RxByte
  <2> QED
    BY <1>2, <2>1, SameIn, SameCall DEF Queues!vars, Queues!bytes, Queues!call
<1>4. CASE rfifo # <<>>
  <2>1. rx_buf' = [rx_buf EXCEPT ![rx_in] = Head(rfifo)] /\ rx_in' = Next1(rx_in) /\ rfifo' = Tail(rfifo)
    BY <1>4 DEF RxByte
  <2>2. Inq' = Append(Inq, Head(rfifo))
    <3>1. rx_buf \in [Index -> Nat] /\ rx_in \in Index /\ rx_out \in Index /\ Head(rfifo) \in Nat
      BY <1>1, <1>4, SeqFacts DEF RingTypes, DeviceTypes
    <3>2. Ring([rx_buf EXCEPT ![rx_in] = Head(rfifo)], rx_out, Next1(rx_in)) =
          Append(Ring(rx_buf, rx_out, rx_in), Head(rfifo))
      BY <1>2, <3>1, RingPut
    <3> QED
      BY <1>2, <2>1, <3>2 DEF Inq, Ring
  <2>3. Len(Inq) < BufLen - 1
    <3>1. Len(Inq) \in 0 .. BufLen - 1 /\ Len(Inq) # BufLen - 1 /\ BufLen \in Nat
      BY <1>2, QueueFacts, ConstantsAssumption DEF RxFull
    <3> QED
      BY ONLY <3>1
  <2>4. Op' = Op
    BY <1>2 DEF Op
  <2>5. (Short' <=> Short) /\ (Waits' <=> Waits) /\ (Tests' <=> Tests)
    BY <1>2 DEF Short, Waits, Tests
  <2>6. Phase' = Queues!Woken("read")
    <3>1. CASE Op = "read" /\ (Waits \/ Tests)
      <4>1. in = rx_out /\ ~Short
        BY <3>1 DEF WaitHolds, Op, Waits, Tests, Short
      <4>2. ~Unmoved'
        BY <1>2, <2>1, <2>4, <3>1, <4>1 DEF Unmoved
      <4>3. Phase' = "working"
        BY <2>5, <4>1, <4>2 DEF Phase
      <4>4. Phase \in {"waiting", "hopeless", "working"}
        BY <4>1 DEF Phase
      <4> QED
        BY <3>1, <4>3, <4>4 DEF Queues!Woken
    <3>2. CASE Op = "read" /\ ~Waits /\ ~Tests
      BY <2>5, <3>2 DEF Phase, Queues!Woken
    <3>3. CASE Op = "write"
      <4>1. Unmoved' <=> Unmoved
        BY <1>2, <2>4, <3>3 DEF Unmoved
      <4> QED
        BY <2>5, <3>3, <4>1 DEF Phase, Queues!Woken
    <3>4. CASE Op \notin {"read", "write"}
      <4>1. ~Waits /\ ~Tests
        BY <3>4 DEF Op, Waits, Tests
      <4> QED
        BY <2>5, <3>4, <4>1 DEF Phase, Queues!Woken
    <3> QED
      BY <3>1, <3>2, <3>3, <3>4
  <2>7. Queues!Receive
    BY <1>2, <1>4, <2>1, <2>2, <2>3, <2>4, <2>6 DEF Queues!Receive
  <2> QED
    BY <2>7 DEF Queues!Next
<1> QED
  BY <1>3, <1>4

LEMMA OtherSteps ==
    ASSUME IInv, Interrupt \/ ReadControl \/ RxStop \/ RxEnd \/ TxEnd \/ Alarm \/ Host
    PROVE  [Queues!Next]_Queues!vars
<1>1. UNCHANGED <<Outq, Inq, Op, Phase, call, got, written>>
  <2>1. UNCHANGED <<ring, thread, got, written>>
    BY DEF Interrupt, ReadControl, RxStop, RxEnd, TxEnd, Alarm, Host, HostSend, HostPause, HostTake, Plug
  <2> QED
    BY <2>1, SameOut, SameIn, SameCall
<1>2. CASE Interrupt \/ ReadControl \/ RxStop \/ RxEnd \/ TxEnd \/ HostPause \/ Plug
  <2>1. UNCHANGED <<host_inactive, rfifo, wfifo, sent, hostGot>>
    BY <1>2 DEF Interrupt, ReadControl, RxStop, RxEnd, TxEnd, HostPause, Plug
  <2> QED
    BY <1>1, <2>1, SameSilent DEF Queues!vars, Queues!bytes, Queues!call
<1>3. CASE HostSend
  <2>1. /\ Len(rfifo) < ReadDepth /\ sent' = sent + 1 /\ rfifo' = Append(rfifo, sent + 1)
        /\ UNCHANGED <<host_inactive, wfifo, hostGot>>
    BY <1>3 DEF HostSend
  <2>2. Queues!HostSend
    BY <1>1, <2>1, SameSilent DEF Queues!HostSend, Queues!call
  <2> QED
    BY <2>2 DEF Queues!Next
<1>4. CASE HostTake
  <2>1. /\ wfifo # <<>> /\ hostGot' = Append(hostGot, Head(wfifo)) /\ wfifo' = Tail(wfifo)
        /\ UNCHANGED <<host_inactive, rfifo, sent>>
    BY <1>4 DEF HostTake
  <2>2. Queues!HostTake
    BY <1>1, <2>1, SameSilent DEF Queues!HostTake, Queues!call
  <2> QED
    BY <2>2 DEF Queues!Next
<1>5. CASE Alarm
  <2>1. UNCHANGED <<rfifo, wfifo, sent, hostGot>>
    BY <1>5 DEF Alarm
  <2>2. Silent \in BOOLEAN /\ Silent' \in BOOLEAN
    BY DEF Silent
  <2>3. CASE Silent' = Silent
    BY <1>1, <2>1, <2>3 DEF Queues!vars, Queues!bytes, Queues!call
  <2>4. CASE Silent' = ~Silent
    <3>1. Queues!Silence
      BY <1>1, <2>1, <2>4 DEF Queues!Silence, Queues!bytes, Queues!call
    <3> QED
      BY <3>1 DEF Queues!Next
  <2> QED
    BY <2>2, <2>3, <2>4
<1> QED
  BY <1>2, <1>3, <1>4, <1>5 DEF Host

LEMMA QueuesInit == Init => Queues!Init /\ WaitHolds
<1> SUFFICES ASSUME Init PROVE Queues!Init /\ WaitHolds
  OBVIOUS
<1>1. /\ pc = "idle" /\ tx_in = tx_out /\ rx_in = rx_out
      /\ wfifo = <<>> /\ hostGot = <<>> /\ rfifo = <<>> /\ got = <<>> /\ written = 0 /\ sent = 0
      /\ call.left = 0 /\ call.done = 0 /\ call.nonblock = FALSE /\ host_inactive = 0
  BY DEF Init
<1>2. Outq = <<>> /\ Inq = <<>>
  BY <1>1, InitIInv, QueueFacts DEF TxEmpty
<1>3. Op = "none" /\ Phase = "working" /\ Silent = FALSE
  BY <1>1, ConstantsAssumption DEF Op, Phase, Short, Waits, Tests, Silent, Active
<1> QED
  BY <1>1, <1>2, <1>3 DEF Queues!Init, WaitHolds

LEMMA QueuesStep == ASSUME IInv, WaitHolds, [Next]_vars PROVE WaitHolds' /\ [Queues!Next]_Queues!vars
<1>1. CASE Next
  <2>1. WaitHolds'
    BY <1>1, WaitStep
  <2>2. [Queues!Next]_Queues!vars
    BY <1>1, CallSteps, LoadStep, CopyStep, PublishStep, KickStep, WaitingStep, TestStep, EndStep,
       TransmitStep, ReceiveStep, OtherSteps
       DEF Next, Routine, ThreadStep, Return
  <2> QED
    BY <2>1, <2>2
<1>2. CASE UNCHANGED vars
  <2>1. UNCHANGED <<ring, thread, device, host, host_inactive, written, got>>
    BY <1>2 DEF vars
  <2>2. WaitHolds'
    BY <2>1 DEF WaitHolds, Next1
  <2>3. UNCHANGED Queues!vars
    BY <2>1, SameOut, SameIn, SameCall, SameSilent DEF Queues!vars, Queues!bytes, Queues!call
  <2> QED
    BY <2>2, <2>3
<1> QED
  BY <1>1, <1>2

(* read, write and close behave as on two plain queues, whatever the       *)
(* interrupts, the alarm and the host do between two steps of the thread:  *)
(* offsets loaded before an interrupt never make a call come back short    *)
(* or wait without the reason the abstract specification gives for it.     *)
THEOREM QueuesImplemented == Spec => ImplementsQueues
<1>1. Init => Queues!Init /\ WaitHolds
  BY QueuesInit
<1>2. IInv /\ WaitHolds /\ [Next]_vars => WaitHolds' /\ [Queues!Next]_Queues!vars
  BY QueuesStep
<1> QED
  BY <1>1, <1>2, Invariance, PTL DEF Spec, ImplementsQueues, Queues!Spec

=============================================================================
