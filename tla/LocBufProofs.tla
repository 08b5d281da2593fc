----------------------------- MODULE LocBufProofs -----------------------------
(***************************************************************************)
(* Proofs about LocBuf, for a buffer of any size.                          *)
(***************************************************************************)
EXTENDS LocBuf, SequenceTheorems, TLAPS

USE DEF Chunk

\* What the pointers mean in every state, also after a failed read; and the
\* bytes between head and tail came from the terminal.
BInv ==
  /\ spc \in [0 .. Size - 1 -> Byte \cup {NUL}]
  /\ head \in Nat /\ tail \in Int /\ count \in Int
  /\ tail = head + count /\ -1 <= tail /\ tail <= Size
  /\ (pc = "parse" \/ ~eio => count >= 0)
  /\ (pc # "parse" \/ count <= 0 => head = 0)
  /\ \A i \in head .. tail - 1 : spc[i] \in Byte
  /\ port \in Seq(Byte) /\ Len(port) <= PortCap
  /\ bytes \in 0 .. PortCap
  /\ (pc \in {"read", "respread", "parse"} => bytes <= Len(port))
  /\ pc \in {"resp", "respread", "select", "read", "parse", "command", "dead", "undefined"}
  /\ ask \in 1 .. 9 /\ pset \in BOOLEAN /\ eio \in BOOLEAN
  /\ (pc \in {"resp", "respread"} => ask < 9)
  /\ out \in Packets

\* The invariant gives the type of every variable.
LEMMA BInvTypes == BInv => TypeOK
BY BufAssumption DEF BInv, TypeOK

\* ... and where a read goes.
LEMMA BInvFits == BInv => ReadFits
BY BufAssumption DEF BInv, ReadFits

\* A sequence of at most Size bytes is a packet.
LEMMA ShortPacket ==
  ASSUME NEW n \in 0 .. Size, NEW f \in [1 .. n -> Byte] PROVE f \in Packets
BY DEF Packets

\* The buffer starts empty.
LEMMA BInvInit == Init => BInv
<1> SUFFICES ASSUME Init PROVE BInv
  OBVIOUS
<1>1. <<>> \in Packets
  <2>1. <<>> \in [1 .. 0 -> Byte]
    OBVIOUS
  <2>2. 0 \in 0 .. Size
    BY BufAssumption
  <2> QED BY ONLY <2>1, <2>2, ShortPacket
<1>2. spc \in [0 .. Size - 1 -> Byte \cup {NUL}]
  BY DEF Init
<1>3. port \in Seq(Byte) /\ Len(port) = 0
  BY DEF Init
<1>4. head = 0 /\ tail = 0 /\ count = 0 /\ bytes = 0
  BY DEF Init
<1>5. \A i \in head .. tail - 1 : spc[i] \in Byte
  BY <1>4
<1>6. out \in Packets
  BY <1>1 DEF Init
<1>7. pc = "resp" /\ ask = 1 /\ pset = FALSE /\ eio = FALSE
  BY DEF Init
<1> QED BY ONLY <1>2, <1>3, <1>4, <1>5, <1>6, <1>7, BufAssumption DEF BInv

\* What get_fromfd leaves in the port and in the space behind tail.
LEMMA Reading ==
  ASSUME BInv, pc \in {"read", "respread"}, GetFromFd
  PROVE  /\ Chunk \in 1 .. Size - tail /\ Chunk <= bytes
         /\ port' \in Seq(Byte) /\ Len(port') = Len(port) - Chunk
         /\ bytes' \in 0 .. PortCap /\ bytes' <= Len(port')
         /\ Filled \in [0 .. Size - 1 -> Byte \cup {NUL}]
         /\ \A i \in head .. tail + Chunk - 1 : Filled[i] \in Byte
<1>1. Chunk \in 1 .. Size - tail /\ Chunk <= bytes /\ tail \in 0 .. Size /\ count = tail
  BY BufAssumption DEF BInv, GetFromFd
<1> DEFINE k == Chunk
<1>2. k \in Nat /\ k <= Len(port)
  BY <1>1, BufAssumption DEF BInv
<1> HIDE DEF k
<1>3. \A i \in tail .. tail + k - 1 : port[i - tail + 1] \in Byte
  BY <1>1, <1>2 DEF BInv
<1>4. port' = SubSeq(port, k + 1, Len(port)) /\ bytes' = bytes - k
  BY DEF GetFromFd, k
<1>5. port' \in Seq(Byte) /\ Len(port') = Len(port) - k
  BY <1>2, <1>4 DEF BInv
<1>6. Filled = [i \in 0 .. Size - 1 |->
                  IF i \in tail .. tail + k - 1 THEN port[i - tail + 1] ELSE spc[i]]
  BY DEF Filled, k, BInv
<1>7. Filled \in [0 .. Size - 1 -> Byte \cup {NUL}]
  BY <1>3, <1>6 DEF BInv
<1>8. \A i \in head .. tail + k - 1 : Filled[i] \in Byte
  <2> SUFFICES ASSUME NEW i \in head .. tail + k - 1 PROVE Filled[i] \in Byte
    OBVIOUS
  <2>1. i \in 0 .. Size - 1 /\ (i \in head .. tail - 1 \/ i \in tail .. tail + k - 1)
    BY <1>1, BufAssumption DEF BInv, k
  <2>2. CASE i \in tail .. tail + k - 1
    BY <2>1, <2>2, <1>3, <1>6
  <2>3. CASE i \notin tail .. tail + k - 1
    <3>1. Filled[i] = spc[i]
      BY <2>1, <2>3, <1>6
    <3> QED BY <2>1, <2>3, <3>1 DEF BInv
  <2> QED BY <2>2, <2>3
<1>9. k \in 1 .. Size - tail /\ k <= bytes
  BY <1>1 DEF k
<1>10. bytes' \in 0 .. PortCap /\ bytes' <= Len(port')
  BY <1>2, <1>4, <1>5, <1>9, BufAssumption DEF BInv
<1>11. Chunk = k
  BY DEF k
<1> QED BY ONLY <1>5, <1>7, <1>8, <1>9, <1>10, <1>11

\* memcpy to the front keeps the bytes it moves.
LEMMA Moving ==
  ASSUME NEW s \in [0 .. Size - 1 -> Byte \cup {NUL}],
         NEW from \in Nat, NEW n \in Nat, from + n <= Size,
         \A i \in from .. from + n - 1 : s[i] \in Byte
  PROVE  /\ Moved(s, from, n) \in [0 .. Size - 1 -> Byte \cup {NUL}]
         /\ \A i \in 0 .. n - 1 : Moved(s, from, n)[i] \in Byte
<1>1. Moved(s, from, n) = [i \in 0 .. Size - 1 |-> IF i < n THEN s[from + i] ELSE s[i]]
  BY DEF Moved
<1>2. \A i \in 0 .. n - 1 : s[from + i] \in Byte
  OBVIOUS
<1>3. ASSUME NEW i \in 0 .. n - 1 PROVE Moved(s, from, n)[i] \in Byte
  <2>1. i \in 0 .. Size - 1 /\ i < n
    BY BufAssumption
  <2> QED BY <1>1, <1>2, <2>1
<1>4. ASSUME NEW i \in 0 .. Size - 1
      PROVE  (IF i < n THEN s[from + i] ELSE s[i]) \in Byte \cup {NUL}
  <2>1. CASE i < n
    BY <1>2, <2>1
  <2>2. CASE ~(i < n)
    BY <2>2
  <2> QED BY <2>1, <2>2
<1> QED BY <1>1, <1>3, <1>4

\* A read of ldu_loop appends to what is at the front.
LEMMA ReadStep == BInv /\ Read => BInv'
<1> SUFFICES ASSUME BInv, Read PROVE BInv'
  OBVIOUS
<1> DEFINE k == Chunk
<1>1. pc = "read" /\ pc \in {"read", "respread"} /\ GetFromFd
  BY DEF Read
<1>2. /\ k \in 1 .. Size - tail /\ k <= bytes
      /\ port' \in Seq(Byte) /\ Len(port') = Len(port) - k
      /\ bytes' \in 0 .. PortCap /\ bytes' <= Len(port')
      /\ Filled \in [0 .. Size - 1 -> Byte \cup {NUL}]
      /\ \A i \in head .. tail + k - 1 : Filled[i] \in Byte
  BY <1>1, Reading DEF k
<1>3. spc' = Filled /\ tail' = tail + k /\ count' = count + k /\ pc' = "parse"
      /\ UNCHANGED <<head, ask, pset, out, eio>>
  BY DEF Read, k
<1> HIDE DEF k
<1>4. head = 0 /\ tail = count /\ tail >= 0
  BY <1>1 DEF BInv, GetFromFd
<1>5. Len(port') \in Nat /\ Len(port') <= PortCap
  BY <1>2, BufAssumption DEF BInv
<1> QED BY <1>2, <1>3, <1>4, <1>5, BufAssumption DEF BInv

\* last_by_sym leaves part of a line at the front, or nothing.
LEMMA RespReadStep == BInv /\ RespRead => BInv'
<1> SUFFICES ASSUME BInv, RespRead PROVE BInv'
  OBVIOUS
<1> DEFINE k == Chunk
           q == count + k - 1
<1>1. pc = "respread" /\ pc \in {"read", "respread"} /\ GetFromFd
  BY DEF RespRead
<1>2. /\ k \in 1 .. Size - tail /\ k <= bytes
      /\ port' \in Seq(Byte) /\ Len(port') = Len(port) - k
      /\ bytes' \in 0 .. PortCap /\ bytes' <= Len(port')
      /\ Filled \in [0 .. Size - 1 -> Byte \cup {NUL}]
      /\ \A i \in head .. tail + k - 1 : Filled[i] \in Byte
  BY <1>1, Reading DEF k
<1>3. LastBySym(Filled, q) /\ eio' = eio
      /\ IF out' = <<>> THEN pset' = TRUE /\ UNCHANGED <<ask, pc>>
         ELSE Asking(IF ask > 6 THEN ask + 1
                     ELSE IF ask < 5 /\ out'[1] # Dee THEN ask + 1 ELSE 7)
  BY DEF RespRead, k, q
<1> HIDE DEF k
<1>4. head = 0 /\ tail = count /\ tail >= 0 /\ q = tail + k - 1
  BY <1>1 DEF BInv, GetFromFd
<1>5. Len(port') \in Nat /\ Len(port') <= PortCap
  BY <1>2, BufAssumption DEF BInv
<1> HIDE DEF q
<1>6. PICK p :
        /\ p \in 0 .. q
        /\ head' = 0
        /\ IF Filled[q] = CR
           THEN /\ out' = [i \in 1 .. q - p + 1 |-> Filled[p + i - 1]]
                /\ count' = 0 /\ tail' = 0 /\ spc' = Filled
           ELSE /\ out' = <<>>
                /\ count' = q - p + 1 /\ tail' = q - p + 1
                /\ spc' = Moved(Filled, p, q - p + 1)
  BY <1>3, <1>4 DEF LastBySym
<1>7. q \in Nat /\ q < Size /\ p \in 0 .. q /\ \A i \in p .. q : Filled[i] \in Byte
  <2>1. p \in 0 .. q
    BY <1>6
  <2> QED BY <2>1, <1>2, <1>4, BufAssumption DEF BInv
<1>8. /\ head' = 0 /\ tail' = head' + count' /\ tail' \in 0 .. Size /\ count' \in 0 .. Size
      /\ spc' \in [0 .. Size - 1 -> Byte \cup {NUL}]
      /\ \A i \in 0 .. tail' - 1 : spc'[i] \in Byte
      /\ out' \in Packets
  <2>1. CASE Filled[q] = CR
    <3> DEFINE n == q - p + 1
    <3>1. n \in 0 .. Size
      BY <1>7, BufAssumption
    <3>2. out' = [i \in 1 .. n |-> Filled[p + i - 1]]
      BY <1>6, <2>1
    <3>3. \A i \in 1 .. n : Filled[p + i - 1] \in Byte
      BY <1>7
    <3> HIDE DEF n
    <3>4. out' \in [1 .. n -> Byte]
      BY <3>2, <3>3
    <3>5. out' \in Packets
      BY <3>1, <3>4, ShortPacket
    <3> QED BY <3>5, <2>1, <1>6, <1>2, BufAssumption
  <2>2. CASE Filled[q] # CR
    <3> DEFINE n == q - p + 1
    <3>1. n \in Nat /\ p + n <= Size /\ p \in Nat
      BY <1>7, BufAssumption
    <3>2. spc' = Moved(Filled, p, n) /\ tail' = n /\ count' = n /\ head' = 0 /\ out' = <<>>
      BY <1>6, <2>2
    <3>3. \A i \in p .. p + n - 1 : Filled[i] \in Byte
      BY <1>7
    <3> HIDE DEF n
    <3>4. spc' \in [0 .. Size - 1 -> Byte \cup {NUL}] /\ \A i \in 0 .. n - 1 : spc'[i] \in Byte
      BY <3>1, <3>2, <3>3, <1>2, Moving
    <3>5. <<>> \in [1 .. 0 -> Byte] /\ 0 \in 0 .. Size
      BY BufAssumption
    <3>6. out' \in Packets
      BY <3>2, <3>5, ShortPacket
    <3> QED BY <3>1, <3>2, <3>4, <3>6, BufAssumption
  <2> QED BY <2>1, <2>2
<1>9. /\ ask' \in 1 .. 9 /\ pset' \in BOOLEAN /\ pc' \in {"resp", "respread", "select"}
      /\ (pc' \in {"resp", "respread"} => ask' < 9)
  <2>1. ask \in 1 .. 8 /\ pset \in BOOLEAN
    BY <1>1 DEF BInv
  <2>2. CASE out' = <<>>
    <3>1. pset' = TRUE /\ ask' = ask /\ pc' = pc
      BY <1>3, <2>2
    <3> QED BY <1>1, <2>1, <3>1
  <2>3. CASE out' # <<>>
    <3> DEFINE n == IF ask > 6 THEN ask + 1
                    ELSE IF ask < 5 /\ out'[1] # Dee THEN ask + 1 ELSE 7
    <3>1. n \in 1 .. 9
      BY <2>1
    <3>2. Asking(n)
      BY <1>3, <2>3
    <3> HIDE DEF n
    <3>3. ask' = n /\ pset' = FALSE /\ pc' = IF n = 9 THEN "select" ELSE "resp"
      BY <3>2 DEF Asking
    <3>4. pset' \in BOOLEAN
      BY <3>3
    <3>5. CASE n = 9
      BY <3>3, <3>4, <3>5
    <3>6. CASE n # 9
      BY <3>1, <3>3, <3>4, <3>6
    <3> QED BY <3>5, <3>6
  <2> QED BY <2>2, <2>3
<1>10. eio' = eio /\ eio \in BOOLEAN
  BY <1>3 DEF BInv
<1>11. bytes' <= Len(port') /\ bytes' \in 0 .. PortCap /\ port' \in Seq(Byte)
  BY <1>2
<1> HIDE DEF Chunk
<1>12. eio' \in BOOLEAN /\ (pc' = "parse" \/ ~eio' => count' >= 0)
  BY <1>8, <1>10
<1>13. /\ head' \in Nat /\ tail' \in Int /\ count' \in Int
       /\ tail' = head' + count' /\ -1 <= tail' /\ tail' <= Size
       /\ \A i \in head' .. tail' - 1 : spc'[i] \in Byte
  <2>1. Size \in Nat
    BY BufAssumption
  <2>2. \A i \in head' .. tail' - 1 : spc'[i] \in Byte
    BY <1>8
  <2>3. head' \in Nat /\ tail' \in Int /\ count' \in Int
    BY <1>8, <2>1
  <2>4. tail' = head' + count'
    BY <1>8
  <2>6. tail' \in 0 .. Size
    BY <1>8
  <2>5. -1 <= tail' /\ tail' <= Size
    BY ONLY <2>1, <2>6
  <2> QED BY ONLY <2>2, <2>3, <2>4, <2>5
<1> QED BY ONLY <1>5, <1>8, <1>9, <1>11, <1>12, <1>13 DEF BInv

\* next_by_sym hands out the bytes up to a CR.
LEMMA PacketStep == BInv /\ Packet => BInv'
<1> SUFFICES ASSUME BInv, Packet PROVE BInv'
  OBVIOUS
<1>1. pc = "parse" /\ UNCHANGED <<spc, port, bytes, pc, ask, pset, eio>>
  BY DEF Packet, TakePacket
<1>2. PICK p : p \in head .. tail - 1 /\ TakePacket(p)
  BY DEF Packet
<1>3. /\ p \in Nat /\ head <= p /\ p < tail /\ tail <= Size
      /\ head \in Nat /\ tail \in Nat /\ count = tail - head
  BY <1>2 DEF BInv
<1>4. /\ out' = Text(head, p + 1) /\ count' = count - (p + 1 - head)
      /\ IF count' = 0 THEN head' = 0 /\ tail' = 0 ELSE head' = p + 1 /\ tail' = tail
  BY <1>2 DEF TakePacket
<1>5. out' \in Packets
  <2> DEFINE len == (p + 1) - head
  <2>1. len \in 0 .. Size
    BY <1>3, BufAssumption
  <2>2. len = (p + 1) - head
    OBVIOUS
  <2>3. out' = [i \in 1 .. len |-> spc[head + i - 1]]
    <3>1. Text(head, p + 1) = [i \in 1 .. len |-> spc[head + i - 1]]
      BY DEF Text
    <3> QED BY <1>4, <3>1
  <2> HIDE DEF len
  <2>4. \A i \in 1 .. len : head + i - 1 \in head .. tail - 1
    BY <1>3, <2>2
  <2>5. \A i \in 1 .. len : spc[head + i - 1] \in Byte
    BY <2>4 DEF BInv
  <2>6. out' \in [1 .. len -> Byte]
    BY <2>3, <2>5
  <2> QED BY <2>1, <2>6, ShortPacket
<1>6. /\ head' \in Nat /\ tail' \in Int /\ count' \in Int /\ count' \in Nat
      /\ tail' = head' + count' /\ -1 <= tail' /\ tail' <= Size
  <2>1. CASE count' = 0
    BY <1>4, <2>1, BufAssumption
  <2>2. CASE count' # 0
    <3>1. head' = p + 1 /\ tail' = tail /\ count' = tail - (p + 1)
      BY <1>3, <1>4, <2>2
    <3> QED BY <1>3, <3>1
  <2> QED BY <2>1, <2>2
<1>7. \A i \in head' .. tail' - 1 : spc'[i] \in Byte
  <2>1. \A i \in head .. tail - 1 : spc[i] \in Byte
    BY DEF BInv
  <2>2. CASE count' = 0
    BY <1>4, <2>2
  <2>3. CASE count' # 0
    <3>1. head' = p + 1 /\ tail' = tail /\ spc' = spc
      BY <1>1, <1>4, <2>3
    <3> QED BY <1>3, <2>1, <3>1
  <2> QED BY <2>2, <2>3
<1>8. pc' = "parse" /\ (count' <= 0 => head' = 0)
  <2>1. CASE count' = 0
    BY <1>1, <1>4, <2>1
  <2>2. CASE count' # 0
    BY <1>1, <1>6, <2>2
  <2> QED BY <2>1, <2>2
<1>9. /\ spc' \in [0 .. Size - 1 -> Byte \cup {NUL}]
      /\ port' \in Seq(Byte) /\ Len(port') <= PortCap /\ bytes' \in 0 .. PortCap
      /\ ask' \in 1 .. 9 /\ pset' \in BOOLEAN /\ eio' \in BOOLEAN
      /\ bytes' <= Len(port')
  BY <1>1 DEF BInv
<1>10. pc' = "parse" \/ ~eio' => count' >= 0
  BY <1>6
<1>11. pc' # "parse" \/ count' <= 0 => head' = 0
  BY <1>8
<1>12. pc' \in {"resp", "respread", "select", "read", "parse", "command", "dead", "undefined"}
       /\ (pc' \in {"resp", "respread"} => ask' < 9)
  BY <1>8
<1> QED BY ONLY <1>5, <1>6, <1>7, <1>9, <1>10, <1>11, <1>12, Zenon DEF BInv

\* next_by_sym moves what is left to the front.
LEMMA NoPacketStep == BInv /\ NoPacket => BInv'
<1> SUFFICES ASSUME BInv, NoPacket PROVE BInv'
  OBVIOUS
<1>1. /\ pc = "parse" /\ pc' = "read" /\ Compact /\ out' = <<>>
      /\ UNCHANGED <<count, port, bytes, ask, pset, eio>>
  BY DEF NoPacket
<1>2. /\ count \in Nat /\ tail = head + count /\ tail <= Size /\ head \in Nat
      /\ (count = 0 => head = 0)
  BY <1>1 DEF BInv
<1>3. /\ head' = 0 /\ tail' = count
      /\ spc' \in [0 .. Size - 1 -> Byte \cup {NUL}]
      /\ \A i \in 0 .. count - 1 : spc'[i] \in Byte
  <2>1. CASE count # 0 /\ head > 0
    <3>1. spc' = Moved(spc, head, count) /\ head' = 0 /\ tail' = count
      BY <1>1, <2>1 DEF Compact
    <3>2. \A i \in head .. head + count - 1 : spc[i] \in Byte
      BY <1>2 DEF BInv
    <3> QED BY <1>2, <3>1, <3>2, Moving DEF BInv
  <2>2. CASE count = 0
    <3>1. UNCHANGED <<spc, head, tail>>
      BY <1>1, <2>2 DEF Compact
    <3>2. head = 0
      BY <1>2, <2>2
    <3> QED BY <1>2, <2>2, <3>1, <3>2 DEF BInv
  <2>3. CASE count # 0 /\ head = 0
    <3>1. UNCHANGED <<spc, head, tail>>
      BY <1>1, <2>3 DEF Compact
    <3> QED BY <1>2, <2>3, <3>1 DEF BInv
  <2> QED BY <1>2, <2>1, <2>2, <2>3
<1>4. out' \in Packets
  <2>1. <<>> \in [1 .. 0 -> Byte] /\ 0 \in 0 .. Size
    BY BufAssumption
  <2> QED BY <1>1, <2>1, ShortPacket
<1>5. head' = 0 /\ tail' = count' /\ count' \in Nat /\ tail' <= Size
  <2>1. head' = 0 /\ tail' = count /\ count' = count
    BY <1>1, <1>3
  <2>2. count \in Nat /\ count <= Size
    BY <1>2, BufAssumption
  <2> QED BY ONLY <2>1, <2>2
<1>6. \A i \in head' .. tail' - 1 : spc'[i] \in Byte
  BY <1>1, <1>3
<1>7. /\ port' \in Seq(Byte) /\ Len(port') <= PortCap /\ bytes' \in 0 .. PortCap
      /\ ask' \in 1 .. 9 /\ pset' \in BOOLEAN /\ eio' \in BOOLEAN
      /\ bytes' <= Len(port')
  BY <1>1 DEF BInv
<1> QED BY <1>1, <1>3, <1>4, <1>5, <1>6, <1>7 DEF BInv

\* A failed read takes one from tail and from count.
LEMMA ReadErrorStep == BInv /\ ReadError => BInv'
<1> SUFFICES ASSUME BInv, ReadError PROVE BInv'
  OBVIOUS
<1>1. /\ pc \in {"read", "respread"} /\ tail >= 0
      /\ tail' = tail - 1 /\ count' = count - 1 /\ eio' = TRUE
      /\ pc' \in {"select", "resp", "undefined"} /\ (pc' = "resp" => pc = "respread")
      /\ UNCHANGED <<spc, head, port, bytes, ask, pset, out>>
  BY DEF ReadError
<1>2. head = 0 /\ tail = count /\ tail \in 0 .. Size
  BY <1>1, BufAssumption DEF BInv
<1>3. /\ head' \in Nat /\ tail' \in Int /\ count' \in Int
      /\ tail' = head' + count' /\ -1 <= tail' /\ tail' <= Size
  BY <1>1, <1>2, BufAssumption
<1>4. \A i \in head' .. tail' - 1 : spc'[i] \in Byte
  <2>1. \A i \in head .. tail - 1 : spc[i] \in Byte
    BY DEF BInv
  <2> QED BY <1>1, <1>2, <2>1, BufAssumption
<1>5. /\ spc' \in [0 .. Size - 1 -> Byte \cup {NUL}]
      /\ port' \in Seq(Byte) /\ Len(port') <= PortCap /\ bytes' \in 0 .. PortCap
      /\ ask' \in 1 .. 9 /\ pset' \in BOOLEAN /\ eio' \in BOOLEAN /\ out' \in Packets
  BY <1>1 DEF BInv
<1>6. pc' = "parse" \/ ~eio' => count' >= 0
  BY <1>1
<1>7. pc' # "parse" \/ count' <= 0 => head' = 0
  BY <1>1, <1>2
<1>8. /\ pc' \in {"resp", "respread", "select", "read", "parse", "command", "dead", "undefined"}
      /\ (pc' \in {"resp", "respread"} => ask' < 9)
      /\ (pc' \in {"read", "respread", "parse"} => bytes' <= Len(port'))
  <2>1. pc' = "resp" => ask < 9
    BY <1>1 DEF BInv
  <2> QED BY <1>1, <2>1
<1> QED BY ONLY <1>3, <1>4, <1>5, <1>6, <1>7, <1>8, Zenon DEF BInv

\* The steps that leave the buffer alone, and init_locbuf.
LEMMA OtherSteps ==
  BInv /\ ( \/ RespInput \/ RespNone \/ RespTimeout \/ RespHangup \/ Input \/ ReadDone
            \/ Command \/ CommandRead \/ CommandDone
            \/ ReadOutside \/ UNCHANGED vars \/ \E b \in Byte : Arrive(b) )
    => BInv'
<1> SUFFICES ASSUME BInv PROVE
      ( \/ RespInput \/ RespNone \/ RespTimeout \/ RespHangup \/ Input \/ ReadDone
        \/ Command \/ CommandRead \/ CommandDone
        \/ ReadOutside \/ UNCHANGED vars \/ \E b \in Byte : Arrive(b) ) => BInv'
  OBVIOUS
<1>1. ASSUME RespInput \/ Input PROVE BInv'
  <2>1. Len(port) \in 0 .. PortCap
    BY BufAssumption DEF BInv
  <2>2. /\ bytes' = Len(port) /\ UNCHANGED <<spc, head, tail, count, port, ask, pset, out, eio>>
        /\ (pc = "resp" /\ pc' = "respread") \/ (pc = "select" /\ pc' = "read")
    BY <1>1 DEF RespInput, Input, buf
  <2>3. /\ bytes' \in 0 .. PortCap /\ bytes' <= Len(port') /\ head' = 0
        /\ (pc' \in {"resp", "respread"} => ask' < 9)
        /\ pc' \in {"respread", "read"}
    BY <2>1, <2>2 DEF BInv
  <2> QED BY <2>2, <2>3 DEF BInv
<1>2. ASSUME RespNone \/ ReadDone \/ ReadOutside \/ Command \/ CommandDone PROVE BInv'
  BY <1>2 DEF RespNone, ReadDone, ReadOutside, Command, CommandDone, BInv, buf
<1>3. ASSUME RespTimeout PROVE BInv'
  <2>1. /\ pc = "resp" /\ out' = <<>> /\ UNCHANGED <<port, bytes, eio>>
        /\ ask \in 1 .. 8 /\ pset \in BOOLEAN /\ head = 0
    BY <1>3 DEF RespTimeout, BInv
  <2>2. out' \in Packets
    <3>1. <<>> \in [1 .. 0 -> Byte] /\ 0 \in 0 .. Size
      BY BufAssumption
    <3> QED BY <2>1, <3>1, ShortPacket
  <2>3. CASE ask < 6
    <3>1. Asking(6) /\ Clear
      BY <1>3, <2>3 DEF RespTimeout
    <3>2. /\ spc' \in [0 .. Size - 1 -> Byte \cup {NUL}]
          /\ head' = 0 /\ tail' = 0 /\ count' = 0
      BY <3>1 DEF Clear, BInv
    <3>3. ask' = 6 /\ pset' = FALSE /\ pc' = "resp"
      BY <3>1 DEF Asking
    <3> QED BY <2>1, <2>2, <3>2, <3>3, BufAssumption DEF BInv
  <2>4. CASE ~(ask < 6)
    <3>1. UNCHANGED buf /\ IF ask = 6 THEN pc' = "dead" /\ UNCHANGED <<ask, pset>>
                                      ELSE Asking(ask + 1)
      BY <1>3, <2>4 DEF RespTimeout
    <3>2. /\ ask' \in 1 .. 9 /\ pset' \in BOOLEAN /\ pc' \in {"dead", "resp", "select"}
          /\ (pc' = "resp" => ask' < 9)
      <4>1. CASE ask = 6
        BY <2>1, <3>1, <4>1
      <4>2. CASE ask = 8
        <5>1. Asking(ask + 1)
          BY <3>1, <4>2
        <5>2. ask' = 9 /\ pset' = FALSE /\ pc' = "select"
          BY <4>2, <5>1 DEF Asking
        <5>3. pset' \in BOOLEAN /\ pc' \in {"dead", "resp", "select"}
          BY <5>2
        <5>4. ask' \in 1 .. 9 /\ pc' # "resp"
          BY <5>2
        <5> QED BY <5>3, <5>4
      <4>3. CASE ask = 7
        <5>1. Asking(ask + 1)
          BY <3>1, <4>3
        <5>2. ask' = 8 /\ pset' = FALSE /\ pc' = "resp"
          BY <4>3, <5>1 DEF Asking
        <5>3. pset' \in BOOLEAN /\ pc' \in {"dead", "resp", "select"}
          BY <5>2
        <5>4. ask' \in 1 .. 9 /\ ask' < 9
          BY <5>2
        <5> QED BY <5>3, <5>4
      <4> QED BY <2>1, <2>4, <4>1, <4>2, <4>3
    <3> QED BY <2>1, <2>2, <3>1, <3>2 DEF BInv, buf
  <2> QED BY <2>3, <2>4
<1>4. ASSUME NEW b \in Byte, Arrive(b) PROVE BInv'
  <2>1. /\ port' = Append(port, b) /\ Len(port) < PortCap
        /\ UNCHANGED <<spc, head, tail, count, bytes, pc, ask, pset, out, eio>>
    BY <1>4 DEF Arrive, buf
  <2>2. port' \in Seq(Byte) /\ Len(port') = Len(port) + 1 /\ Len(port) \in Nat
    BY <2>1 DEF BInv
  <2>3. Len(port') <= PortCap /\ (pc \in {"read", "respread", "parse"} => bytes <= Len(port'))
    BY <2>1, <2>2, BufAssumption DEF BInv
  <2> QED BY <2>1, <2>2, <2>3 DEF BInv
<1>5. ASSUME UNCHANGED vars PROVE BInv'
  BY <1>5 DEF vars, buf, BInv
<1>6. ASSUME RespHangup PROVE BInv'
  <2>1. /\ pc = "resp" /\ bytes' = 0 /\ out' = <<>> /\ UNCHANGED <<buf, port, eio>>
        /\ ask \in 1 .. 8 /\ pset \in BOOLEAN /\ head = 0
        /\ IF ask \in {5, 6} THEN pc' = "dead" /\ UNCHANGED <<ask, pset>> ELSE Asking(ask + 1)
    BY <1>6 DEF RespHangup, BInv
  <2>2. out' \in Packets
    <3>1. <<>> \in [1 .. 0 -> Byte] /\ 0 \in 0 .. Size
      BY BufAssumption
    <3> QED BY <2>1, <3>1, ShortPacket
  <2>3. /\ ask' \in 1 .. 9 /\ pset' \in BOOLEAN /\ pc' \in {"dead", "resp", "select"}
        /\ (pc' = "resp" => ask' < 9)
    <3>1. CASE ask \in {5, 6}
      BY <2>1, <3>1
    <3>2. CASE ask \notin {5, 6}
      <4>1. PICK n \in 1 .. 9 : n = ask + 1
        BY <2>1
      <4>2. ask' = n /\ pset' = FALSE /\ pc' = IF n = 9 THEN "select" ELSE "resp"
        BY <2>1, <3>2, <4>1 DEF Asking
      <4>3. pset' \in BOOLEAN
        BY <4>2
      <4>4. CASE n = 9
        BY <4>2, <4>3, <4>4
      <4>5. CASE n # 9
        BY <4>2, <4>3, <4>5
      <4> QED BY <4>4, <4>5
    <3> QED BY <3>1, <3>2
  <2>4. bytes' \in 0 .. PortCap
    BY <2>1, BufAssumption
  <2> QED BY <2>1, <2>2, <2>3, <2>4 DEF BInv, buf
<1>7. ASSUME CommandRead PROVE BInv'
  <2>1. pc = "command" /\ UNCHANGED <<spc, head, tail, count, bytes, pc, ask, pset, out, eio>>
    BY <1>7 DEF CommandRead, buf
  <2>2. PICK n \in DOMAIN port : port' = SubSeq(port, n + 1, Len(port))
    BY <1>7 DEF CommandRead
  <2>3. port \in Seq(Byte) /\ n \in 1 .. Len(port) /\ Len(port) \in Nat
    BY <2>2 DEF BInv
  <2>4. port' \in Seq(Byte) /\ Len(port') = Len(port) - n
    BY <2>2, <2>3
  <2>5. Len(port') <= PortCap
    BY <2>3, <2>4, BufAssumption DEF BInv
  <2> QED BY <2>1, <2>4, <2>5 DEF BInv
<1> QED BY <1>1, <1>2, <1>3, <1>4, <1>5, <1>6, <1>7

\* The buffer is well formed whatever arrives and however it is cut up: the
\* inductive invariant of the receive buffer (locbuf.c under get_resp, ldu_loop).
THEOREM BufInvariance == Spec => []BInv
<1>1. BInv /\ [Next]_vars => BInv'
  BY ReadStep, RespReadStep, PacketStep, NoPacketStep, ReadErrorStep, OtherSteps
  DEF Next, Thread
<1> QED BY <1>1, BInvInit, PTL DEF Spec

\* head, tail and count, and all else in locbuf.c, keep their type.
THEOREM BufTypeCorrect == Spec => []TypeOK
BY BufInvariance, BInvTypes, PTL

\* Every read of get_fromfd ends inside spc, until one has failed.
THEOREM ReadsFit == Spec => []ReadFits
BY BufInvariance, BInvFits, PTL
-----------------------------------------------------------------------------
(* The buffer implements the framer                                         *)

\* The bytes received and not yet handed out.
Pend == Text(head, tail) \o port

\* The bytes of f from offset i up to j, j excluded.
Line(f, i, j) == [n \in 1 .. j - i |-> f[i + n - 1]]

\* The stream runs in ldu_loop only.
StreamInv == pc \in {"select", "read", "parse", "command"} => ask = 9

\* But for the packet loop, the bytes held are a piece of one packet.
PieceInv == pc # "parse" => \A i \in head .. tail - 1 : spc[i] # CR

\* all is m bytes of f from offset i on, followed by p.
Joins(all, f, i, m, p) ==
  /\ all \in Seq(Byte) /\ Len(all) = m + Len(p)
  /\ \A n \in 1 .. m : all[n] = f[i + n - 1]
  /\ \A n \in m + 1 .. m + Len(p) : all[n] = p[n - m]

\* Bytes of a buffer, followed by what the port holds.
LEMMA Joined ==
  ASSUME NEW f, NEW i \in Nat, NEW m \in Nat, NEW j \in Nat, j = i + m,
         NEW p \in Seq(Byte), \A n \in i .. j - 1 : f[n] \in Byte
  PROVE  Joins(Line(f, i, j) \o p, f, i, m, p)
<1>1. m = j - i
  OBVIOUS
<1>2. Line(f, i, j) \in Seq(Byte) /\ Len(Line(f, i, j)) = m
      /\ \A n \in 1 .. m : Line(f, i, j)[n] = f[i + n - 1]
  <2>1. \A n \in 1 .. m : f[i + n - 1] \in Byte
    BY <1>1
  <2> QED BY <1>1, <2>1 DEF Line
<1>3. /\ Line(f, i, j) \o p \in Seq(Byte)
      /\ Len(Line(f, i, j) \o p) = m + Len(p)
      /\ \A n \in 1 .. m + Len(p) :
           (Line(f, i, j) \o p)[n] = IF n <= m THEN Line(f, i, j)[n] ELSE p[n - m]
  <2>1. PICK s \in Seq(Byte) : s = Line(f, i, j)
    BY <1>2
  <2>2. /\ s \o p \in Seq(Byte) /\ Len(s \o p) = Len(s) + Len(p)
        /\ \A n \in 1 .. Len(s) + Len(p) : (s \o p)[n] = IF n <= Len(s) THEN s[n] ELSE p[n - Len(s)]
    BY ConcatProperties
  <2>3. Len(s) = m
    BY <1>2, <2>1
  <2> QED BY ONLY <2>1, <2>2, <2>3
<1>4. Len(p) \in Nat
  OBVIOUS
<1>5. PICK all : all = Line(f, i, j) \o p
  OBVIOUS
<1>6. /\ all \in Seq(Byte) /\ Len(all) = m + Len(p)
      /\ \A n \in 1 .. m + Len(p) : all[n] = IF n <= m THEN Line(f, i, j)[n] ELSE p[n - m]
  BY <1>3, <1>5
<1>7. PICK s : s = Line(f, i, j)
  OBVIOUS
<1>8. \A n \in 1 .. m : s[n] = f[i + n - 1]
  BY <1>2, <1>7
<1>9. \A n \in 1 .. m + Len(p) : all[n] = IF n <= m THEN s[n] ELSE p[n - m]
  BY <1>6, <1>7
<1>10. ASSUME NEW n \in 1 .. m PROVE all[n] = f[i + n - 1]
  <2>1. n \in 1 .. m + Len(p) /\ n <= m
    BY <1>4
  <2> QED BY ONLY <1>8, <1>9, <2>1, n \in 1 .. m
<1>11. ASSUME NEW n \in m + 1 .. m + Len(p) PROVE all[n] = p[n - m]
  <2>1. n \in 1 .. m + Len(p) /\ ~(n <= m)
    BY <1>4
  <2> QED BY ONLY <1>9, <2>1
<1>12. Joins(all, f, i, m, p)
  BY <1>6, <1>10, <1>11 DEF Joins
<1> QED BY <1>5, <1>12

\* What is pending, byte by byte.
LEMMA PendBytes ==
  ASSUME BInv, count >= 0
  PROVE  /\ head \in Nat /\ tail \in Nat /\ head <= tail /\ tail = head + count
         /\ Pend = Line(spc, head, tail) \o port
         /\ Joins(Pend, spc, head, count, port) /\ Len(port) \in Nat
<1>1. /\ head \in Nat /\ count \in Nat /\ tail \in Nat /\ head <= tail /\ tail = head + count
      /\ port \in Seq(Byte) /\ \A n \in head .. tail - 1 : spc[n] \in Byte
  BY DEF BInv
<1>2. Pend = Line(spc, head, tail) \o port
  BY DEF Pend, Text, Line
<1>3. Len(port) \in Nat
  BY <1>1
<1>4. PICK p \in Seq(Byte) : p = port
  BY <1>1
<1>9. PICK f : f = spc
  OBVIOUS
<1>5. PICK h \in Nat, m \in Nat, t \in Nat : h = head /\ m = count /\ t = tail
  BY <1>1
<1>6. t = h + m /\ \A n \in h .. t - 1 : f[n] \in Byte
  BY <1>1, <1>5, <1>9
<1>7. Joins(Line(f, h, t) \o p, f, h, m, p)
  BY <1>6, Joined
<1>8. Pend = Line(f, h, t) \o p
  BY <1>2, <1>4, <1>5, <1>9
<1>10. Joins(Pend, spc, head, count, port)
  BY ONLY <1>4, <1>5, <1>7, <1>8, <1>9
<1> QED BY ONLY <1>1, <1>2, <1>3, <1>10

\* get_fromfd moves bytes from the port into the buffer and loses none.
LEMMA FillKeeps ==
  ASSUME BInv, pc \in {"read", "respread"}, GetFromFd
  PROVE  /\ head = 0 /\ tail = count /\ tail \in Nat
         /\ Line(Filled, 0, tail + Chunk) \o port' = Pend
<1>1. /\ Chunk \in 1 .. Size - tail /\ Chunk <= bytes
      /\ port' \in Seq(Byte) /\ Len(port') = Len(port) - Chunk
      /\ \A i \in head .. tail + Chunk - 1 : Filled[i] \in Byte
  BY Reading
<1>2. PICK k \in Nat : k = Chunk
  BY <1>1
<1>3. head = 0 /\ tail = count /\ tail \in Nat /\ count >= 0
  BY DEF BInv, GetFromFd
<1>4. PICK t \in Nat : t = tail
  BY <1>3
<1>5. /\ Pend \in Seq(Byte) /\ Len(Pend) = t + Len(port) /\ Len(port) \in Nat
      /\ \A n \in 1 .. t : Pend[n] = spc[n - 1]
      /\ \A n \in t + 1 .. t + Len(port) : Pend[n] = port[n - t]
  <2>1. Joins(Pend, spc, 0, t, port) /\ Len(port) \in Nat
    BY <1>3, <1>4, PendBytes
  <2>2. \A n \in 1 .. t : 0 + n - 1 = n - 1
    OBVIOUS
  <2> QED BY ONLY <2>1, <2>2 DEF Joins
<1>6. k <= Len(port) /\ t + k <= Size /\ Size \in Nat
  BY <1>1, <1>2, <1>4, BufAssumption DEF BInv
<1>7. port' = SubSeq(port, k + 1, Len(port))
  BY <1>2 DEF GetFromFd
<1>8. \A n \in 1 .. Len(port) - k : port'[n] = port[k + n]
  BY <1>5, <1>6, <1>7 DEF BInv
<1>9. \A i \in 0 .. t + k - 1 : Filled[i] = IF i < t THEN spc[i] ELSE port[i - t + 1]
  <2>1. Filled = [i \in 0 .. Size - 1 |->
                    IF i \in t .. t + k - 1 THEN port[i - t + 1] ELSE spc[i]]
    BY <1>2, <1>4 DEF Filled, BInv
  <2> QED BY <1>6, <2>1
<1> DEFINE all == Line(Filled, 0, t + k) \o port'
<1>10. /\ all \in Seq(Byte) /\ Len(all) = t + k + Len(port')
       /\ \A n \in 1 .. t + k : all[n] = Filled[n - 1]
       /\ \A n \in t + k + 1 .. t + k + Len(port') : all[n] = port'[n - (t + k)]
  <2>1. \A n \in 0 .. t + k - 1 : Filled[n] \in Byte
    BY <1>1, <1>2, <1>3, <1>4
  <2>2. PICK p \in Seq(Byte) : p = port'
    BY <1>1
  <2>6. PICK f : f = Filled
    OBVIOUS
  <2>3. Joins(Line(f, 0, t + k) \o p, f, 0, t + k, p)
    <3>1. 0 \in Nat /\ t + k \in Nat /\ t + k = 0 + (t + k)
      OBVIOUS
    <3>2. \A n \in 0 .. (t + k) - 1 : f[n] \in Byte
      BY <2>1, <2>6
    <3> QED BY ONLY <3>1, <3>2, Joined, p \in Seq(Byte)
  <2>4. all = Line(f, 0, t + k) \o p
    BY <2>2, <2>6
  <2>5. \A n \in 1 .. t + k : 0 + n - 1 = n - 1
    OBVIOUS
  <2> HIDE DEF all, Filled
  <2>7. Joins(all, Filled, 0, t + k, port')
    BY ONLY <2>2, <2>3, <2>4, <2>6
  <2> QED BY ONLY <2>5, <2>7 DEF Joins
<1> HIDE DEF all, Filled
<1>11. Len(all) = Len(Pend)
  BY <1>1, <1>2, <1>5, <1>6, <1>10
<1>12. ASSUME NEW n \in 1 .. Len(Pend) PROVE all[n] = Pend[n]
  <2>1. CASE n \in 1 .. t
    BY <1>5, <1>9, <1>10, <2>1
  <2>2. CASE n \in t + 1 .. t + k
    <3>1. n - 1 \in 0 .. t + k - 1 /\ ~(n - 1 < t) /\ (n - 1) - t + 1 = n - t
      BY <2>2
    <3>2. n \in t + 1 .. t + Len(port) /\ n \in 1 .. t + k
      BY <1>5, <1>6, <2>2
    <3> QED BY <1>5, <1>9, <1>10, <3>1, <3>2
  <2>3. CASE n \in t + k + 1 .. t + Len(port)
    <3>1. /\ n \in t + k + 1 .. t + k + Len(port') /\ n - (t + k) \in 1 .. Len(port) - k
          /\ k + (n - (t + k)) = n - t /\ n \in t + 1 .. t + Len(port)
      <4>1. Len(port') = Len(port) - k
        BY <1>1, <1>2
      <4> QED BY ONLY <1>5, <1>6, <2>3, <4>1, k \in Nat, t \in Nat
    <3> QED BY <1>5, <1>8, <1>10, <3>1
  <2> QED BY <1>5, <2>1, <2>2, <2>3
<1>13. all = Pend
  BY <1>5, <1>10, <1>11, <1>12, SeqEqual
<1> QED BY <1>2, <1>3, <1>4, <1>13 DEF all

\* Equal bytes, followed by the same port, are equal.
LEMMA SameBytes ==
  ASSUME NEW f, NEW g, NEW i, NEW j, NEW m \in Nat, NEW p, Len(p) \in Nat,
         NEW all, Joins(all, f, i, m, p), NEW more, Joins(more, g, j, m, p),
         \A n \in 1 .. m : f[i + n - 1] = g[j + n - 1]
  PROVE  all = more
<1>1. /\ all \in Seq(Byte) /\ more \in Seq(Byte)
      /\ Len(all) = m + Len(p) /\ Len(more) = m + Len(p)
  BY DEF Joins
<1>2. ASSUME NEW n \in 1 .. Len(all) PROVE all[n] = more[n]
  <2>1. CASE n \in 1 .. m
    BY <2>1 DEF Joins
  <2>2. CASE n \in m + 1 .. m + Len(p)
    BY <2>2 DEF Joins
  <2> QED BY <1>1, <2>1, <2>2
<1> QED BY <1>1, <1>2, SeqEqual

\* Without its first k bytes, what is joined is what is left of f and the port.
LEMMA DropBytes ==
  ASSUME NEW f, NEW i \in Nat, NEW m \in Nat, NEW k \in 0 .. m, NEW p, Len(p) \in Nat,
         NEW all, Joins(all, f, i, m, p),
         NEW rest, Joins(rest, f, i + k, m - k, p)
  PROVE  rest = SubSeq(all, k + 1, Len(all))
<1>1. /\ all \in Seq(Byte) /\ Len(all) = m + Len(p)
      /\ rest \in Seq(Byte) /\ Len(rest) = m - k + Len(p)
  BY DEF Joins
<1> DEFINE sub == SubSeq(all, k + 1, Len(all))
<1>2. \A n \in k + 1 .. Len(all) : all[n] \in Byte
  BY <1>1
<1>3. /\ sub \in Seq(Byte) /\ Len(sub) = Len(all) - k
      /\ \A n \in 1 .. Len(all) - k : sub[n] = all[k + n]
  <2>1. k + 1 \in Int /\ Len(all) \in Int
    BY <1>1
  <2>2. /\ sub \in Seq(Byte)
        /\ Len(sub) = IF k + 1 <= Len(all) THEN Len(all) - (k + 1) + 1 ELSE 0
        /\ \A n \in 1 .. Len(all) - (k + 1) + 1 : sub[n] = all[(k + 1) + n - 1]
    BY ONLY <1>2, <2>1, SubSeqProperties
  <2>3. \A n \in 1 .. Len(all) - k : (k + 1) + n - 1 = k + n
    OBVIOUS
  <2> QED BY <1>1, <2>2, <2>3
<1> HIDE DEF sub
<1>4. ASSUME NEW n \in 1 .. Len(rest) PROVE rest[n] = sub[n]
  <2>1. sub[n] = all[k + n]
    BY <1>1, <1>3
  <2>2. CASE n \in 1 .. m - k
    <3>1. k + n \in 1 .. m /\ i + (k + n) - 1 = (i + k) + n - 1
      BY <2>2
    <3> QED BY <2>1, <2>2, <3>1 DEF Joins
  <2>3. CASE n \in m - k + 1 .. m - k + Len(p)
    <3>1. k + n \in m + 1 .. m + Len(p) /\ (k + n) - m = n - (m - k)
      BY <2>3
    <3> QED BY <2>1, <2>3, <3>1 DEF Joins
  <2> QED BY <1>1, <2>2, <2>3
<1>5. rest = sub
  BY <1>1, <1>3, <1>4, SeqEqual
<1> QED BY <1>5 DEF sub

\* Of m bytes from offset i on, the bytes c to l lie from offset a up to b.
Within(i, m, c, l, a, b) ==
  /\ i \in Nat /\ m \in Nat /\ l \in 1 .. m /\ c \in 1 .. l
  /\ a = i + c - 1 /\ b = i + l

\* The bytes c to l of all.
Piece(all, c, l) == SubSeq(all, c, l)

\* Bytes c to l of what is joined are a part of f.
LEMMA PieceBytes ==
  ASSUME NEW f, NEW i, NEW m, NEW p, Len(p) \in Nat, NEW all, Joins(all, f, i, m, p),
         NEW l, NEW c, NEW a, NEW b, Within(i, m, c, l, a, b)
  PROVE  Line(f, a, b) = Piece(all, c, l)
<1>0. PICK k \in Nat : /\ i \in Nat /\ m \in Nat /\ l \in 1 .. m /\ k \in 0 .. l - 1
                       /\ c = k + 1 /\ a = i + k /\ b = i + l
  <2>1. /\ i \in Nat /\ m \in Nat /\ l \in 1 .. m /\ c \in 1 .. l
        /\ a = i + c - 1 /\ b = i + l
    BY DEF Within
  <2>2. c - 1 \in Nat /\ c - 1 \in 0 .. l - 1 /\ c = (c - 1) + 1 /\ a = i + (c - 1)
    BY <2>1
  <2> QED BY <2>1, <2>2
<1>1. /\ all \in Seq(Byte) /\ Len(all) = m + Len(p)
      /\ \A n \in 1 .. m : all[n] = f[i + n - 1]
  BY DEF Joins
<1> DEFINE sub == SubSeq(all, k + 1, l)
           piece == Line(f, i + k, i + l)
<1>2. \A n \in k + 1 .. l : all[n] \in Byte
  BY <1>0, <1>1
<1>3. /\ sub \in Seq(Byte) /\ Len(sub) = l - k
      /\ \A n \in 1 .. l - k : sub[n] = all[k + n]
  <2>1. k + 1 \in Int /\ l \in Int /\ k + 1 <= l
    BY <1>0
  <2>2. /\ sub \in Seq(Byte)
        /\ Len(sub) = IF k + 1 <= l THEN l - (k + 1) + 1 ELSE 0
        /\ \A n \in 1 .. l - (k + 1) + 1 : sub[n] = all[(k + 1) + n - 1]
    BY ONLY <1>2, <2>1, SubSeqProperties
  <2>3. l - (k + 1) + 1 = l - k /\ \A n \in 1 .. l - k : (k + 1) + n - 1 = k + n
    BY <1>0
  <2> QED BY <2>1, <2>2, <2>3
<1> HIDE DEF sub
<1>4. \A n \in 1 .. l - k : all[k + n] = f[(i + k) + n - 1]
  <2> SUFFICES ASSUME NEW n \in 1 .. l - k PROVE all[k + n] = f[(i + k) + n - 1]
    OBVIOUS
  <2>1. k + n \in 1 .. m /\ i + (k + n) - 1 = (i + k) + n - 1
    BY <1>0
  <2> QED BY <1>1, <2>1
<1>5. piece = [n \in 1 .. l - k |-> f[(i + k) + n - 1]]
  <2>1. (i + l) - (i + k) = l - k
    BY <1>0
  <2> QED BY <2>1 DEF Line
<1> HIDE DEF piece
<1>6. piece \in Seq(Byte) /\ Len(piece) = l - k
      /\ \A n \in 1 .. l - k : piece[n] = f[(i + k) + n - 1]
  <2>1. PICK len \in Nat : len = l - k
    BY <1>0
  <2>2. \A n \in 1 .. len : all[k + n] \in Byte
    <3>1. \A n \in 1 .. len : k + n \in k + 1 .. l
      BY <1>0, <2>1
    <3> QED BY <1>2, <3>1
  <2>3. piece = [n \in 1 .. len |-> f[(i + k) + n - 1]]
    BY <1>5, <2>1
  <2>4. piece \in [1 .. len -> Byte]
    BY <1>4, <2>1, <2>2, <2>3
  <2>5. piece \in Seq(Byte) /\ Len(piece) = len
    BY ONLY <2>4, len \in Nat
  <2> QED BY <2>1, <2>3, <2>5
<1>7. piece = sub
  <2>1. \A n \in 1 .. Len(piece) : piece[n] = sub[n]
    BY <1>3, <1>4, <1>6
  <2> QED BY <1>3, <1>6, <2>1, SeqEqual
<1> QED BY <1>0, <1>7 DEF piece, sub, Piece

\* ldu_loop runs once SZ has been answered.
LEMMA StreamInvStep == BInv /\ StreamInv /\ [Next]_vars => StreamInv'
<1> SUFFICES ASSUME BInv, StreamInv, [Next]_vars PROVE StreamInv'
  OBVIOUS
<1>1. CASE RespRead
  <2>1. pc = "respread"
    BY <1>1 DEF RespRead
  <2>2. CASE out' = <<>>
    BY <1>1, <2>1, <2>2 DEF RespRead, StreamInv
  <2>3. CASE out' # <<>>
    <3>1. PICK n : Asking(n)
      BY <1>1, <2>3 DEF RespRead
    <3> QED BY <3>1 DEF Asking, StreamInv
  <2> QED BY <2>2, <2>3
<1>2. CASE RespTimeout \/ RespHangup
  <2>1. pc = "resp" /\ ((pc' = "dead") \/ \E n : Asking(n))
    BY <1>2 DEF RespTimeout, RespHangup
  <2> QED BY <2>1 DEF Asking, StreamInv
<1>3. CASE \/ RespInput \/ RespNone \/ Input \/ Read \/ ReadDone \/ Packet \/ NoPacket
           \/ Command \/ CommandRead \/ CommandDone
  BY <1>3
  DEF RespInput, RespNone, Input, Read, ReadDone, Packet, NoPacket, StreamInv, Command,
      CommandRead, CommandDone
<1>4. CASE ReadOutside \/ ReadError
  BY <1>4 DEF ReadOutside, ReadError, StreamInv
<1>5. CASE UNCHANGED vars \/ \E b \in Byte : Arrive(b)
  BY <1>5 DEF vars, Arrive, StreamInv
<1> QED BY <1>1, <1>2, <1>3, <1>4, <1>5 DEF Next, Thread

\* A search that fails leaves no CR in the bytes held; nothing else puts one there.
LEMMA PieceInvStep == BInv /\ PieceInv /\ [Next]_vars => PieceInv'
<1> SUFFICES ASSUME BInv, PieceInv, [Next]_vars PROVE PieceInv'
  OBVIOUS
<1>1. CASE NoPacket
  <2>1. /\ pc = "parse" /\ Compact
        /\ CR \notin {spc[i] : i \in head .. tail - 1}
    BY <1>1 DEF NoPacket
  <2>2. /\ count \in Nat /\ tail = head + count /\ tail <= Size /\ head \in Nat
        /\ spc \in [0 .. Size - 1 -> Byte \cup {NUL}]
    BY <2>1 DEF BInv
  <2>3. \A i \in head .. tail - 1 : spc[i] # CR
    BY <2>1
  <2>4. CASE count # 0 /\ head > 0
    <3>1. spc' = Moved(spc, head, count) /\ head' = 0 /\ tail' = count
      BY <2>1, <2>4 DEF Compact
    <3>2. spc' = [i \in 0 .. Size - 1 |-> IF i < count THEN spc[head + i] ELSE spc[i]]
      BY <2>2, <3>1 DEF Moved
    <3>3. ASSUME NEW i \in 0 .. count - 1 PROVE spc'[i] # CR
      <4>1. i \in 0 .. Size - 1 /\ i < count /\ head + i \in head .. tail - 1
        BY <2>2, BufAssumption
      <4>2. spc'[i] = spc[head + i]
        BY <3>2, <4>1
      <4> QED BY <2>3, <4>1, <4>2
    <3> QED BY <3>1, <3>3 DEF PieceInv
  <2>5. CASE ~(count # 0 /\ head > 0)
    BY <2>1, <2>3, <2>5 DEF Compact, PieceInv
  <2> QED BY <2>4, <2>5
<1>2. CASE RespRead
  <2>1. /\ pc = "respread" /\ pc \in {"read", "respread"} /\ GetFromFd
        /\ LastBySym(Filled, count + Chunk - 1)
    BY <1>2 DEF RespRead
  <2>2. /\ Filled \in [0 .. Size - 1 -> Byte \cup {NUL}]
        /\ Chunk \in 1 .. Size - tail
    BY <2>1, Reading
  <2>3. head = 0 /\ tail = count /\ tail \in Nat
    BY <2>1 DEF BInv, GetFromFd
  <2>4. PICK q \in 0 .. Size - 1 : q = count + Chunk - 1
    <3>1. PICK k \in 1 .. Size - tail : k = Chunk
      BY <2>2
    <3>2. tail + k - 1 \in 0 .. Size - 1
      BY <2>3, BufAssumption
    <3> QED BY ONLY <2>3, <3>1, <3>2
  <2>5. PICK f : f = Filled
    OBVIOUS
  <2>6. LastBySym(f, q)
    BY <2>1, <2>4, <2>5
  <2>7. PICK p \in 0 .. q :
          /\ Begins(p, f, q) /\ head' = 0
          /\ IF f[q] = CR THEN tail' = 0
             ELSE tail' = q - p + 1 /\ spc' = Moved(f, p, q - p + 1)
    BY <2>3, <2>6 DEF LastBySym
  <2>8. CASE f[q] = CR
    BY <2>7, <2>8 DEF PieceInv
  <2>9. CASE f[q] # CR
    <3>1. PICK n \in 1 .. Size : n = q - p + 1
      BY <2>7, BufAssumption
    <3>2. spc' = [i \in 0 .. Size - 1 |-> IF i < n THEN f[p + i] ELSE f[i]]
      BY <2>2, <2>5, <2>7, <2>9, <3>1 DEF Moved
    <3>3. \A i \in p .. q - 1 : f[i] # CR
      BY <2>7 DEF Begins
    <3>4. \A i \in p .. q : f[i] # CR
      BY <2>9, <3>3
    <3>5. ASSUME NEW i \in 0 .. n - 1 PROVE spc'[i] # CR
      <4>1. i \in 0 .. Size - 1 /\ i < n /\ p + i \in p .. q
        BY <3>1, BufAssumption
      <4> QED BY <3>2, <3>4, <4>1
    <3> QED BY <2>7, <2>9, <3>1, <3>5 DEF PieceInv
  <2> QED BY <2>8, <2>9
<1>3. CASE ReadError
  BY <1>3 DEF ReadError, PieceInv, BInv
<1>4. CASE RespTimeout
  <2>1. (head' = 0 /\ tail' = 0) \/ (pc = "resp" /\ UNCHANGED <<spc, head, tail>>)
    BY <1>4 DEF RespTimeout, Clear, buf
  <2> QED BY <2>1 DEF PieceInv
<1>5. CASE Read \/ Packet
  BY <1>5 DEF Read, Packet, PieceInv
<1>6. CASE \/ RespInput \/ RespNone \/ RespHangup \/ Input \/ ReadDone \/ ReadOutside
           \/ Command \/ CommandRead \/ CommandDone \/ UNCHANGED vars
           \/ \E b \in Byte : Arrive(b)
  <2>1. UNCHANGED <<spc, head, tail>> /\ (pc = "parse" => pc' = "parse")
    BY <1>6
    DEF RespInput, RespNone, RespHangup, Input, ReadDone, ReadOutside, Command, CommandRead,
        CommandDone, Arrive, buf, vars
  <2> QED BY <2>1 DEF PieceInv
<1> QED BY <1>1, <1>2, <1>3, <1>4, <1>5, <1>6 DEF Next, Thread

\* The port has failed, or the thread has gone astray.
Broken == eio \/ pc = "undefined"

\* A command is being carried out.
Commanding == pc = "command"

\* A step of the framer, from what happens to the bytes pending.
LEMMA AsTaken ==
  Pend' = Pend /\ out' = <<>> /\ ((ask = 9)' <=> ask = 9) /\ (Broken' <=> Broken)
    /\ (Commanding' <=> Commanding)
    => Frames!Taken
BY DEF Pend, Broken, Commanding, Frames!Taken

LEMMA AsDrop ==
  ASSUME ask # 9, ask' = ask \/ ask' # 9, out' = <<>>, Broken' <=> Broken,
         Commanding' <=> Commanding,
         NEW k \in DOMAIN Pend, Pend' = SubSeq(Pend, k + 1, Len(Pend))
  PROVE  Frames!Drop
BY DEF Pend, Broken, Commanding, Frames!Drop, Frames!From

LEMMA AsStart ==
  ask # 9 /\ ask' = 9 /\ out' = <<>> /\ Pend' = Pend /\ (Broken' <=> Broken)
    /\ (Commanding' <=> Commanding)
    => Frames!Start
BY DEF Pend, Broken, Commanding, Frames!Start

LEMMA AsHandOut ==
  ASSUME NEW i \in DOMAIN Pend, NEW j \in i .. Len(Pend), Pend[j] = CR,
         \A n \in i .. j - 1 : Pend[n] # CR, i = 1 \/ Pend[i - 1] = CR,
         out' = SubSeq(Pend, i, j), Pend' = SubSeq(Pend, j + 1, Len(Pend)),
         Broken' <=> Broken
  PROVE  Frames!HandOut(i, j)
BY DEF Pend, Broken, Frames!HandOut, Frames!IsPacket, Frames!From

LEMMA AsNothing ==
  Pend' = Pend /\ out' = out /\ ((ask = 9)' <=> ask = 9) /\ (Broken' <=> Broken)
    /\ (Commanding' <=> Commanding)
    => UNCHANGED Frames!vars
BY DEF Pend, Broken, Commanding, Frames!vars

LEMMA AsCommand ==
  ask = 9 /\ ask' = 9 /\ Pend' = Pend /\ out' = out /\ (Broken' <=> Broken)
    /\ (Commanding' <=> ~Commanding)
    => Frames!Command
BY DEF Pend, Broken, Commanding, Frames!Command

LEMMA AsLose ==
  ASSUME Commanding, Commanding', out' = out, (ask = 9)' <=> ask = 9, Broken' <=> Broken,
         NEW i \in 0 .. Len(Pend), NEW j \in DOMAIN Pend, i < j,
         \A n \in 1 .. i : Pend[n] # CR,
         Pend' = SubSeq(Pend, 1, i) \o SubSeq(Pend, j + 1, Len(Pend))
  PROVE  Frames!Lose
BY DEF Pend, Broken, Commanding, Frames!Lose, Frames!From

LEMMA AsBroken == Broken' => Frames!Next
BY DEF Broken, Frames!Next

\* What is pending after a step, byte by byte.
LEMMA PendNext ==
  ASSUME BInv', count' >= 0
  PROVE  /\ Joins(Pend', spc', head', count', port') /\ Len(port') \in Nat
         /\ head' \in Nat /\ count' \in Nat /\ tail' = head' + count'
<1>1. /\ head' \in Nat /\ count' \in Nat /\ tail' \in Nat /\ tail' = head' + count'
      /\ port' \in Seq(Byte) /\ \A n \in head' .. tail' - 1 : spc'[n] \in Byte
  <2>1. head' \in Nat /\ count' \in Int /\ tail' = head' + count'
    BY DEF BInv
  <2>2. port' \in Seq(Byte)
    BY DEF BInv
  <2>3. \A n \in head' .. tail' - 1 : spc'[n] \in Byte
    BY DEF BInv
  <2>4. PICK c \in Int, h \in Nat : c = count' /\ h = head'
    BY <2>1
  <2>5. c >= 0
    BY ONLY <2>4, count' >= 0
  <2>6. c \in Nat /\ h + c \in Nat
    BY <2>5
  <2> QED BY ONLY <2>1, <2>2, <2>3, <2>4, <2>6
<1>2. Pend' = Line(spc', head', tail') \o port'
  BY DEF Pend, Text, Line
<1>3. Len(port') \in Nat
  BY <1>1
<1>4. PICK p \in Seq(Byte) : p = port'
  BY <1>1
<1>5. PICK f : f = spc'
  OBVIOUS
<1>6. PICK h \in Nat, m \in Nat, t \in Nat : h = head' /\ m = count' /\ t = tail'
  BY <1>1
<1>7. t = h + m /\ \A n \in h .. t - 1 : f[n] \in Byte
  BY <1>1, <1>5, <1>6
<1>8. Joins(Line(f, h, t) \o p, f, h, m, p)
  BY <1>7, Joined
<1>9. Pend' = Line(f, h, t) \o p
  BY <1>2, <1>4, <1>5, <1>6
<1>10. Joins(Pend', spc', head', count', port')
  BY ONLY <1>4, <1>5, <1>6, <1>8, <1>9
<1> QED BY ONLY <1>1, <1>3, <1>10

\* A byte comes in.
LEMMA ArriveFrames == BInv /\ (\E b \in Byte : Arrive(b)) => Frames!Next
<1> SUFFICES ASSUME BInv, NEW b \in Byte, Arrive(b) PROVE Frames!Next
  OBVIOUS
<1>1. port' = Append(port, b) /\ UNCHANGED <<spc, head, tail, out, ask, eio, pc>>
  BY DEF Arrive, buf
<1>2. Text(head, tail)' = Text(head, tail)
  BY <1>1 DEF Text
<1>3. CASE eio \/ count >= 0
  <2>1. CASE eio
    BY <1>1, <2>1, AsBroken DEF Broken
  <2>2. CASE count >= 0
    <3>1. Text(head, tail) \in Seq(Byte) /\ port \in Seq(Byte)
      <4>1. PICK m \in Nat : m = tail - head
        BY <2>2 DEF BInv
      <4>2. \A n \in 1 .. m : spc[head + n - 1] \in Byte
        BY <4>1 DEF BInv
      <4>3. Text(head, tail) = [n \in 1 .. m |-> spc[head + n - 1]]
        BY <4>1 DEF Text
      <4>4. Text(head, tail) \in [1 .. m -> Byte]
        BY <4>2, <4>3
      <4> QED BY <4>1, <4>4 DEF BInv
    <3>2. PICK t \in Seq(Byte), p \in Seq(Byte) : t = Text(head, tail) /\ p = port
      BY <3>1
    <3>3. t \o Append(p, b) = Append(t \o p, b)
      <4>1. Append(p, b) = p \o <<b>> /\ Append(t \o p, b) = (t \o p) \o <<b>>
        BY AppendIsConcat, ConcatProperties
      <4>2. <<b>> \in Seq(Byte)
        OBVIOUS
      <4> QED BY <4>1, <4>2, ConcatAssociative
    <3>4. (Text(head, tail) \o port)' = Append(Text(head, tail) \o port, b)
      BY <1>1, <1>2, <3>2, <3>3
    <3>5. UNCHANGED <<out, (ask = 9), (pc = "command"), (eio \/ pc = "undefined")>>
      BY <1>1
    <3>6. Frames!Arrive
      BY <3>4, <3>5 DEF Frames!Arrive
    <3> QED BY <3>6 DEF Frames!Next
  <2> QED BY <1>3, <2>1, <2>2
<1> QED BY <1>3 DEF BInv

\* The steps of the thread that read nothing and hand out nothing.
LEMMA QuietFrames ==
  BInv /\ (RespInput \/ Input \/ RespNone \/ ReadDone \/ ReadOutside \/ ReadError
           \/ UNCHANGED vars)
    => Frames!Next \/ UNCHANGED Frames!vars
<1> SUFFICES ASSUME BInv,
      RespInput \/ Input \/ RespNone \/ ReadDone \/ ReadOutside \/ ReadError \/ UNCHANGED vars
    PROVE Frames!Next \/ UNCHANGED Frames!vars
  OBVIOUS
<1>1. CASE RespInput \/ Input \/ ReadDone \/ (RespNone /\ pc' # "undefined") \/ UNCHANGED vars
  <2>1. UNCHANGED <<spc, head, tail, port, out, ask, eio>>
    BY <1>1 DEF RespInput, Input, ReadDone, RespNone, buf, vars
  <2>2. /\ pc' = "undefined" <=> pc = "undefined"
        /\ Commanding' <=> Commanding
    BY <1>1 DEF RespInput, Input, ReadDone, RespNone, vars, Commanding
  <2>3. Pend' = Pend
    BY <2>1 DEF Pend, Text
  <2>4. Broken' <=> Broken
    BY <2>1, <2>2 DEF Broken
  <2>5. out' = out /\ ((ask = 9)' <=> ask = 9)
    BY <2>1
  <2> QED BY <2>2, <2>3, <2>4, <2>5, AsNothing
<1>2. CASE ReadOutside \/ ReadError \/ (RespNone /\ pc' = "undefined")
  <2>1. Broken'
    BY <1>2 DEF ReadOutside, ReadError, Broken
  <2> QED BY <2>1, AsBroken
<1> QED BY <1>1, <1>2

\* A read of ldu_loop: what is pending stays pending.
LEMMA ReadFrames == BInv /\ Read => UNCHANGED Frames!vars
<1> SUFFICES ASSUME BInv, Read PROVE UNCHANGED Frames!vars
  OBVIOUS
<1>1. /\ pc = "read" /\ pc' = "parse" /\ GetFromFd /\ spc' = Filled /\ tail' = tail + Chunk
      /\ UNCHANGED <<head, ask, out, eio>>
  BY DEF Read
<1>2. head = 0 /\ Line(Filled, 0, tail + Chunk) \o port' = Pend
  BY <1>1, FillKeeps
<1>3. Pend' = Line(spc', head', tail') \o port'
  BY DEF Pend, Text, Line
<1>4. PICK f, t : f = Filled /\ t = tail + Chunk
  OBVIOUS
<1>5. Pend' = Pend
  BY <1>1, <1>2, <1>3, <1>4
<1>6. (Broken' <=> Broken) /\ (Commanding' <=> Commanding)
  BY <1>1 DEF Broken, Commanding
<1>7. out' = out /\ ((ask = 9)' <=> ask = 9)
  BY <1>1
<1> QED BY <1>5, <1>6, <1>7, AsNothing

\* Silence: what there is of an answer to ID is dropped, or the next question is asked.
LEMMA TimeoutFrames == BInv /\ BInv' /\ RespTimeout => Frames!Next
<1> SUFFICES ASSUME BInv, BInv', RespTimeout PROVE Frames!Next
  OBVIOUS
<1>1. /\ pc = "resp" /\ port = <<>> /\ out' = <<>> /\ port' = port /\ eio' = eio /\ ask < 9
      /\ ask \in 1 .. 9
  BY DEF RespTimeout, BInv
<1>2. CASE eio
  BY <1>1, <1>2, AsBroken DEF Broken
<1>3. CASE ~eio
  <2>1. count >= 0
    BY <1>3 DEF BInv
  <2>2. CASE ask < 6
    <3>1. Asking(6) /\ Clear
      BY <2>2 DEF RespTimeout
    <3>2. ask' = 6 /\ pc' = "resp" /\ head' = 0 /\ tail' = 0
      BY <3>1 DEF Asking, Clear
    <3>3. (Broken' <=> Broken) /\ (Commanding' <=> Commanding)
      BY <1>1, <3>2 DEF Broken, Commanding
    <3>4. Pend' = <<>>
      <4>1. Text(head, tail)' = <<>>
        BY <3>2 DEF Text
      <4> QED BY <1>1, <4>1 DEF Pend
    <3>5. Pend \in Seq(Byte) /\ Len(Pend) \in Nat
      <4>1. Joins(Pend, spc, head, count, port)
        BY <2>1, PendBytes
      <4>2. Pend \in Seq(Byte)
        BY <4>1 DEF Joins
      <4> QED BY <4>2
    <3>6. ask # 9 /\ ask' # 9
      BY <1>1, <3>2
    <3>7. CASE Pend = <<>>
      <4>1. Frames!Taken
        BY <1>1, <3>3, <3>4, <3>6, <3>7, AsTaken
      <4> QED BY <4>1 DEF Frames!Next
    <3>8. CASE Pend # <<>>
      <4>1. PICK s \in Seq(Byte) : s = Pend
        BY <3>5
      <4>2. Len(s) \in DOMAIN s /\ SubSeq(s, Len(s) + 1, Len(s)) = <<>>
        <5>1. Len(s) \in Nat \ {0}
          BY <3>8, <4>1, EmptySeq
        <5>2. SubSeq(s, Len(s) + 1, Len(s)) = <<>>
          BY <5>1, SubSeqEmpty
        <5> QED BY <5>1, <5>2
      <4>3. Len(Pend) \in DOMAIN Pend /\ Pend' = SubSeq(Pend, Len(Pend) + 1, Len(Pend))
        BY <3>4, <4>1, <4>2
      <4>4. PICK k \in DOMAIN Pend : Pend' = SubSeq(Pend, k + 1, Len(Pend))
        BY <4>3
      <4>5. Frames!Drop
        BY <1>1, <3>3, <3>6, <4>4, AsDrop
      <4> QED BY <4>5 DEF Frames!Next
    <3> QED BY <3>7, <3>8
  <2>3. CASE ~(ask < 6)
    <3>1. UNCHANGED buf /\ IF ask = 6 THEN pc' = "dead" /\ UNCHANGED <<ask, pset>>
                                      ELSE Asking(ask + 1)
      BY <2>3 DEF RespTimeout
    <3>2. Pend' = Pend
      BY <1>1, <3>1 DEF buf, Pend, Text
    <3>3. pc' # "undefined" /\ pc' # "command" /\ ask' \in {ask, ask + 1}
      BY <3>1 DEF Asking
    <3>4. (Broken' <=> Broken) /\ (Commanding' <=> Commanding)
      BY <1>1, <3>3 DEF Broken, Commanding
    <3>5. CASE ask' = 9
      <4>1. Frames!Start
        BY <1>1, <3>2, <3>4, <3>5, AsStart
      <4> QED BY <4>1 DEF Frames!Next
    <3>6. CASE ask' # 9
      <4>1. Frames!Taken
        BY <1>1, <3>2, <3>4, <3>6, AsTaken
      <4> QED BY <4>1 DEF Frames!Next
    <3> QED BY <3>5, <3>6
  <2> QED BY <2>2, <2>3
<1> QED BY <1>2, <1>3

\* The terminal hung up: nothing was read, the next question is asked.
LEMMA HangupFrames == BInv /\ RespHangup => Frames!Next
<1> SUFFICES ASSUME BInv, RespHangup PROVE Frames!Next
  OBVIOUS
<1>1. /\ pc = "resp" /\ out' = <<>> /\ UNCHANGED <<spc, head, tail, port, eio>> /\ ask # 9
      /\ IF ask \in {5, 6} THEN pc' = "dead" /\ UNCHANGED <<ask, pset>> ELSE Asking(ask + 1)
  BY DEF RespHangup, BInv, buf
<1>2. Pend' = Pend
  BY <1>1 DEF Pend, Text
<1>3. pc' \notin {"undefined", "command"}
  BY <1>1 DEF Asking
<1>4. (Broken' <=> Broken) /\ (Commanding' <=> Commanding)
  BY <1>1, <1>3 DEF Broken, Commanding
<1>5. CASE ask' = 9
  <2>1. Frames!Start
    BY <1>1, <1>2, <1>4, <1>5, AsStart
  <2> QED BY <2>1 DEF Frames!Next
<1>6. CASE ask' # 9
  <2>1. Frames!Taken
    BY <1>1, <1>2, <1>4, <1>6, AsTaken
  <2> QED BY <2>1 DEF Frames!Next
<1> QED BY <1>5, <1>6

\* A command begins and ends in the stream.
LEMMA CommandFrames ==
  StreamInv /\ StreamInv' /\ (Command \/ CommandDone) => Frames!Next
<1> SUFFICES ASSUME StreamInv, StreamInv', Command \/ CommandDone PROVE Frames!Next
  OBVIOUS
<1>1. /\ UNCHANGED <<spc, head, tail, port, ask, out, eio>>
      /\ \/ pc = "select" /\ pc' = "command"
         \/ pc = "command" /\ pc' = "select"
  BY DEF Command, CommandDone, buf
<1>2. Pend' = Pend
  BY <1>1 DEF Pend, Text
<1>3. (Broken' <=> Broken) /\ (Commanding' <=> ~Commanding)
  BY <1>1 DEF Broken, Commanding
<1>4. ask = 9 /\ ask' = 9
  BY <1>1 DEF StreamInv
<1>5. Frames!Command
  BY <1>1, <1>2, <1>3, <1>4, AsCommand
<1> QED BY <1>5 DEF Frames!Next

\* Bytes n+1 and on of what is joined behind m others.
LEMMA CutBytes ==
  ASSUME NEW s \in Seq(Byte), NEW p \in Seq(Byte), NEW n \in 1 .. Len(p)
  PROVE  s \o SubSeq(p, n + 1, Len(p)) =
           SubSeq(s \o p, 1, Len(s)) \o SubSeq(s \o p, Len(s) + n + 1, Len(s \o p))
<1>1. Len(s) \in Nat /\ Len(p) \in Nat /\ Len(s \o p) = Len(s) + Len(p)
      /\ s \o p \in Seq(Byte)
      /\ \A k \in 1 .. Len(s) + Len(p) :
           (s \o p)[k] = IF k <= Len(s) THEN s[k] ELSE p[k - Len(s)]
  BY ConcatProperties
<1>2. PICK all \in Seq(Byte), m \in Nat, l \in Nat : all = s \o p /\ m = Len(s) /\ l = Len(p)
  BY <1>1
<1>3. n \in 1 .. l /\ Len(all) = m + l
      /\ \A k \in 1 .. m + l : all[k] = IF k <= m THEN s[k] ELSE p[k - m]
  BY <1>1, <1>2
<1>4. SubSeq(all, 1, m) = s
  <2>1. SubSeq(all, 1, m) \in Seq(Byte) /\ Len(SubSeq(all, 1, m)) = m
        /\ \A k \in 1 .. m : SubSeq(all, 1, m)[k] = all[k]
    BY <1>3
  <2>2. \A k \in 1 .. m : all[k] = s[k]
    BY <1>3
  <2>3. PICK g \in Seq(Byte) : g = SubSeq(all, 1, m)
    BY <2>1
  <2>4. Len(g) = Len(s) /\ \A k \in 1 .. Len(g) : g[k] = s[k]
    BY <1>2, <2>1, <2>2, <2>3
  <2> QED BY <2>3, <2>4, SeqEqual
<1>5. SubSeq(all, m + n + 1, m + l) = SubSeq(p, n + 1, l)
  <2>1. PICK g : g = SubSeq(all, m + n + 1, m + l)
    OBVIOUS
  <2>2. PICK h : h = SubSeq(p, n + 1, l)
    OBVIOUS
  <2>3. g \in Seq(Byte) /\ Len(g) = l - n
        /\ \A k \in 1 .. l - n : g[k] = all[m + n + k]
    <3>1. PICK a \in Int, b \in Int : a = m + n + 1 /\ b = m + l
      BY <1>3
    <3>2. \A k \in a .. b : all[k] \in Byte
      BY <1>3, <3>1
    <3>3. g = SubSeq(all, a, b)
      BY <2>1, <3>1
    <3>4. /\ g \in Seq(Byte) /\ Len(g) = IF a <= b THEN b - a + 1 ELSE 0
          /\ \A k \in 1 .. b - a + 1 : g[k] = all[a + k - 1]
      BY ONLY <3>2, <3>3, SubSeqProperties, a \in Int, b \in Int
    <3>5. b - a + 1 = l - n /\ (a <= b \/ l - n = 0)
          /\ \A k \in 1 .. l - n : a + k - 1 = m + n + k
      BY <1>3, <3>1
    <3> QED BY ONLY <3>4, <3>5, <1>3, a \in Int, b \in Int
  <2>4. h \in Seq(Byte) /\ Len(h) = l - n
        /\ \A k \in 1 .. l - n : h[k] = p[n + k]
    <3>1. n + 1 \in Int /\ l \in Int /\ \A k \in n + 1 .. l : p[k] \in Byte
      BY <1>2, <1>3
    <3>2. /\ h \in Seq(Byte)
          /\ Len(h) = IF n + 1 <= l THEN l - (n + 1) + 1 ELSE 0
          /\ \A k \in 1 .. l - (n + 1) + 1 : h[k] = p[(n + 1) + k - 1]
      BY ONLY <2>2, <3>1, SubSeqProperties
    <3>3. l - (n + 1) + 1 = l - n /\ \A k \in 1 .. l - n : (n + 1) + k - 1 = n + k
      BY <1>3
    <3> QED BY <1>3, <3>2, <3>3
  <2>5. ASSUME NEW k \in 1 .. l - n PROVE all[m + n + k] = p[n + k]
    <3>1. m + n + k \in 1 .. m + l /\ ~(m + n + k <= m) /\ (m + n + k) - m = n + k
      BY <1>3
    <3> QED BY <1>3, <3>1
  <2>6. g = h
    BY <2>3, <2>4, <2>5, SeqEqual
  <2> QED BY <2>1, <2>2, <2>6
<1> QED BY <1>2, <1>3, <1>4, <1>5

\* The reader of a command takes bytes behind the piece that the buffer holds.
LEMMA CommandReadFrames == BInv /\ PieceInv /\ CommandRead => Frames!Next
<1> SUFFICES ASSUME BInv, PieceInv, CommandRead PROVE Frames!Next
  OBVIOUS
<1>1. /\ pc = "command" /\ pc' = "command"
      /\ UNCHANGED <<spc, head, tail, count, ask, out, eio>>
  BY DEF CommandRead, buf
<1>2. PICK n \in DOMAIN port : port' = SubSeq(port, n + 1, Len(port))
  BY DEF CommandRead
<1>3. (Broken' <=> Broken) /\ Commanding /\ Commanding' /\ ((ask = 9)' <=> ask = 9)
  BY <1>1 DEF Broken, Commanding
<1>4. CASE eio
  BY <1>1, <1>4, AsBroken DEF Broken
<1>5. CASE ~eio
  <2>1. count \in Nat /\ head = 0 /\ tail = count
    BY <1>1, <1>5 DEF BInv
  <2>2. PICK m \in Nat : m = count
    BY <2>1
  <2>3. port \in Seq(Byte) /\ n \in 1 .. Len(port) /\ Len(port) \in Nat
    BY <1>2 DEF BInv
  <2>4. PICK t : t = Text(head, tail)
    OBVIOUS
  <2>5. t \in Seq(Byte) /\ Len(t) = m /\ \A k \in 1 .. m : t[k] = spc[k - 1]
    <3>1. t = [k \in 1 .. m |-> spc[0 + k - 1]]
      BY <2>1, <2>2, <2>4 DEF Text
    <3>2. \A k \in 1 .. m : k - 1 \in head .. tail - 1 /\ 0 + k - 1 = k - 1
      BY <2>1, <2>2
    <3>3. \A k \in 1 .. m : t[k] = spc[k - 1] /\ t[k] \in Byte
      BY <3>1, <3>2 DEF BInv
    <3>4. t \in [1 .. m -> Byte]
      BY <3>1, <3>3
    <3> QED BY <3>3, <3>4
  <2>6. \A k \in 1 .. m : t[k] # CR
    <3>1. \A k \in 1 .. m : k - 1 \in head .. tail - 1
      BY <2>1, <2>2
    <3> QED BY <1>1, <2>5, <3>1 DEF PieceInv
  <2>7. Pend = t \o port /\ Pend' = t \o port'
    <3>1. Text(head, tail)' = t
      BY <1>1, <2>4 DEF Text
    <3> QED BY <2>4, <3>1 DEF Pend
  <2>8. PICK all, p : all = Pend /\ p = port
    OBVIOUS
  <2>9. all = t \o p /\ p \in Seq(Byte) /\ n \in 1 .. Len(p)
    BY <2>3, <2>7, <2>8
  <2>10. Len(all) = m + Len(p) /\ all \in Seq(Byte) /\ Len(p) \in Nat
         /\ \A k \in 1 .. m : all[k] = t[k]
    <3>1. /\ Len(all) = Len(t) + Len(p) /\ all \in Seq(Byte) /\ Len(p) \in Nat
          /\ \A k \in 1 .. Len(t) + Len(p) : all[k] = IF k <= Len(t) THEN t[k] ELSE p[k - Len(t)]
      <4>1. PICK u \in Seq(Byte), w \in Seq(Byte) : u = t /\ w = p
        BY <2>5, <2>9
      <4>2. all = u \o w
        BY <2>9, <4>1
      <4>3. /\ Len(u \o w) = Len(u) + Len(w) /\ u \o w \in Seq(Byte) /\ Len(w) \in Nat
            /\ \A k \in 1 .. Len(u) + Len(w) :
                 (u \o w)[k] = IF k <= Len(u) THEN u[k] ELSE w[k - Len(u)]
        BY ConcatProperties
      <4> QED BY ONLY <4>1, <4>2, <4>3
    <3> QED BY <2>5, <3>1
  <2>11. Pend' = SubSeq(all, 1, m) \o SubSeq(all, m + n + 1, Len(all))
    <3>1. t \o SubSeq(p, n + 1, Len(p)) =
            SubSeq(t \o p, 1, Len(t)) \o SubSeq(t \o p, Len(t) + n + 1, Len(t \o p))
      BY <2>5, <2>9, CutBytes
    <3>2. Pend' = t \o SubSeq(p, n + 1, Len(p))
      BY <1>2, <2>7, <2>8
    <3>3. Len(t) = m
      BY <2>5
    <3> QED BY ONLY <2>9, <3>1, <3>2, <3>3
  <2>12. PICK j \in DOMAIN all : j = m + n
    <3>1. m + n \in 1 .. Len(all)
      BY <2>9, <2>10
    <3>2. DOMAIN all = 1 .. Len(all)
      BY <2>10
    <3> QED BY <3>1, <3>2
  <2>13. m \in 0 .. Len(all) /\ m < j /\ \A k \in 1 .. m : all[k] # CR
    BY <2>6, <2>9, <2>10, <2>12
  <2>14. Frames!Lose
    <3>1. /\ m \in 0 .. Len(Pend) /\ j \in DOMAIN Pend /\ m < j
          /\ \A k \in 1 .. m : Pend[k] # CR
          /\ Pend' = SubSeq(Pend, 1, m) \o SubSeq(Pend, j + 1, Len(Pend))
      BY <2>8, <2>11, <2>12, <2>13
    <3> QED BY ONLY <1>1, <1>3, <3>1, AsLose
  <2> QED BY <2>14 DEF Frames!Next
<1> QED BY <1>4, <1>5 DEF BInv

\* next_by_sym hands out the first packet pending.
LEMMA PacketFrames ==
  BInv /\ BInv' /\ StreamInv /\ StreamInv' /\ Packet => Frames!Next
<1> SUFFICES ASSUME BInv, BInv', StreamInv, StreamInv', Packet PROVE Frames!Next
  OBVIOUS
<1>1. /\ pc = "parse" /\ UNCHANGED <<spc, port, pc, ask, eio>>
  BY DEF Packet, TakePacket
<1>2. PICK p \in head .. tail - 1 : TakePacket(p)
  BY DEF Packet
<1>3. count >= 0 /\ count' >= 0
  BY <1>1 DEF BInv
<1>4. /\ Joins(Pend, spc, head, count, port) /\ Len(port) \in Nat
      /\ head \in Nat /\ tail \in Nat /\ tail = head + count
  BY <1>3, PendBytes
<1>0. PICK h \in Nat, m \in Nat : h = head /\ m = count
  BY <1>3, <1>4 DEF BInv
<1>5. PICK f, all, w :
        h = head /\ m = count /\ f = spc /\ all = Pend /\ w = port
  BY <1>0
<1>6. PICK l \in 1 .. m : p = h + l - 1
  <2>1. p - h + 1 \in 1 .. m /\ p = h + (p - h + 1) - 1
    BY <1>2, <1>4, <1>5
  <2> QED BY <2>1
<1>7. Joins(all, f, h, m, w) /\ Len(w) \in Nat
  BY <1>4, <1>5
<1>8. Len(all) = m + Len(w) /\ all \in Seq(Byte) /\ \A n \in 1 .. m : all[n] = f[h + n - 1]
  BY <1>7 DEF Joins
<1>9. /\ f[p] = CR /\ \A i \in h .. p - 1 : f[i] # CR
      /\ out' = Text(head, p + 1) /\ count' = count - (p + 1 - head)
      /\ IF count' = 0 THEN head' = 0 /\ tail' = 0 ELSE head' = p + 1 /\ tail' = tail
  BY <1>2, <1>5 DEF TakePacket, First
<1>10. out' = SubSeq(all, 1, l)
  <2>1. Line(f, h, h + l) = Piece(all, 1, l)
    <3>1. Within(h, m, 1, l, h, h + l)
      BY DEF Within
    <3> QED BY ONLY <1>7, <3>1, PieceBytes
  <2>2. p + 1 = h + l
    BY <1>6
  <2>3. out' = Line(f, h, h + l)
    BY <1>5, <1>9, <2>2 DEF Text, Line
  <2> QED BY <2>1, <2>2, <2>3 DEF Piece
<1>11. Pend' = SubSeq(all, l + 1, Len(all))
  <2>0. PICK j \in Nat, c \in Nat : j = head' /\ c = count'
    <3>1. head' \in Nat /\ count' \in Nat
      BY <1>3, PendNext
    <3> QED BY ONLY <3>1
  <2>1. PICK rest : rest = Pend' /\ j = head' /\ c = count'
    BY <2>0
  <2>2. Joins(rest, f, j, c, w)
    BY <1>1, <1>3, <1>5, <2>1, PendNext
  <2>3. c = m - l
    BY <1>5, <1>6, <1>9, <2>1
  <2>4. Joins(rest, f, h + l, m - l, w)
    <3>1. CASE c = 0
      BY <2>2, <2>3, <3>1 DEF Joins
    <3>2. CASE c # 0
      <4>1. j = h + l
        BY <1>6, <1>9, <2>1, <3>2
      <4> QED BY <2>2, <2>3, <4>1
    <3> QED BY <3>1, <3>2
  <2>5. l \in 0 .. m
    OBVIOUS
  <2>6. rest = SubSeq(all, l + 1, Len(all))
    BY ONLY <1>7, <2>4, <2>5, DropBytes, h \in Nat, m \in Nat
  <2> QED BY <2>1, <2>6
<1>12. /\ 1 \in DOMAIN all /\ l \in 1 .. Len(all) /\ l \in DOMAIN all /\ all[l] = CR
       /\ \A n \in 1 .. l - 1 : all[n] # CR
  <2>1. 1 \in 1 .. Len(all) /\ l \in 1 .. Len(all) /\ DOMAIN all = 1 .. Len(all)
    BY <1>7, <1>8
  <2>2. all[l] = CR
    BY <1>6, <1>8, <1>9
  <2>3. ASSUME NEW n \in 1 .. l - 1 PROVE all[n] # CR
    <3>1. n \in 1 .. m /\ h + n - 1 \in h .. p - 1
      BY <1>6
    <3> QED BY <1>8, <1>9, <3>1
  <2> QED BY <2>1, <2>2, <2>3
<1>13. Frames!HandOut(1, l)
  <2>1. Broken' <=> Broken
    BY <1>1 DEF Broken
  <2>2. /\ 1 \in DOMAIN Pend /\ l \in 1 .. Len(Pend) /\ Pend[l] = CR
        /\ \A n \in 1 .. l - 1 : Pend[n] # CR
        /\ out' = SubSeq(Pend, 1, l) /\ Pend' = SubSeq(Pend, l + 1, Len(Pend))
    BY <1>5, <1>10, <1>11, <1>12
  <2> QED BY ONLY <2>1, <2>2, AsHandOut
<1>14. l \in DOMAIN (Text(head, tail) \o port)
  BY <1>5, <1>12 DEF Pend
<1>15. ask = 9 /\ ask' = 9
  BY <1>1 DEF StreamInv
<1>16. Frames!Deliver
  BY <1>1, <1>13, <1>14, <1>15 DEF Frames!Deliver
<1> QED BY <1>16 DEF Frames!Next

\* next_by_sym finds no packet: the bytes move, and nothing else.
LEMMA NoPacketFrames == BInv /\ BInv' /\ NoPacket => Frames!Next
<1> SUFFICES ASSUME BInv, BInv', NoPacket PROVE Frames!Next
  OBVIOUS
<1>1. /\ pc = "parse" /\ pc' = "read" /\ Compact /\ out' = <<>>
      /\ UNCHANGED <<count, port, ask, eio>>
  BY DEF NoPacket
<1>2. count >= 0 /\ count' >= 0 /\ count \in Nat /\ tail <= Size /\ tail = head + count
      /\ head \in Nat /\ spc \in [0 .. Size - 1 -> Byte \cup {NUL}]
  BY <1>1 DEF BInv
<1>3. Joins(Pend, spc, head, count, port) /\ Len(port) \in Nat
  BY <1>2, PendBytes
<1>4. Joins(Pend', spc', head', count, port)
  <2>1. PICK rest, f, i, w, m : rest = Pend' /\ f = spc' /\ i = head' /\ w = port' /\ m = count'
    OBVIOUS
  <2>2. Joins(rest, f, i, m, w)
    BY <1>2, <2>1, PendNext
  <2> QED BY <1>1, <2>1, <2>2
<1>5. \A n \in 1 .. count : spc[head + n - 1] = spc'[head' + n - 1]
  <2>1. CASE count # 0 /\ head > 0
    <3>1. spc' = Moved(spc, head, count) /\ head' = 0
      BY <1>1, <2>1 DEF Compact
    <3>2. spc' = [i \in 0 .. Size - 1 |-> IF i < count THEN spc[head + i] ELSE spc[i]]
      BY <1>2, <3>1 DEF Moved
    <3>3. ASSUME NEW n \in 1 .. count PROVE spc[head + n - 1] = spc'[head' + n - 1]
      <4>1. n - 1 \in 0 .. Size - 1 /\ n - 1 < count /\ head + (n - 1) = head + n - 1
            /\ head' + n - 1 = n - 1
        BY <1>2, <3>1, BufAssumption
      <4> QED BY <3>2, <4>1
    <3> QED BY <3>3
  <2>2. CASE ~(count # 0 /\ head > 0)
    <3>1. spc' = spc /\ head' = head
      BY <1>1, <2>2 DEF Compact
    <3> QED BY <3>1
  <2> QED BY <2>1, <2>2
<1>6. Pend' = Pend
  <2>1. PICK f, g, i, j, w, all, more :
          /\ f = spc /\ g = spc' /\ i = head /\ j = head' /\ w = port
          /\ all = Pend /\ more = Pend'
    OBVIOUS
  <2>5. PICK m \in Nat : m = count
    BY <1>2
  <2>2. Joins(all, f, i, m, w) /\ Joins(more, g, j, m, w) /\ Len(w) \in Nat
    BY <1>3, <1>4, <2>1, <2>5
  <2>3. \A n \in 1 .. m : f[i + n - 1] = g[j + n - 1]
    BY <1>5, <2>1, <2>5
  <2>4. all = more
    BY ONLY <2>2, <2>3, SameBytes, m \in Nat
  <2> QED BY <2>1, <2>4
<1>7. (Broken' <=> Broken) /\ (Commanding' <=> Commanding)
  BY <1>1 DEF Broken, Commanding
<1>8. (ask = 9)' <=> ask = 9
  BY <1>1
<1>9. Frames!Taken
  BY <1>1, <1>6, <1>7, <1>8, AsTaken
<1> QED BY <1>9 DEF Frames!Next

\* last_by_sym: the last packet pending is handed out when it ends what has been
\* read; otherwise what precedes the last line is dropped.
LEMMA RespReadFrames == BInv /\ BInv' /\ RespRead => Frames!Next
<1> SUFFICES ASSUME BInv, BInv', RespRead PROVE Frames!Next
  OBVIOUS
<1>1. /\ pc = "respread" /\ pc \in {"read", "respread"} /\ GetFromFd /\ eio' = eio
      /\ LastBySym(Filled, count + Chunk - 1)
      /\ IF out' = <<>> THEN UNCHANGED <<ask, pc>> ELSE \E n : Asking(n)
  BY DEF RespRead
<1>2. CASE eio
  BY <1>1, <1>2, AsBroken DEF Broken
<1>3. CASE ~eio
  <2>1. /\ head = 0 /\ tail = count /\ tail \in Nat
        /\ Line(Filled, 0, tail + Chunk) \o port' = Pend
    BY <1>1, FillKeeps
  <2>2. /\ Chunk \in 1 .. Size - tail /\ port' \in Seq(Byte)
        /\ Filled \in [0 .. Size - 1 -> Byte \cup {NUL}]
        /\ \A i \in head .. tail + Chunk - 1 : Filled[i] \in Byte
    BY <1>1, Reading
  <2>0. PICK w \in Seq(Byte), m \in Nat : w = port' /\ m = tail + Chunk
    <3>1. tail + Chunk \in Nat /\ port' \in Seq(Byte)
      <4>1. PICK k \in 1 .. Size - tail : k = Chunk
        BY <2>2
      <4>2. tail + k \in Nat
        BY <2>1, BufAssumption
      <4> QED BY ONLY <2>2, <4>1, <4>2
    <3> QED BY ONLY <3>1
  <2>3. PICK f, all : f = Filled /\ w = port' /\ all = Pend /\ m = tail + Chunk
    BY <2>0
  <2>4. m >= 1 /\ m <= Size /\ \A i \in 0 .. m - 1 : f[i] \in Byte
    BY <2>1, <2>2, <2>3, BufAssumption
  <2>5. Joins(all, f, 0, m, w) /\ Len(w) \in Nat
    <3>1. m = 0 + m /\ 0 \in Nat
      OBVIOUS
    <3>2. Joins(Line(f, 0, m) \o w, f, 0, m, w)
      BY ONLY <2>4, <3>1, Joined, m \in Nat, w \in Seq(Byte)
    <3>3. all = Line(f, 0, m) \o w
      BY <2>1, <2>3
    <3> QED BY <3>2, <3>3
  <2>6. Len(all) = m + Len(w) /\ all \in Seq(Byte) /\ \A n \in 1 .. m : all[n] = f[n - 1]
    <3>1. \A n \in 1 .. m : 0 + n - 1 = n - 1
      OBVIOUS
    <3> QED BY <2>5, <3>1 DEF Joins
  <2>7. count' >= 0
    BY <1>1, <1>3 DEF BInv
  <2>18. PICK j \in Nat, c \in Nat : j = head' /\ c = count'
    <3>1. head' \in Nat /\ count' \in Nat
      BY <2>7, PendNext
    <3> QED BY ONLY <3>1
  <2>8. PICK rest, g : rest = Pend' /\ j = head' /\ c = count' /\ g = spc'
    BY <2>18
  <2>9. Joins(rest, g, j, c, w)
    BY <2>3, <2>7, <2>8, PendNext
  <2>10. LastBySym(f, m - 1)
    <3>1. m - 1 = count + Chunk - 1
      <4>1. PICK k \in Int, t \in Nat : k = Chunk /\ t = tail
        BY <2>1, <2>2
      <4>2. m = t + k /\ count = t
        BY <2>1, <2>3, <4>1
      <4> QED BY ONLY <4>1, <4>2
    <3> QED BY <1>1, <2>3, <3>1
  <2>11. PICK p \in 0 .. m - 1 :
          /\ Begins(p, f, m - 1) /\ head' = 0
          /\ IF f[m - 1] = CR
             THEN /\ out' = [i \in 1 .. (m - 1) - p + 1 |-> f[p + i - 1]]
                  /\ count' = 0 /\ tail' = 0 /\ spc' = f
             ELSE /\ out' = <<>>
                  /\ count' = (m - 1) - p + 1 /\ spc' = Moved(f, p, (m - 1) - p + 1)
    BY <2>1, <2>10 DEF LastBySym
  <2>12. (p # 0 => f[p - 1] = CR) /\ \A i \in p .. (m - 1) - 1 : f[i] # CR
    BY <2>1, <2>11 DEF Begins
  <2>13. pc' # "undefined" /\ pc' # "command"
    <3>1. CASE out' = <<>>
      BY <1>1, <3>1
    <3>2. CASE out' # <<>>
      <4>1. PICK n : Asking(n)
        BY <1>1, <3>2
      <4> QED BY <4>1 DEF Asking
    <3> QED BY <3>1, <3>2
  <2>14. Broken' <=> Broken
    BY <1>1, <2>13 DEF Broken
  <2>19. Commanding' <=> Commanding
    BY <1>1, <2>13 DEF Commanding
  <2>15. ask # 9
    BY <1>1 DEF BInv
  <2>16. CASE f[m - 1] = CR
    <3>1. out' = SubSeq(all, p + 1, m)
      <4>1. m \in 1 .. m /\ p \in 0 .. m - 1
        BY <2>4
      <4>2. Line(f, p, m) = Piece(all, p + 1, m)
        <5>1. Within(0, m, p + 1, m, p, m)
          BY <4>1 DEF Within
        <5> QED BY ONLY <2>5, <5>1, PieceBytes
      <4>3. (m - 1) - p + 1 = m - p
        OBVIOUS
      <4>4. out' = Line(f, p, m)
        BY <2>11, <2>16, <4>3 DEF Line
      <4> QED BY <4>2, <4>3, <4>4 DEF Piece
    <3>2. Pend' = SubSeq(all, m + 1, Len(all))
      <4>1. c = 0
        BY <2>8, <2>11, <2>16
      <4>2. Joins(rest, f, 0 + m, m - m, w)
        BY <2>9, <4>1 DEF Joins
      <4>3. rest = SubSeq(all, m + 1, Len(all))
        <5>1. m \in 0 .. m /\ 0 \in Nat
          OBVIOUS
        <5> QED BY ONLY <2>5, <4>2, <5>1, DropBytes, m \in Nat
      <4> QED BY <2>8, <4>3
    <3>3. /\ p + 1 \in DOMAIN all /\ m \in DOMAIN all /\ m \in p + 1 .. Len(all)
          /\ all[m] = CR
      <4>1. p + 1 \in 1 .. Len(all) /\ m \in p + 1 .. Len(all) /\ m \in 1 .. m
            /\ m \in 1 .. Len(all)
        BY <2>4, <2>5, <2>6
      <4>2. DOMAIN all = 1 .. Len(all)
        BY <2>6
      <4> QED BY <2>6, <2>16, <4>1, <4>2
    <3>4. \A n \in p + 1 .. m - 1 : all[n] # CR
      <4> SUFFICES ASSUME NEW n \in p + 1 .. m - 1 PROVE all[n] # CR
        OBVIOUS
      <4>1. n \in 1 .. m /\ n - 1 \in p .. (m - 1) - 1
        OBVIOUS
      <4> QED BY <2>6, <2>12, <4>1
    <3>5. p + 1 = 1 \/ all[(p + 1) - 1] = CR
      <4>1. CASE p # 0
        <5>1. p \in 1 .. m /\ (p + 1) - 1 = p
          BY <4>1
        <5> QED BY <2>6, <2>12, <4>1, <5>1
      <4> QED BY <4>1
    <3>6. PICK i \in DOMAIN all : i = p + 1
      BY <3>3
    <3>7. Frames!HandOut(i, m)
      <4>1. /\ i \in DOMAIN Pend /\ m \in i .. Len(Pend) /\ Pend[m] = CR
            /\ \A n \in i .. m - 1 : Pend[n] # CR
            /\ i = 1 \/ Pend[i - 1] = CR
            /\ out' = SubSeq(Pend, i, m) /\ Pend' = SubSeq(Pend, m + 1, Len(Pend))
        BY <2>3, <3>1, <3>2, <3>3, <3>4, <3>5, <3>6
      <4> QED BY ONLY <2>14, <4>1, AsHandOut
    <3>8. i \in DOMAIN (Text(head, tail) \o port) /\ m \in DOMAIN (Text(head, tail) \o port)
      BY <2>3, <3>3, <3>6 DEF Pend
    <3>9. Frames!Answer
      BY <2>15, <2>19, <3>7, <3>8 DEF Frames!Answer, Commanding
    <3> QED BY <3>9 DEF Frames!Next
  <2>17. CASE f[m - 1] # CR
    <3>1. /\ out' = <<>> /\ c = m - p /\ spc' = Moved(f, p, m - p) /\ j = 0
      <4>1. (m - 1) - p + 1 = m - p
        OBVIOUS
      <4> QED BY <2>8, <2>11, <2>17, <4>1
    <3>2. g = [i \in 0 .. Size - 1 |-> IF i < c THEN f[p + i] ELSE f[i]]
      <4>1. DOMAIN f = 0 .. Size - 1
        BY <2>2, <2>3
      <4> QED BY <2>8, <3>1, <4>1 DEF Moved
    <3>3. \A n \in 1 .. c : g[0 + n - 1] = f[p + n - 1]
      <4> SUFFICES ASSUME NEW n \in 1 .. c PROVE g[0 + n - 1] = f[p + n - 1]
        OBVIOUS
      <4>1. n - 1 \in 0 .. Size - 1 /\ n - 1 < c /\ 0 + n - 1 = n - 1
            /\ p + (n - 1) = p + n - 1
        BY <2>4, <3>1, BufAssumption
      <4> QED BY <3>2, <4>1
    <3>4. Joins(rest, f, 0 + p, m - p, w)
      <4>1. 0 + p = p
        OBVIOUS
      <4>2. Joins(rest, g, 0, c, w)
        BY <2>9, <3>1
      <4>3. Joins(rest, f, p, c, w)
        BY <3>3, <4>2 DEF Joins
      <4> QED BY <3>1, <4>1, <4>3
    <3>5. rest = SubSeq(all, p + 1, Len(all))
      <4>1. p \in 0 .. m /\ 0 \in Nat
        OBVIOUS
      <4> QED BY ONLY <2>5, <3>4, <4>1, DropBytes, m \in Nat
    <3>6. ask' = ask
      BY <1>1, <3>1
    <3>7. CASE p = 0
      <4>1. SubSeq(all, 1, Len(all)) = all
        BY <2>6
      <4>2. Pend' = Pend
        BY <2>3, <2>8, <3>5, <3>7, <4>1
      <4>3. Frames!Taken
        BY <2>14, <2>19, <3>1, <3>6, <4>2, AsTaken
      <4> QED BY <4>3 DEF Frames!Next
    <3>8. CASE p # 0
      <4>1. p \in DOMAIN all
        <5>1. p \in 1 .. Len(all) /\ DOMAIN all = 1 .. Len(all)
          BY <2>5, <2>6, <3>8
        <5> QED BY <5>1
      <4>2. p \in DOMAIN Pend /\ Pend' = SubSeq(Pend, p + 1, Len(Pend))
        BY <2>3, <2>8, <3>5, <4>1
      <4>3. Frames!Drop
        BY <2>14, <2>15, <2>19, <3>1, <3>6, <4>2, AsDrop
      <4> QED BY <4>3 DEF Frames!Next
    <3> QED BY <3>7, <3>8
  <2> QED BY <2>16, <2>17
<1> QED BY <1>2, <1>3 DEF BInv

\* Every step of the buffer is a step of the framer, or none.
LEMMA FramerStep ==
  BInv /\ BInv' /\ StreamInv /\ StreamInv' /\ PieceInv /\ [Next]_vars
    => [Frames!Next]_Frames!vars
BY ArriveFrames, QuietFrames, ReadFrames, TimeoutFrames, HangupFrames, PacketFrames,
   NoPacketFrames, RespReadFrames, CommandFrames, CommandReadFrames
DEF Next, Thread

\* It starts like the framer.
LEMMA FramerInit == Init => Frames!Init
<1> SUFFICES ASSUME Init PROVE Frames!Init
  OBVIOUS
<1>1. Text(head, tail) = <<>> /\ port = <<>>
  BY DEF Init, Text
<1>2. Text(head, tail) \o port = <<>>
  BY <1>1
<1>3. out = <<>> /\ (ask = 9) = FALSE /\ (pc = "command") = FALSE
      /\ (eio \/ pc = "undefined") = FALSE
  BY DEF Init
<1> QED BY <1>2, <1>3 DEF Frames!Init

\* The receive buffer implements the framer (locbuf.c under get_resp and ldu_loop):
\* however the bytes are cut up, no packet of the stream is lost, split or reordered,
\* until a read fails or get_resp returns what it never set; a command, whose readers
\* go past the buffer, costs packets, and glues at most one piece to the next of them.
THEOREM FramerImplemented == Spec => FramerSpec
<1>1. Init => StreamInv /\ PieceInv
  BY DEF Init, StreamInv, PieceInv
<1>2. BInv /\ [Next]_vars => BInv'
  BY ReadStep, RespReadStep, PacketStep, NoPacketStep, ReadErrorStep, OtherSteps
  DEF Next, Thread
<1> QED BY <1>1, <1>2, BInvInit, StreamInvStep, PieceInvStep, FramerInit, FramerStep, PTL
        DEF Spec, FramerSpec, Frames!Spec
=============================================================================
