-------------------------- MODULE PacketParserProofs --------------------------
(***************************************************************************)
(* Proofs about PacketParser, for any number of servers, packets of any    *)
(* length and a rec_buf of any size.                                       *)
(***************************************************************************)
EXTENDS PacketParser, SequenceTheorems, FiniteSetTheorems, TLAPS

\* Of the bytes since the last STOP handed out none is a STOP, for want of memory.
Clean == \A j \in 1 .. Len(seen) : ~Stop(seen[j])

SeenInv == seen \in Seq(Bytes) /\ Clean

\* rec_buf holds the bytes of seen from place j on.
Holds(j) ==
  \A i \in 0 .. pckt_cur_pos - 1 : i < RECBUF_SIZE => rec_buf[i] = seen[j + i]

\* In a packet, which the last START has opened at j: the first START leaves
\* the count of all bytes, a later one begins to count behind itself.
InPacket(j) ==
  /\ LastStart(seen, j)
  /\ pckt_cur_pos = Len(seen) - j + 1
  /\ pckt_cur_len = IF Starts(seen) = {j} THEN Len(seen) ELSE Len(seen) - j
  /\ Holds(j)

\* What the statics of parse_buffer say about the bytes since the last STOP.
PlaceInv ==
  IF packet THEN \E j \in 1 .. Len(seen) : InPacket(j)
  ELSE Starts(seen) = {} /\ pckt_cur_pos = 0 /\ pckt_cur_len = Len(seen)

\* The bytes that a server has in seen are of the packet it is sending, and no
\* place of a packet is there twice.
OnceInv ==
  \A j \in 1 .. Len(seen) :
    /\ seen[j][2] = num[seen[j][1]] /\ seen[j][3] < place[seen[j][1]]
    /\ \A i \in 1 .. j - 1 : seen[i][1] = seen[j][1] => seen[i][3] # seen[j][3]

\* How much of that is true when, and that only a loss leads out of rec_buf.
LossInv ==
  /\ seen \in Seq(Bytes)
  /\ ~overrun /\ Clean => PlaceInv
  /\ ~overrun /\ ~lost => Clean /\ OnceInv
  /\ Fits /\ ~lost => ~overrun

\* An item that has been handed out.
Items == [seen : Seq(Bytes), copy : Seq(Bytes \cup {Zero})]

RetInv ==
  /\ ret \in Seq(Items)
  /\ ~overrun => \A k \in 1 .. Len(ret) : Regular(ret[k].seen) => CopyOf(ret[k])
  /\ Fits /\ ~lost => \A k \in 1 .. Len(ret) : Len(ret[k].copy) <= RECBUF_SIZE

IInv == TypeOK /\ LossInv /\ RetInv
-----------------------------------------------------------------------------
(* Types                                                                    *)

\* The byte to be read next, when there is one, and what its going leaves.
LEMMA NextByte ==
  ASSUME TypeOK, NEW s \in Servers, NEW n \in Nat, Readable(s, n), n > 0, Advance(s)
  PROVE  /\ <<s, num[s], place[s]>> \in Bytes
         /\ num' \in [Servers -> 1 .. PcktCnt + 1] /\ place' \in [Servers -> 1 .. PcktLen]
         /\ \A r \in Servers : num'[r] = PcktCnt + 1 => place'[r] = 1
         /\ n - 1 <= Rest(s)'
         /\ \A r \in Servers \ {s} : num'[r] = num[r] /\ place'[r] = place[r]
         /\ place[s] # PcktLen => num'[s] = num[s] /\ place'[s] = place[s] + 1
<1>1. num[s] \in 1 .. PcktCnt + 1 /\ place[s] \in 1 .. PcktLen
  BY DEF TypeOK
<1>2. PcktCnt \in Nat /\ PcktLen \in Nat /\ PcktLen > 1
  BY PacketParserAssumption
<1>3. n <= (PcktCnt - num[s]) * PcktLen + (PcktLen + 1 - place[s])
  BY DEF Readable, Rest
<1>4. num[s] # PcktCnt + 1
  <2>1. SUFFICES ASSUME num[s] = PcktCnt + 1 PROVE FALSE
    OBVIOUS
  <2>2. place[s] = 1
    BY <2>1 DEF TypeOK
  <2>3. (PcktCnt - num[s]) * PcktLen = -PcktLen
    BY <2>1, <1>2
  <2> QED BY <1>2, <1>3, <2>2, <2>3
<1>5. num[s] \in 1 .. PcktCnt
  BY <1>1, <1>2, <1>4
<1>6. CASE place[s] = PcktLen
  <2>1. num' = [num EXCEPT ![s] = @ + 1] /\ place' = [place EXCEPT ![s] = 1]
    BY <1>6 DEF Advance
  <2>2. num'[s] = num[s] + 1 /\ place'[s] = 1
    BY <2>1 DEF TypeOK
  <2>3. (PcktCnt - (num[s] + 1)) * PcktLen + PcktLen = (PcktCnt - num[s]) * PcktLen
    <3>1. \A x, y \in Int : (x - 1) * y + y = x * y
      OBVIOUS
    <3>2. PcktCnt - num[s] \in Int /\ PcktCnt - (num[s] + 1) = (PcktCnt - num[s]) - 1
      BY <1>2, <1>5
    <3> QED BY <1>2, <3>1, <3>2
  <2>4. n - 1 <= Rest(s)'
    <3> DEFINE m == (PcktCnt - (num[s] + 1)) * PcktLen
               k == (PcktCnt - num[s]) * PcktLen
    <3>1. m \in Int /\ k \in Int
      BY <1>2, <1>5
    <3>2. m + PcktLen = k
      BY <2>3
    <3>3. n <= k + (PcktLen + 1 - PcktLen)
      BY <1>3, <1>6
    <3> HIDE DEF m, k
    <3>4. n - 1 <= m + (PcktLen + 1 - 1)
      BY <1>2, <3>1, <3>2, <3>3
    <3> QED BY <2>2, <3>4 DEF Rest, m
  <2>5. /\ num' \in [Servers -> 1 .. PcktCnt + 1] /\ place' \in [Servers -> 1 .. PcktLen]
        /\ \A r \in Servers : num'[r] = PcktCnt + 1 => place'[r] = 1
    BY <1>2, <1>5, <2>1 DEF TypeOK
  <2> QED BY <1>1, <1>5, <1>6, <2>1, <2>4, <2>5 DEF Bytes, TypeOK
<1>7. CASE place[s] # PcktLen
  <2>1. num' = num /\ place' = [place EXCEPT ![s] = @ + 1]
    BY <1>7 DEF Advance
  <2>2. num'[s] = num[s] /\ place'[s] = place[s] + 1
    BY <2>1 DEF TypeOK
  <2>4. n - 1 <= Rest(s)'
    <3> DEFINE k == (PcktCnt - num[s]) * PcktLen
    <3>1. k \in Int
      BY <1>2, <1>5
    <3>3. n <= k + (PcktLen + 1 - place[s])
      BY <1>3
    <3> HIDE DEF k
    <3>4. n - 1 <= k + (PcktLen + 1 - (place[s] + 1))
      BY <1>1, <1>2, <3>1, <3>3
    <3> QED BY <2>2, <3>4 DEF Rest, k
  <2>5. /\ num' \in [Servers -> 1 .. PcktCnt + 1] /\ place' \in [Servers -> 1 .. PcktLen]
        /\ \A r \in Servers : num'[r] = PcktCnt + 1 => place'[r] = 1
    BY <1>1, <1>2, <1>4, <1>7, <2>1 DEF TypeOK
  <2> QED BY <1>1, <1>5, <2>1, <2>4, <2>5 DEF Bytes, TypeOK
<1> QED BY <1>6, <1>7

\* A byte written into rec_buf.
LEMMA PutType ==
  ASSUME TypeOK, NEW b \in Bytes
  PROVE  /\ Put(b) \in [0 .. RECBUF_SIZE - 1 -> Bytes \cup {Zero}]
         /\ [Put(b) EXCEPT ![0] = b] \in [0 .. RECBUF_SIZE - 1 -> Bytes \cup {Zero}]
         /\ \A i \in 0 .. RECBUF_SIZE - 1 :
              Put(b)[i] = IF i = pckt_cur_pos THEN b ELSE rec_buf[i]
BY PacketParserAssumption DEF TypeOK, Put

\* The byte of a round of parse_buffer.
LEMMA RoundByte ==
  ASSUME TypeOK, ParseByte
  PROVE  \E b \in Bytes :
           /\ Switch(b) \/ Overrun(b)
           /\ b[1] = cur /\ b[2] = num[cur] /\ b[3] = place[cur]
           /\ num' \in [Servers -> 1 .. PcktCnt + 1] /\ place' \in [Servers -> 1 .. PcktLen]
           /\ \A r \in Servers : num'[r] = PcktCnt + 1 => place'[r] = 1
           /\ left - 1 <= Rest(cur)'
           /\ \A r \in Servers \ {cur} : num'[r] = num[r] /\ place'[r] = place[r]
           /\ ~Stop(b) => num'[cur] = num[cur] /\ place'[cur] = place[cur] + 1
<1> DEFINE b == <<cur, num[cur], place[cur]>>
<1>1. cur \in Servers /\ left \in Nat /\ left > 0 /\ Readable(cur, left) /\ Advance(cur)
  BY PacketParserAssumption DEF ParseByte, TypeOK
<1>2. Switch(b) \/ Overrun(b)
  BY DEF ParseByte
<1>3. b[1] = cur /\ b[2] = num[cur] /\ b[3] = place[cur]
  OBVIOUS
<1>4. ~Stop(b) => place[cur] # PcktLen
  BY DEF Stop
<1>6. cur' = cur
  BY DEF ParseByte
<1>7. left - 1 <= Rest(cur)'
  <2>1. PICK s \in Servers : s = cur
    BY <1>1
  <2>2. left - 1 <= Rest(s)'
    BY <1>1, <2>1, NextByte
  <2> QED BY <1>6, <2>1, <2>2 DEF Rest
<1>5. b \in Bytes
  BY <1>1, NextByte
<1> HIDE DEF b
<1> QED BY <1>1, <1>2, <1>3, <1>4, <1>5, <1>7, NextByte

\* All variables keep their type, and nothing is read past the last packet.
LEMMA TypeStep == TypeOK /\ [Next]_vars => TypeOK'
<1> SUFFICES ASSUME TypeOK, [Next]_vars PROVE TypeOK'
  OBVIOUS
<1>1. CASE ParseByte
  <2>1. PICK b \in Bytes :
           /\ Switch(b) \/ Overrun(b)
           /\ num' \in [Servers -> 1 .. PcktCnt + 1] /\ place' \in [Servers -> 1 .. PcktLen]
           /\ \A r \in Servers : num'[r] = PcktCnt + 1 => place'[r] = 1
           /\ left - 1 <= Rest(cur)'
    BY <1>1, RoundByte
  <2>2. left' = left - 1 /\ cur' = cur /\ left' \in 0 .. MaxRead
    BY <1>1, PacketParserAssumption DEF ParseByte, TypeOK
  <2>5. lost' \in BOOLEAN /\ overrun' \in BOOLEAN
    BY <2>1 DEF Switch, OnStart, OnStop, OnStopFails, OnOther, Overrun, TypeOK
  <2>3. Readable(cur, left)'
    BY <2>1, <2>2 DEF Readable, Rest
  <2>4. /\ rec_buf' \in [0 .. RECBUF_SIZE - 1 -> Bytes \cup {Zero}]
        /\ pckt_cur_pos' \in Nat /\ pckt_cur_len' \in Nat /\ packet' \in BOOLEAN
    <3>1. CASE OnStart(b)
      <4>1. CASE packet
        <5>1. rec_buf' = [Put(b) EXCEPT ![0] = b] /\ pckt_cur_pos' = 1 /\ pckt_cur_len' = 0
          BY <3>1, <4>1 DEF OnStart
        <5>2. packet' \in BOOLEAN
          BY <3>1 DEF OnStart
        <5>3. rec_buf' \in [0 .. RECBUF_SIZE - 1 -> Bytes \cup {Zero}]
          BY <5>1, PutType
        <5> QED BY <5>1, <5>2, <5>3
      <4>2. CASE ~packet
        BY <3>1, <4>2, PutType DEF OnStart, TypeOK
      <4> QED BY <4>1, <4>2
    <3>2. CASE OnStop(b)
      BY <3>2, PutType DEF OnStop, TypeOK
    <3>3. CASE OnOther(b)
      BY <3>3, PutType DEF OnOther, TypeOK
    <3>4. CASE OnStopFails(b)
      BY <3>4, PutType DEF OnStopFails, TypeOK
    <3>5. CASE Overrun(b)
      BY <3>5, PacketParserAssumption DEF Overrun, TypeOK
    <3> QED BY <2>1, <3>1, <3>2, <3>3, <3>4, <3>5 DEF Switch
  <2> QED BY <2>1, <2>2, <2>3, <2>4, <2>5 DEF TypeOK
<1>2. ASSUME NEW s \in Servers, Lose(s) PROVE TypeOK'
  <2>1. /\ num' \in [Servers -> 1 .. PcktCnt + 1] /\ place' \in [Servers -> 1 .. PcktLen]
        /\ \A r \in Servers : num'[r] = PcktCnt + 1 => place'[r] = 1
        /\ 0 <= Rest(s)'
        /\ \A r \in Servers \ {s} : num'[r] = num[r] /\ place'[r] = place[r]
    <3>1. 1 \in Nat /\ 1 > 0 /\ Readable(s, 1) /\ Advance(s) /\ 1 - 1 = 0
      BY <1>2 DEF Lose
    <3> QED BY ONLY <3>1, NextByte, TypeOK, s \in Servers
  <2>2. UNCHANGED <<cur, left, rec_buf, pckt_cur_pos, pckt_cur_len, packet, overrun>>
        /\ lost' = TRUE /\ left = 0
    BY <1>2 DEF Lose, parser
  <2>3. Readable(cur, left)'
    <3>1. CASE cur = s
      BY <2>1, <2>2, <3>1 DEF Readable, Rest
    <3>2. CASE cur # s
      BY <2>1, <2>2, <3>2 DEF Readable, Rest, TypeOK
    <3> QED BY <3>1, <3>2
  <2> QED BY <2>1, <2>2, <2>3 DEF TypeOK
<1>3. ASSUME NEW s \in Servers, NEW n \in 1 .. MaxRead, Dispatch(s, n) PROVE TypeOK'
  <2>1. cur' = s /\ left' = n /\ left' \in 0 .. MaxRead /\ Readable(cur, left)'
    BY <1>3, PacketParserAssumption DEF Dispatch, Readable, Rest
  <2>2. UNCHANGED <<num, place, rec_buf, pckt_cur_pos, pckt_cur_len, packet, lost, overrun>>
    BY <1>3 DEF Dispatch, parser
  <2> QED BY <2>1, <2>2 DEF TypeOK
<1>4. CASE UNCHANGED vars
  BY <1>4 DEF TypeOK, vars, parser, Readable, Rest
<1> QED BY <1>1, <1>2, <1>3, <1>4 DEF Next
-----------------------------------------------------------------------------
(* What lies in rec_buf                                                     *)

\* A byte more: what becomes of the bytes since the last STOP.
LEMMA SeenMore ==
  ASSUME seen \in Seq(Bytes), NEW b \in Bytes
  PROVE  /\ Append(seen, b) \in Seq(Bytes)
         /\ Len(seen) \in Nat /\ Len(Append(seen, b)) = Len(seen) + 1
         /\ \A j \in 1 .. Len(seen) : Append(seen, b)[j] = seen[j]
         /\ Append(seen, b)[Len(seen) + 1] = b
         /\ Starts(Append(seen, b)) =
              Starts(seen) \cup IF Start(b) THEN {Len(seen) + 1} ELSE {}
<1>1. /\ Append(seen, b) \in Seq(Bytes)
      /\ Len(seen) \in Nat /\ Len(Append(seen, b)) = Len(seen) + 1
      /\ \A j \in 1 .. Len(seen) : Append(seen, b)[j] = seen[j]
      /\ Append(seen, b)[Len(seen) + 1] = b
  OBVIOUS
<1>2. ASSUME NEW j
      PROVE  j \in Starts(Append(seen, b)) <=>
               j \in Starts(seen) \/ (Start(b) /\ j = Len(seen) + 1)
  BY <1>1 DEF Starts
<1> QED BY <1>1, <1>2

\* A byte that is no STOP keeps the statics in step with the bytes seen.
LEMMA PlaceStep ==
  ASSUME TypeOK, SeenInv, PlaceInv, NEW b \in Bytes, OnStart(b) \/ OnOther(b)
  PROVE  PlaceInv'
<1>0. PICK n \in Nat : n = Len(seen)
  BY SeenMore DEF SeenInv
<1>1. /\ seen' = Append(seen, b) /\ seen' \in Seq(Bytes) /\ n \in Nat /\ Len(seen') = n + 1
      /\ \A j \in 1 .. n : seen'[j] = seen[j]
      /\ seen'[n + 1] = b
      /\ Starts(seen') = Starts(seen) \cup IF Start(b) THEN {n + 1} ELSE {}
  BY <1>0, SeenMore DEF OnStart, OnOther, SeenInv
<1>2. Starts(seen) \subseteq 1 .. n
  BY <1>0 DEF Starts
<1>3. /\ pckt_cur_pos \in Nat /\ RECBUF_SIZE \in Nat /\ 0 < RECBUF_SIZE
      /\ rec_buf \in [0 .. RECBUF_SIZE - 1 -> Bytes \cup {Zero}]
  BY PacketParserAssumption DEF TypeOK
<1>4. CASE OnStart(b)
  <2>1. Start(b) /\ packet'
    BY <1>4 DEF OnStart
  <2>2. Starts(seen') = Starts(seen) \cup {n + 1} /\ LastStart(seen', n + 1)
    <3>1. Starts(seen') = Starts(seen) \cup {n + 1}
      BY <1>1, <2>1
    <3> QED BY <1>1, <1>2, <3>1 DEF LastStart
  <2>3. pckt_cur_pos' = 1 /\ rec_buf'[0] = b
    <3>1. CASE packet
      BY <1>3, <1>4, <3>1, PutType DEF OnStart
    <3>2. CASE ~packet
      <4>1. pckt_cur_pos = 0
        BY <3>2 DEF PlaceInv
      <4>2. rec_buf' = Put(b) /\ pckt_cur_pos' = 1
        BY <1>4, <3>2, <4>1 DEF OnStart
      <4> QED BY <1>3, <4>1, <4>2, PutType
    <3> QED BY <3>1, <3>2
  <2>4. Holds(n + 1)'
    BY <1>1, <2>3 DEF Holds
  <2>5. pckt_cur_len' = IF Starts(seen') = {n + 1} THEN n + 1 ELSE 0
    <3>1. CASE packet
      <4>1. PICK j \in 1 .. n : j \in Starts(seen)
        BY <1>0, <3>1 DEF PlaceInv, InPacket, LastStart
      <4>2. Starts(seen') # {n + 1}
        BY <1>1, <2>2, <4>1
      <4> QED BY <1>4, <3>1, <4>2 DEF OnStart
    <3>2. CASE ~packet
      <4>1. Starts(seen') = {n + 1} /\ pckt_cur_len = n
        BY <1>0, <2>2, <3>2 DEF PlaceInv
      <4> QED BY <1>4, <3>2, <4>1 DEF OnStart
    <3> QED BY <3>1, <3>2
  <2>6. InPacket(n + 1)'
    <3>1. pckt_cur_pos' = Len(seen') - (n + 1) + 1 /\ Len(seen') - (n + 1) = 0
      BY <1>1, <2>3
    <3>2. pckt_cur_len' = IF Starts(seen') = {n + 1} THEN Len(seen') ELSE Len(seen') - (n + 1)
      BY <1>1, <2>5
    <3> QED BY <2>2, <2>4, <3>1, <3>2 DEF InPacket, LastStart
  <2>7. n + 1 \in 1 .. Len(seen')
    BY <1>1
  <2> QED BY <2>1, <2>6, <2>7 DEF PlaceInv
<1>5. CASE OnOther(b)
  <2>1. Starts(seen') = Starts(seen)
    BY <1>1, <1>5 DEF OnOther
  <2>2. rec_buf' = Put(b) /\ packet' = packet /\ pckt_cur_len' = pckt_cur_len + 1
        /\ pckt_cur_pos' = IF packet THEN pckt_cur_pos + 1 ELSE pckt_cur_pos
    BY <1>5 DEF OnOther
  <2>3. CASE packet
    <3>1. PICK j \in 1 .. n : InPacket(j)
      BY <1>0, <2>3 DEF PlaceInv
    <3>2. pckt_cur_pos = n - j + 1 /\ pckt_cur_pos' = n - j + 2
      BY <1>0, <1>1, <2>2, <2>3, <3>1 DEF InPacket
    <3>3. LastStart(seen, j)'
      BY <2>1, <3>1 DEF InPacket, LastStart
    <3>4. pckt_cur_len' = IF Starts(seen') = {j} THEN n + 1 ELSE (n + 1) - j
      <4>1. pckt_cur_len = IF Starts(seen') = {j} THEN n ELSE n - j
        BY <1>0, <2>1, <3>1 DEF InPacket
      <4>2. CASE Starts(seen') = {j}
        BY <2>2, <4>1, <4>2
      <4>3. CASE Starts(seen') # {j}
        BY <2>2, <4>1, <4>3
      <4> QED BY <4>2, <4>3
    <3>5. Holds(j)'
      <4> SUFFICES ASSUME NEW i \in 0 .. n - j + 1, i < RECBUF_SIZE
                   PROVE  rec_buf'[i] = seen'[j + i]
        <5>1. pckt_cur_pos' - 1 = n - j + 1
          BY <3>2
        <5> QED BY <5>1 DEF Holds
      <4>1. CASE i = n - j + 1
        <5>1. j + i = n + 1
          BY <1>1, <4>1
        <5>2. i \in 0 .. RECBUF_SIZE - 1 /\ i = pckt_cur_pos
          BY <1>3, <3>2, <4>1
        <5>3. rec_buf'[i] = b
          BY <2>2, <5>2, PutType
        <5> QED BY <1>1, <5>1, <5>3
      <4>2. CASE i # n - j + 1
        <5>1. i \in 0 .. pckt_cur_pos - 1 /\ j + i \in 1 .. n /\ i # pckt_cur_pos
          BY <1>1, <3>2, <4>2
        <5>2. rec_buf[i] = seen[j + i]
          BY <3>1, <5>1 DEF InPacket, Holds
        <5>3. rec_buf'[i] = rec_buf[i]
          BY <1>3, <2>2, <5>1, PutType
        <5> QED BY <1>1, <5>1, <5>2, <5>3
      <4> QED BY <4>1, <4>2
    <3>6. InPacket(j)'
      BY <1>1, <3>2, <3>3, <3>4, <3>5 DEF InPacket
    <3> QED BY <1>1, <2>2, <2>3, <3>6 DEF PlaceInv
  <2>4. CASE ~packet
    BY <1>0, <1>1, <2>1, <2>2, <2>4 DEF PlaceInv
  <2> QED BY <2>3, <2>4
<1> QED BY <1>4, <1>5

\* What memcpy takes from rec_buf.
LEMMA CopiedBytes ==
  ASSUME TypeOK, NEW b \in Bytes, NEW len \in Nat
  PROVE  /\ Copied(b, len) \in Seq(Bytes \cup {Zero}) /\ Len(Copied(b, len)) = len
         /\ \A p \in 1 .. len : p <= RECBUF_SIZE =>
              Copied(b, len)[p] = IF p - 1 = pckt_cur_pos THEN b ELSE rec_buf[p - 1]
<1>1. RECBUF_SIZE \in Nat /\ DOMAIN rec_buf = 0 .. RECBUF_SIZE - 1
  BY PacketParserAssumption DEF TypeOK
<1>2. ASSUME NEW p \in 1 .. len
      PROVE  (IF p - 1 \in DOMAIN rec_buf THEN Put(b)[p - 1] ELSE Zero) \in Bytes \cup {Zero}
  BY <1>1, PutType
<1>3. Copied(b, len) \in Seq(Bytes \cup {Zero}) /\ Len(Copied(b, len)) = len
  BY <1>2 DEF Copied
<1>4. ASSUME NEW p \in 1 .. len, p <= RECBUF_SIZE
      PROVE  Copied(b, len)[p] = IF p - 1 = pckt_cur_pos THEN b ELSE rec_buf[p - 1]
  <2>1. p - 1 \in 0 .. RECBUF_SIZE - 1
    BY <1>1, <1>4
  <2>2. Copied(b, len)[p] = Put(b)[p - 1]
    BY <1>1, <2>1 DEF Copied
  <2> QED BY <2>1, <2>2, PutType
<1> QED BY <1>3, <1>4

\* What a STOP hands out.
LEMMA StopCopies ==
  ASSUME TypeOK, SeenInv, PlaceInv, NEW b \in Bytes, Stop(b), Len(seen) + 1 <= RECBUF_SIZE
  PROVE  CopyOf([seen |-> Append(seen, b), copy |-> Copied(b, pckt_cur_len + 1)])
<1> DEFINE n    == Len(seen)
           all  == Append(seen, b)
           copy == Copied(b, pckt_cur_len + 1)
<1>1. /\ all \in Seq(Bytes) /\ n \in Nat /\ Len(all) = n + 1
      /\ \A j \in 1 .. n : all[j] = seen[j]
      /\ all[n + 1] = b
      /\ Starts(all) = Starts(seen)
  <2>1. ~Start(b)
    BY PacketParserAssumption DEF Start, Stop
  <2> QED BY <2>1, SeenMore DEF SeenInv
<1>2. /\ copy \in Seq(Bytes \cup {Zero}) /\ Len(copy) = pckt_cur_len + 1
      /\ \A p \in 1 .. pckt_cur_len + 1 : p <= RECBUF_SIZE =>
           copy[p] = IF p - 1 = pckt_cur_pos THEN b ELSE rec_buf[p - 1]
  <2>1. pckt_cur_len + 1 \in Nat
    BY DEF TypeOK
  <2> QED BY <2>1, CopiedBytes
<1>3. RECBUF_SIZE \in Nat /\ n + 1 <= RECBUF_SIZE /\ pckt_cur_len \in Nat
  BY PacketParserAssumption DEF TypeOK
<1> SUFFICES
      /\ Starts(all) = {} => Len(copy) = Len(all) /\ BeginsWith(copy, all, Len(all))
      /\ \A j \in 1 .. Len(all) : LastStart(all, j) =>
           IF Starts(all) = {j} THEN Len(copy) = Len(all) /\ BeginsWith(copy, all, j)
           ELSE copy = SubSeq(all, j, Len(all) - 1)
  BY DEF CopyOf
<1>4. n = Len(seen)
  OBVIOUS
<1> HIDE DEF n, all, copy
<1>5. CASE ~packet
  <2>1. Starts(all) = {} /\ pckt_cur_pos = 0 /\ pckt_cur_len = n
    BY <1>1, <1>4, <1>5 DEF PlaceInv
  <2>2. copy[1] = b
    BY <1>1, <1>2, <1>3, <2>1
  <2>3. BeginsWith(copy, all, Len(all))
    BY <1>1, <2>2 DEF BeginsWith
  <2> QED BY <1>1, <1>2, <2>1, <2>3 DEF LastStart
<1>6. CASE packet
  <2>1. PICK j \in 1 .. n : InPacket(j)
    BY <1>4, <1>6 DEF PlaceInv
  <2>2. /\ LastStart(all, j) /\ pckt_cur_pos = n - j + 1
        /\ pckt_cur_len = IF Starts(all) = {j} THEN n ELSE n - j
    BY <1>1, <1>4, <2>1 DEF InPacket, LastStart
  <2>3. \A i \in 0 .. n - j : rec_buf[i] = seen[j + i]
    BY <1>1, <1>3, <2>1, <2>2 DEF InPacket, Holds
  <2>4. ASSUME NEW h \in 1 .. Len(all), LastStart(all, h) PROVE h = j
    BY <1>1, <2>2, <2>4 DEF LastStart
  <2>5. j \in Starts(all)
    BY <2>2 DEF LastStart
  <2>6. CASE Starts(all) = {j}
    <3>1. Len(copy) = Len(all)
      BY <1>1, <1>2, <2>2, <2>6
    <3>2. ASSUME NEW i \in j .. Len(all) PROVE copy[i - j + 1] = all[i]
      <4>1. /\ i - j + 1 \in 1 .. pckt_cur_len + 1 /\ i - j + 1 <= RECBUF_SIZE
            /\ (i - j + 1) - 1 = i - j
        BY <1>1, <1>3, <2>2, <2>6
      <4>2. copy[i - j + 1] = IF i - j = pckt_cur_pos THEN b ELSE rec_buf[i - j]
        BY <1>2, <4>1
      <4>3. CASE i = n + 1
        BY <1>1, <2>2, <4>2, <4>3
      <4>4. CASE i # n + 1
        <5>1. i - j \in 0 .. n - j /\ j + (i - j) = i /\ i \in 1 .. n /\ i - j # pckt_cur_pos
          BY <1>1, <2>2, <4>4
        <5>2. rec_buf[i - j] = seen[i]
          BY <2>3, <5>1
        <5> QED BY <1>1, <4>2, <5>1, <5>2
      <4> QED BY <4>3, <4>4
    <3>3. BeginsWith(copy, all, j)
      BY <3>2 DEF BeginsWith
    <3> QED BY <2>4, <2>5, <2>6, <3>1, <3>3
  <2>7. CASE Starts(all) # {j}
    <3>1. Len(copy) = n - j + 1 /\ copy \in Seq(Bytes \cup {Zero})
      BY <1>1, <1>2, <2>2, <2>7
    <3>2. /\ SubSeq(all, j, n) \in Seq(Bytes) /\ Len(SubSeq(all, j, n)) = n - j + 1
          /\ \A p \in 1 .. n - j + 1 : SubSeq(all, j, n)[p] = all[j + p - 1]
      <4>1. \A i \in j .. n : all[i] \in Bytes
        BY <1>1
      <4>2. j \in Int /\ n \in Int /\ j <= n
        BY <1>1
      <4> QED BY <4>1, <4>2, SubSeqProperties
    <3>3. ASSUME NEW p \in 1 .. n - j + 1 PROVE copy[p] = SubSeq(all, j, n)[p]
      <4>1. /\ p \in 1 .. pckt_cur_len + 1 /\ p <= RECBUF_SIZE /\ p - 1 # pckt_cur_pos
            /\ p - 1 \in 0 .. n - j /\ j + (p - 1) = j + p - 1 /\ j + p - 1 \in 1 .. n
        BY <1>1, <1>3, <2>2, <2>7
      <4>2. copy[p] = rec_buf[p - 1]
        BY <1>2, <4>1
      <4>3. rec_buf[p - 1] = seen[j + p - 1]
        BY <2>3, <4>1
      <4>4. seen[j + p - 1] = all[j + p - 1]
        BY <1>1, <4>1
      <4> QED BY <3>2, <4>2, <4>3, <4>4
    <3>4. copy = SubSeq(all, j, n)
      <4>1. SubSeq(all, j, n) \in Seq(Bytes \cup {Zero})
        BY <3>2, SeqMonotonic, Bytes \subseteq Bytes \cup {Zero}
      <4> QED BY <3>1, <3>2, <3>3, <4>1, SeqEqual
    <3>5. Len(all) - 1 = n
      BY <1>1
    <3> QED BY <2>4, <2>5, <2>7, <3>4, <3>5
  <2> QED BY <2>6, <2>7
<1> QED BY <1>5, <1>6
-----------------------------------------------------------------------------
(* How much lies in rec_buf                                                 *)

\* As no place of a packet is there twice, all bytes since the last STOP are as
\* many as the servers have places before their STOPs, at most.
LEMMA SeenBound ==
  ASSUME SeenInv, OnceInv, IsFiniteSet(Servers)
  PROVE  Len(seen) <= Cardinality(Servers) * (PcktLen - 1)
<1>1. PICK n \in Nat : n = Len(seen)
  BY SeenMore DEF SeenInv
<1> DEFINE places == Servers \X (1 .. PcktLen - 1)
           f == [j \in 1 .. n |-> <<seen[j][1], seen[j][3]>>]
<1>2. PcktLen \in Nat /\ PcktLen > 1
  BY PacketParserAssumption
<1>3. IsFiniteSet(places) /\ Cardinality(places) = Cardinality(Servers) * (PcktLen - 1)
  <2>1. 1 \in Int /\ PcktLen - 1 \in Int /\ ~(1 > PcktLen - 1) /\ (PcktLen - 1) - 1 + 1 = PcktLen - 1
    BY <1>2
  <2>2. IsFiniteSet(1 .. PcktLen - 1) /\ Cardinality(1 .. PcktLen - 1) = PcktLen - 1
    BY <2>1, FS_Interval
  <2> QED BY <2>2, FS_Product
<1>4. f \in [1 .. n -> places]
  <2> SUFFICES ASSUME NEW j \in 1 .. n
               PROVE  seen[j][1] \in Servers /\ seen[j][3] \in 1 .. PcktLen - 1
    OBVIOUS
  <2>1. seen[j] \in Bytes /\ seen[j][3] # PcktLen
    BY <1>1 DEF SeenInv, Clean, Stop
  <2> QED BY <1>2, <2>1 DEF Bytes
<1>5. ASSUME NEW i \in 1 .. n, NEW j \in 1 .. n, i # j PROVE f[i] # f[j]
  <2>1. ASSUME NEW h \in 1 .. n, NEW k \in 1 .. n, h < k PROVE f[h] # f[k]
    <3>1. h \in 1 .. k - 1 /\ k \in 1 .. Len(seen)
      BY <1>1, <2>1
    <3>2. seen[h][1] = seen[k][1] => seen[h][3] # seen[k][3]
      BY <3>1 DEF OnceInv
    <3> QED BY <3>2
  <2>2. i < j \/ j < i
    BY <1>5
  <2> QED BY <2>1, <2>2
<1>6. IsFiniteSet(1 .. n) /\ Cardinality(1 .. n) = n
  <2>1. 1 \in Int /\ n \in Int
    OBVIOUS
  <2>2. IsFiniteSet(1 .. n) /\ Cardinality(1 .. n) = IF 1 > n THEN 0 ELSE n - 1 + 1
    BY <2>1, FS_Interval
  <2> QED BY <2>2
<1>7. ~(Cardinality(places) < Cardinality(1 .. n))
  <2> HIDE DEF places, f
  <2> QED BY <1>3, <1>4, <1>5, <1>6, FS_PigeonHole
<1>8. Cardinality(places) \in Nat
  BY <1>3, FS_CardinalityType
<1> HIDE DEF places
<1>9. n <= Cardinality(places)
  BY <1>6, <1>7, <1>8
<1> QED BY <1>1, <1>3, <1>9

\* ... so they fit in rec_buf with one byte more.
LEMMA SeenFits ==
  ASSUME SeenInv, OnceInv, Fits
  PROVE  Len(seen) < RECBUF_SIZE
<1>1. Len(seen) <= Cardinality(Servers) * (PcktLen - 1)
  BY SeenBound DEF Fits
<1>2. Cardinality(Servers) \in Nat /\ PcktLen - 1 \in Nat /\ RECBUF_SIZE \in Nat
  BY FS_CardinalityType, PacketParserAssumption DEF Fits
<1>3. PICK m \in Nat : m = Cardinality(Servers) * (PcktLen - 1)
  BY <1>2
<1>4. Len(seen) \in Nat
  BY SeenMore DEF SeenInv
<1> QED BY <1>1, <1>2, <1>3, <1>4 DEF Fits

\* The count of bytes never exceeds the bytes that came.
LEMMA PlaceBound ==
  ASSUME TypeOK, SeenInv, PlaceInv
  PROVE  pckt_cur_pos <= Len(seen) /\ pckt_cur_len <= Len(seen)
<1>1. Len(seen) \in Nat
  BY SeenMore DEF SeenInv
<1>2. CASE packet
  <2>1. PICK j \in 1 .. Len(seen) : InPacket(j)
    BY <1>2 DEF PlaceInv
  <2>2. pckt_cur_pos = Len(seen) - j + 1
    BY <2>1 DEF InPacket
  <2>3. pckt_cur_len = Len(seen) \/ pckt_cur_len = Len(seen) - j
    BY <2>1 DEF InPacket
  <2> QED BY <1>1, <2>2, <2>3
<1>3. CASE ~packet
  BY <1>1, <1>3 DEF PlaceInv
<1> QED BY <1>2, <1>3

\* A byte more is of a place that was not there.
LEMMA OnceStep ==
  ASSUME TypeOK, SeenInv, OnceInv, NEW b \in Bytes,
         b[1] = cur, b[2] = num[cur], b[3] = place[cur],
         num'[cur] = num[cur], place'[cur] = place[cur] + 1,
         \A r \in Servers \ {cur} : num'[r] = num[r] /\ place'[r] = place[r],
         seen' = Append(seen, b)
  PROVE  OnceInv'
<1>1. PICK n \in Nat : n = Len(seen)
  BY SeenMore DEF SeenInv
<1>2. /\ Len(seen') = n + 1 /\ seen'[n + 1] = b
      /\ \A j \in 1 .. n : seen'[j] = seen[j]
  BY <1>1, SeenMore DEF SeenInv
<1>3. ASSUME NEW j \in 1 .. n
      PROVE  /\ seen[j][1] \in Servers /\ seen[j][3] \in Nat /\ place[seen[j][1]] \in Nat
             /\ seen[j][2] = num[seen[j][1]] /\ seen[j][3] < place[seen[j][1]]
             /\ \A i \in 1 .. j - 1 : seen[i][1] = seen[j][1] => seen[i][3] # seen[j][3]
  <2>1. seen[j][1] \in Servers /\ seen[j][3] \in Nat
    BY <1>1, PacketParserAssumption DEF SeenInv, Bytes
  <2>2. place[seen[j][1]] \in Nat
    BY <2>1, PacketParserAssumption DEF TypeOK
  <2> QED BY <1>1, <2>1, <2>2 DEF OnceInv
<1>4. ASSUME NEW j \in 1 .. n + 1
      PROVE  /\ seen'[j][2] = num'[seen'[j][1]] /\ seen'[j][3] < place'[seen'[j][1]]
             /\ \A i \in 1 .. j - 1 : seen'[i][1] = seen'[j][1] => seen'[i][3] # seen'[j][3]
  <2>1. CASE j = n + 1
    <3>1. seen'[j] = b
      BY <1>2, <2>1
    <3>2. place[cur] \in Nat
      BY PacketParserAssumption DEF TypeOK
    <3>3. ASSUME NEW i \in 1 .. j - 1, seen'[i][1] = seen'[j][1]
          PROVE  seen'[i][3] # seen'[j][3]
      <4>1. i \in 1 .. n /\ seen'[i] = seen[i]
        BY <1>2, <2>1
      <4>2. seen[i][1] = cur
        BY <3>1, <3>3, <4>1
      <4>3. seen[i][3] < place[cur] /\ seen[i][3] \in Nat
        BY <1>3, <4>1, <4>2
      <4> QED BY <3>1, <3>2, <4>1, <4>3
    <3>4. seen'[j][2] = num'[seen'[j][1]]
      BY <3>1
    <3>5. seen'[j][3] < place'[seen'[j][1]]
      BY <3>1, <3>2
    <3> QED BY <3>3, <3>4, <3>5
  <2>2. CASE j \in 1 .. n
    <3>1. seen'[j] = seen[j] /\ \A i \in 1 .. j - 1 : seen'[i] = seen[i]
      BY <1>2, <2>2
    <3>2. num'[seen[j][1]] = num[seen[j][1]] /\ seen[j][3] < place'[seen[j][1]]
      <4>1. CASE seen[j][1] = cur
        BY <1>3, <2>2, <4>1
      <4>2. CASE seen[j][1] # cur
        BY <1>3, <2>2, <4>2
      <4> QED BY <4>1, <4>2
    <3> QED BY <1>3, <2>2, <3>1, <3>2
  <2>3. j = n + 1 \/ j \in 1 .. n
    OBVIOUS
  <2> QED BY ONLY <2>1, <2>2, <2>3
<1> QED BY <1>2, <1>4 DEF OnceInv

\* What a STOP hands out is known, and fits.
LEMMA RetStep ==
  ASSUME TypeOK, LossInv, RetInv, NEW b \in Bytes, OnStop(b), overrun' = overrun
  PROVE  RetInv'
<1> DEFINE item == [seen |-> Append(seen, b), copy |-> Copied(b, pckt_cur_len + 1)]
<1>1. PICK n \in Nat : n = Len(ret)
  BY DEF RetInv
<1>2. pckt_cur_len + 1 \in Nat /\ RECBUF_SIZE \in Nat
  BY PacketParserAssumption DEF TypeOK
<1>3. item \in Items /\ Len(item.seen) = Len(seen) + 1 /\ Len(item.copy) = pckt_cur_len + 1
  BY <1>2, SeenMore, CopiedBytes DEF Items, LossInv
<1>4. ret' = Append(ret, item) /\ Stop(b) /\ lost' = lost
  BY DEF OnStop
<1>5. ~overrun /\ Regular(item.seen) => CopyOf(item)
  <2>1. SUFFICES ASSUME ~overrun, Regular(item.seen) PROVE CopyOf(item)
    OBVIOUS
  <2>2. /\ Len(seen) \in Nat /\ Len(item.seen) = Len(seen) + 1
        /\ \A j \in 1 .. Len(seen) : item.seen[j] = seen[j]
    BY SeenMore DEF LossInv
  <2>3. Clean /\ Len(seen) + 1 <= RECBUF_SIZE
    BY <2>1, <2>2 DEF Regular, Clean
  <2>4. SeenInv /\ PlaceInv
    BY <2>1, <2>3 DEF LossInv, SeenInv
  <2> QED BY <1>4, <2>3, <2>4, StopCopies
<1>6. Fits /\ ~lost => Len(item.copy) <= RECBUF_SIZE
  <2>1. SUFFICES ASSUME Fits, ~lost PROVE pckt_cur_len + 1 <= RECBUF_SIZE
    BY <1>3
  <2>3. SeenInv /\ PlaceInv /\ OnceInv
    BY <2>1 DEF LossInv, SeenInv
  <2>2. Len(seen) < RECBUF_SIZE /\ pckt_cur_len <= Len(seen) /\ Len(seen) \in Nat
    BY <2>1, <2>3, SeenFits, PlaceBound, SeenMore DEF LossInv
  <2> QED BY <1>2, <2>2 DEF TypeOK
<1> HIDE DEF item
<1>7. /\ ret' \in Seq(Items) /\ Len(ret') = n + 1 /\ ret'[n + 1] = item
      /\ \A k \in 1 .. n : ret'[k] = ret[k]
  BY <1>1, <1>3, <1>4 DEF RetInv
<1>8. ASSUME NEW k \in 1 .. n + 1
      PROVE  /\ ~overrun' /\ Regular(ret'[k].seen) => CopyOf(ret'[k])
             /\ Fits /\ ~lost => Len(ret'[k].copy) <= RECBUF_SIZE
  <2>1. CASE k = n + 1
    BY <1>5, <1>6, <1>7, <2>1
  <2>2. CASE k \in 1 .. n
    BY <1>1, <1>7, <2>2 DEF RetInv
  <2> QED BY <2>1, <2>2
<1> QED BY <1>4, <1>7, <1>8 DEF RetInv, Fits
-----------------------------------------------------------------------------
(* The invariant                                                            *)

\* Before the first byte.
LEMMA IInvInit == Init => IInv
<1> SUFFICES ASSUME Init PROVE IInv
  OBVIOUS
<1>1. TypeOK
  <2>1. cur \in Servers /\ left = 0 /\ num[cur] = 1 /\ place[cur] = 1
    BY DEF Init
  <2>2. 0 <= (PcktCnt - 1) * PcktLen + (PcktLen + 1 - 1)
    <3>1. PcktCnt - 1 \in Nat /\ PcktLen \in Nat
      BY PacketParserAssumption
    <3>2. \A x, y \in Nat : x * y \in Nat
      OBVIOUS
    <3>3. PICK m \in Nat : m = (PcktCnt - 1) * PcktLen
      BY <3>1, <3>2
    <3> QED BY <3>1, <3>3
  <2>3. Readable(cur, left)
    BY <2>1, <2>2 DEF Readable, Rest
  <2>4. /\ num \in [Servers -> 1 .. PcktCnt + 1] /\ place \in [Servers -> 1 .. PcktLen]
        /\ \A s \in Servers : num[s] = PcktCnt + 1 => place[s] = 1
    BY PacketParserAssumption DEF Init
  <2>5. rec_buf \in [0 .. RECBUF_SIZE - 1 -> Bytes \cup {Zero}]
    BY DEF Init
  <2>6. left \in 0 .. MaxRead
    BY <2>1, PacketParserAssumption
  <2>7. pckt_cur_pos \in Nat /\ pckt_cur_len \in Nat
    BY DEF Init
  <2>8. packet \in BOOLEAN /\ lost \in BOOLEAN /\ overrun \in BOOLEAN
    BY DEF Init
  <2> QED BY <2>1, <2>3, <2>4, <2>5, <2>6, <2>7, <2>8 DEF TypeOK
<1>2. /\ seen = <<>> /\ ret = <<>> /\ packet = FALSE /\ overrun = FALSE
      /\ pckt_cur_pos = 0 /\ pckt_cur_len = 0
  BY DEF Init
<1>3. seen \in Seq(Bytes) /\ Len(seen) = 0 /\ ret \in Seq(Items) /\ Len(ret) = 0
  BY <1>2
<1>4. Clean /\ OnceInv /\ RetInv
  BY <1>3 DEF Clean, OnceInv, RetInv
<1>5. PlaceInv
  BY <1>2, <1>3 DEF PlaceInv, Starts
<1> QED BY <1>1, <1>2, <1>3, <1>4, <1>5 DEF IInv, LossInv

\* A round of parse_buffer.
LEMMA ParseStep == IInv /\ ParseByte => LossInv' /\ RetInv'
<1> SUFFICES ASSUME IInv, ParseByte PROVE LossInv' /\ RetInv'
  OBVIOUS
<1>1. TypeOK /\ LossInv /\ RetInv
  BY DEF IInv
<1>2. PICK b \in Bytes :
         /\ Switch(b) \/ Overrun(b)
         /\ b[1] = cur /\ b[2] = num[cur] /\ b[3] = place[cur]
         /\ \A r \in Servers \ {cur} : num'[r] = num[r] /\ place'[r] = place[r]
         /\ ~Stop(b) => num'[cur] = num[cur] /\ place'[cur] = place[cur] + 1
  BY <1>1, RoundByte
<1>3. PICK n \in Nat : n = Len(seen)
  BY <1>1, SeenMore DEF LossInv
<1>4. /\ Append(seen, b) \in Seq(Bytes) /\ Len(Append(seen, b)) = n + 1
      /\ Append(seen, b)[n + 1] = b
      /\ \A j \in 1 .. n : Append(seen, b)[j] = seen[j]
  BY <1>1, <1>3, SeenMore DEF LossInv
<1>5. CASE OnStop(b) /\ overrun' = overrun
  <2>1. /\ seen' = <<>> /\ packet' = FALSE /\ pckt_cur_pos' = 0 /\ pckt_cur_len' = 0
        /\ lost' = lost
    BY <1>5 DEF OnStop
  <2>2. seen' \in Seq(Bytes) /\ Len(seen') = 0
    BY <2>1
  <2>3. Clean' /\ OnceInv'
    BY <2>2 DEF Clean, OnceInv
  <2>4. PlaceInv'
    BY <2>1, <2>2 DEF PlaceInv, Starts
  <2>5. RetInv'
    BY <1>1, <1>5, RetStep
  <2> QED BY <1>1, <1>5, <2>1, <2>2, <2>3, <2>4, <2>5 DEF LossInv, Fits
<1>6. CASE (OnStart(b) \/ OnOther(b)) /\ overrun' = overrun
  <2>1. seen' = Append(seen, b) /\ ret' = ret /\ lost' = lost
    BY <1>6 DEF OnStart, OnOther
  <2>2. ~Stop(b)
    BY <1>6, PacketParserAssumption DEF OnStart, OnOther, Start, Stop
  <2>3. Clean' <=> Clean
    <3>1. Clean' <=> \A j \in 1 .. n + 1 : ~Stop(Append(seen, b)[j])
      BY <1>4, <2>1 DEF Clean
    <3>2. Clean <=> \A j \in 1 .. n : ~Stop(seen[j])
      BY <1>3 DEF Clean
    <3>3. \A j \in 1 .. n + 1 : j = n + 1 \/ j \in 1 .. n
      OBVIOUS
    <3> QED BY <1>4, <2>2, <3>1, <3>2, <3>3
  <2>4. ASSUME ~overrun', Clean' PROVE PlaceInv'
    <3>1. SeenInv /\ PlaceInv
      BY <1>1, <1>6, <2>3, <2>4 DEF LossInv, SeenInv
    <3> QED BY <1>1, <1>6, <3>1, PlaceStep
  <2>5. ASSUME ~overrun', ~lost' PROVE Clean' /\ OnceInv'
    <3>1. SeenInv /\ OnceInv
      BY <1>1, <1>6, <2>1, <2>5 DEF LossInv, SeenInv
    <3>2. OnceInv'
      BY <1>1, <1>2, <2>1, <2>2, <3>1, OnceStep
    <3> QED BY <2>3, <3>1, <3>2 DEF SeenInv
  <2>6. RetInv'
    BY <1>1, <1>6, <2>1 DEF RetInv, Fits
  <2> QED BY <1>1, <1>4, <1>6, <2>1, <2>4, <2>5, <2>6 DEF LossInv, Fits
<1>7. CASE OnStopFails(b) /\ overrun' = overrun
  <2>1. seen' = Append(seen, b) /\ ret' = ret /\ lost' = TRUE /\ Stop(b)
    BY <1>7 DEF OnStopFails
  <2>2. ~Clean'
    BY <1>4, <2>1 DEF Clean
  <2> QED BY <1>1, <1>4, <1>7, <2>1, <2>2 DEF LossInv, RetInv, Fits
<1>8. CASE Overrun(b)
  <2>1. /\ seen' = Append(seen, b) /\ ret' = ret /\ lost' = lost /\ overrun' = TRUE
        /\ pckt_cur_pos >= RECBUF_SIZE
    BY <1>8 DEF Overrun
  <2>2. ~(Fits /\ ~lost)
    <3> SUFFICES ASSUME Fits, ~lost PROVE FALSE
      OBVIOUS
    <3>1. SeenInv /\ PlaceInv /\ OnceInv
      BY <1>1 DEF LossInv, SeenInv
    <3>2. n < RECBUF_SIZE /\ pckt_cur_pos <= n
      BY <1>1, <1>3, <3>1, SeenFits, PlaceBound
    <3>3. pckt_cur_pos \in Nat /\ RECBUF_SIZE \in Nat
      BY <1>1, PacketParserAssumption DEF TypeOK
    <3> QED BY <2>1, <3>2, <3>3
  <2> QED BY <1>1, <1>4, <2>1, <2>2 DEF LossInv, RetInv, Fits
<1> QED BY <1>2, <1>5, <1>6, <1>7, <1>8 DEF Switch

\* What happens outside parse_buffer leaves its statics alone.
LEMMA OtherSteps ==
  ASSUME IInv, \/ \E s \in Servers : Lose(s) \/ \E n \in 1 .. MaxRead : Dispatch(s, n)
               \/ UNCHANGED vars
  PROVE  LossInv' /\ RetInv'
<1>1. UNCHANGED <<rec_buf, pckt_cur_pos, pckt_cur_len, packet, seen, overrun>>
  BY DEF Lose, Dispatch, vars, parser
<1>2. (Clean' <=> Clean) /\ (PlaceInv' <=> PlaceInv)
  BY <1>1 DEF Clean, PlaceInv, InPacket, Holds, LastStart
<1>3. lost' \/ (lost' = lost /\ UNCHANGED <<num, place>>)
  BY DEF Lose, Dispatch, vars
<1>4. ~lost' => ~lost /\ (OnceInv' <=> OnceInv)
  BY <1>1, <1>3 DEF OnceInv
<1>5. LossInv'
  BY <1>1, <1>2, <1>4 DEF IInv, LossInv, Fits
<1>6. RetInv'
  <2>1. CASE ret' = <<>>
    <3>1. ret' \in Seq(Items) /\ Len(ret') = 0
      BY <2>1
    <3> QED BY <3>1 DEF RetInv
  <2>2. CASE ret' = ret
    BY <1>1, <1>4, <2>2 DEF IInv, RetInv, Fits
  <2> QED BY <2>1, <2>2 DEF Lose, Dispatch, vars
<1> QED BY <1>5, <1>6

\* The invariant of parse_buffer and its statics is inductive.
THEOREM ParserInvariance == Spec => []IInv
<1>1. IInv /\ [Next]_vars => IInv'
  <2> SUFFICES ASSUME IInv, [Next]_vars PROVE IInv'
    OBVIOUS
  <2>1. TypeOK'
    BY TypeStep DEF IInv
  <2>2. LossInv' /\ RetInv'
    BY ParseStep, OtherSteps DEF Next
  <2> QED BY <2>1, <2>2 DEF IInv
<1> QED BY <1>1, IInvInit, PTL DEF Spec

\* The statics of parse_buffer and the places of the servers keep their type.
THEOREM TypeCorrect == Spec => []TypeOK
<1>1. IInv => TypeOK
  BY DEF IInv
<1> QED BY <1>1, ParserInvariance, PTL

\* A STOP hands out what CopyOf says: parse_buffer on any mix of streams.
THEOREM CopiesAreKnown == Spec => []CopiesKnown
<1>1. IInv => CopiesKnown
  BY DEF IInv, RetInv, CopiesKnown
<1> QED BY <1>1, ParserInvariance, PTL

\* A packet that follows on a STOP handed out is handed out byte for byte, as
\* long as no byte was written behind rec_buf.
THEOREM DamageAlwaysEnds == Spec => []DamageEnds
<1>1. IInv => DamageEnds
  <2> SUFFICES ASSUME IInv, ~overrun, NEW k \in 1 .. Len(ret), Whole(ret[k].seen)
               PROVE  ret[k].copy = ret[k].seen
    BY DEF DamageEnds
  <2>1. PICK s \in Servers, n \in 1 .. PcktCnt : ret[k].seen = Packet(s, n)
    BY DEF Whole
  <2> DEFINE all == ret[k].seen
             copy == ret[k].copy
  <2>2. copy \in Seq(Bytes \cup {Zero}) /\ all \in Seq(Bytes)
    <3>1. ret \in Seq(Items)
      BY DEF IInv, RetInv
    <3>2. ret[k] \in Items
      BY <3>1
    <3> QED BY <3>2 DEF Items
  <2>3. PcktLen \in Nat /\ 1 < PcktLen /\ PcktLen <= RECBUF_SIZE
    BY PacketParserAssumption
  <2>4. Len(all) = PcktLen /\ \A p \in 1 .. PcktLen : all[p][3] = p
    BY <2>1, <2>2, <2>3 DEF Packet
  <2>5. CopyOf(ret[k])
    <3>1. Regular(all)
      BY <2>3, <2>4 DEF Regular, Stop
    <3> QED BY <3>1 DEF IInv, RetInv
  <2> HIDE DEF all, copy
  <2>6. Starts(all) = {1}
    BY <2>3, <2>4 DEF Starts, Start
  <2>7. LastStart(all, 1) /\ 1 \in 1 .. Len(all)
    BY <2>3, <2>4, <2>6 DEF LastStart
  <2>8. Len(copy) = Len(all) /\ BeginsWith(copy, all, 1)
    BY <2>5, <2>6, <2>7 DEF CopyOf, all, copy
  <2>9. \A i \in 1 .. Len(copy) : copy[i] = all[i]
    BY <2>3, <2>4, <2>8 DEF BeginsWith
  <2>10. all \in Seq(Bytes \cup {Zero})
    BY <2>2, SeqMonotonic, Bytes \subseteq Bytes \cup {Zero}
  <2> QED BY <2>2, <2>8, <2>9, <2>10, SeqEqual DEF all, copy
<1> QED BY <1>1, ParserInvariance, PTL

\* rec_buf is large enough for the mixed packets of all servers, of which there
\* are Cardinality(Servers), as long as nothing is lost and calloc does not fail.
THEOREM StaysInBuffer == Spec => []InBuffer
<1>1. IInv => InBuffer
  <2> SUFFICES ASSUME IInv, Fits, ~lost
               PROVE  /\ ~overrun /\ pckt_cur_pos < RECBUF_SIZE /\ pckt_cur_len < RECBUF_SIZE
                      /\ \A k \in 1 .. Len(ret) : Len(ret[k].copy) <= RECBUF_SIZE
    BY DEF InBuffer
  <2>4. ~overrun /\ SeenInv /\ PlaceInv /\ OnceInv
    BY DEF IInv, LossInv, SeenInv
  <2>1. Len(seen) < RECBUF_SIZE /\ Len(seen) \in Nat
    BY <2>4, SeenFits, SeenMore DEF SeenInv
  <2>2. pckt_cur_pos <= Len(seen) /\ pckt_cur_len <= Len(seen)
    BY <2>4, PlaceBound DEF IInv
  <2>3. pckt_cur_pos \in Nat /\ pckt_cur_len \in Nat /\ RECBUF_SIZE \in Nat
    BY PacketParserAssumption DEF IInv, TypeOK
  <2> QED BY <2>1, <2>2, <2>3, <2>4 DEF IInv, RetInv
<1> QED BY <1>1, ParserInvariance, PTL
=============================================================================
