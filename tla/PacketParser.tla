----------------------------- MODULE PacketParser -----------------------------
(***************************************************************************)
(* libpack's parse_buffer cuts a stream into packets, from START_CHARACTER *)
(* to STOP_CHARACTER, and keeps its place between calls in statics.  The   *)
(* stream is the pipe of a devdrvd client: main of devdrvd reads what each *)
(* server has sent, cut anywhere, and writes it to the pipe, so packets of *)
(* several servers get mixed; what a full pipe does not take is lost.  A   *)
(* byte is its server, its packet and its place there.  One step is one    *)
(* round of the loop over the buffer.  avrg_pckts, good_pckts and          *)
(* bad_pckts are left out: nothing reads them.                             *)
(***************************************************************************)
EXTENDS Integers, Sequences, FiniteSets

CONSTANTS
  Servers,      \* device servers
  PcktCnt,      \* bound: packets a server sends
  PcktLen,      \* bytes of a packet
  MaxRead,      \* bytes read from a server at once
  RECBUF_SIZE

\* pack_weight and its like format into 256 bytes, half of rec_buf.
ASSUME PacketParserAssumption ==
  /\ PcktCnt \in Nat \ {0} /\ MaxRead \in Nat \ {0}
  /\ PcktLen \in Nat /\ RECBUF_SIZE \in Nat /\ 1 < PcktLen /\ PcktLen <= RECBUF_SIZE

Bytes == Servers \X (1 .. PcktCnt) \X (1 .. PcktLen)
Start(b) == b[3] = 1         \* START_CHARACTER
Stop(b)  == b[3] = PcktLen   \* STOP_CHARACTER
Zero == <<>>                 \* what rec_buf holds at first, and what is behind it

Packet(s, n) == [p \in 1 .. PcktLen |-> <<s, n, p>>]

VARIABLES
  num, place,  \* of each server: packet and place of the byte to be read next
  cur, left,   \* buf and size-i: whose bytes they are, and how many are left
  rec_buf, pckt_cur_pos, pckt_cur_len, packet,   \* packet: term=PTERM_PACKET
  ret,         \* the list parse_buffer returns: what each item copies
  seen,        \* history: the bytes since the last STOP that was handed out
  lost,        \* history: bytes were lost, or a packet for want of memory
  overrun      \* history: a byte was written behind rec_buf

parser == <<rec_buf, pckt_cur_pos, pckt_cur_len, packet, seen, overrun>>
vars   == <<num, place, cur, left, parser, ret, lost>>

Init ==
  /\ num = [s \in Servers |-> 1] /\ place = [s \in Servers |-> 1]
  /\ cur \in Servers /\ left = 0
  /\ rec_buf = [p \in 0 .. RECBUF_SIZE - 1 |-> Zero]
  /\ pckt_cur_pos = 0 /\ pckt_cur_len = 0 /\ packet = FALSE
  /\ ret = <<>> /\ seen = <<>> /\ lost = FALSE /\ overrun = FALSE
-----------------------------------------------------------------------------
(* What the servers send                                                    *)

\* Bytes server s still has to send.
Rest(s) == (PcktCnt - num[s]) * PcktLen + (PcktLen + 1 - place[s])

Readable(s, n) == n <= Rest(s)

\* The next byte of s has gone.
Advance(s) ==
  IF place[s] = PcktLen
  THEN num' = [num EXCEPT ![s] = @ + 1] /\ place' = [place EXCEPT ![s] = 1]
  ELSE place' = [place EXCEPT ![s] = @ + 1] /\ num' = num

\* devdrvd reads n bytes of s, the pipe takes them and parse_buffer gets them.
Dispatch(s, n) ==
  /\ left = 0 /\ Readable(s, n)
  /\ cur' = s /\ left' = n
  /\ ret' = <<>>
  /\ UNCHANGED <<num, place, parser, lost>>

\* The pipe is full: write fails, and the bytes are gone, here one at a time.
Lose(s) ==
  /\ left = 0 /\ Readable(s, 1)
  /\ Advance(s)
  /\ lost' = TRUE
  /\ UNCHANGED <<cur, left, parser, ret>>
-----------------------------------------------------------------------------
(* parse_buffer: the switch, for the byte b                                 *)

Put(b) == [rec_buf EXCEPT ![pckt_cur_pos] = b]

\* memcpy of len bytes of rec_buf, b being written in it
Copied(b, len) ==
  [p \in 1 .. len |-> IF p - 1 \in DOMAIN rec_buf THEN Put(b)[p - 1] ELSE Zero]

\* Slip: a START inside a packet goes on where the packet was.
OnStartGoesOn(b) ==
  /\ Start(b)
  /\ rec_buf' = Put(b) /\ pckt_cur_pos' = pckt_cur_pos + 1
  /\ pckt_cur_len' = IF packet THEN 0 ELSE pckt_cur_len + 1
  /\ packet' = TRUE /\ seen' = Append(seen, b)
  /\ UNCHANGED <<ret, lost>>

\* A START inside a packet begins anew, with pckt_cur_len 0 although a byte
\* is in already; the first START leaves what noise has counted.
OnStart(b) ==
  /\ Start(b)
  /\ IF packet
     THEN /\ rec_buf' = [Put(b) EXCEPT ![0] = b]
          /\ pckt_cur_pos' = 1 /\ pckt_cur_len' = 0
     ELSE /\ rec_buf' = Put(b)
          /\ pckt_cur_pos' = pckt_cur_pos + 1 /\ pckt_cur_len' = pckt_cur_len + 1
  /\ packet' = TRUE /\ seen' = Append(seen, b)
  /\ UNCHANGED <<ret, lost>>

\* Slip: pckt_cur_pos is not set back.
OnStopKeepsPos(b) ==
  /\ Stop(b)
  /\ rec_buf' = Put(b) /\ UNCHANGED pckt_cur_pos /\ pckt_cur_len' = 0 /\ packet' = FALSE
  /\ ret' = Append(ret, [seen |-> Append(seen, b), copy |-> Copied(b, pckt_cur_len + 1)])
  /\ seen' = <<>> /\ UNCHANGED lost

\* A STOP hands out pckt_cur_len bytes, whether in a packet or not.
OnStop(b) ==
  /\ Stop(b)
  /\ rec_buf' = Put(b) /\ pckt_cur_pos' = 0 /\ pckt_cur_len' = 0 /\ packet' = FALSE
  /\ ret' = Append(ret, [seen |-> Append(seen, b), copy |-> Copied(b, pckt_cur_len + 1)])
  /\ seen' = <<>> /\ UNCHANGED lost

\* calloc fails: the STOP is counted, and nothing else is done about it.  Where
\* it is the malloc behind it, memcpy to NULL ends the process.
OnStopFails(b) ==
  /\ Stop(b)
  /\ rec_buf' = Put(b) /\ pckt_cur_len' = pckt_cur_len + 1
  /\ seen' = Append(seen, b) /\ lost' = TRUE
  /\ UNCHANGED <<pckt_cur_pos, packet, ret>>

\* Outside a packet only pckt_cur_len goes on.
OnOther(b) ==
  /\ ~Start(b) /\ ~Stop(b)
  /\ rec_buf' = Put(b)
  /\ pckt_cur_pos' = IF packet THEN pckt_cur_pos + 1 ELSE pckt_cur_pos
  /\ pckt_cur_len' = pckt_cur_len + 1
  /\ seen' = Append(seen, b)
  /\ UNCHANGED <<packet, ret, lost>>

Switch(b) ==
  /\ pckt_cur_pos < RECBUF_SIZE
  /\ OnStart(b) \/ OnStop(b) \/ OnStopFails(b) \/ OnOther(b)
  /\ UNCHANGED overrun

\* rec_buf[pckt_cur_pos]=b behind rec_buf hits the statics next to it, and they
\* may hold anything then; a place of RECBUF_SIZE stands for all outside rec_buf.
Overrun(b) ==
  /\ pckt_cur_pos >= RECBUF_SIZE
  /\ overrun' = TRUE
  /\ pckt_cur_pos' \in 0 .. RECBUF_SIZE /\ pckt_cur_len' \in 0 .. RECBUF_SIZE
  /\ packet' \in BOOLEAN /\ seen' = Append(seen, b)
  /\ UNCHANGED <<rec_buf, ret, lost>>

\* One round of the loop of parse_buffer, with *(pckt_buf+i)
ParseByte ==
  /\ left > 0 /\ left' = left - 1
  /\ LET b == <<cur, num[cur], place[cur]>> IN Switch(b) \/ Overrun(b)
  /\ Advance(cur)
  /\ UNCHANGED cur
-----------------------------------------------------------------------------
Next ==
  \/ ParseByte
  \/ \E s \in Servers : Lose(s) \/ \E n \in 1 .. MaxRead : Dispatch(s, n)

Spec == Init /\ [][Next]_vars
-----------------------------------------------------------------------------
(* Correctness                                                              *)

\* Past the last packet there is no byte to be read.
TypeOK ==
  /\ num \in [Servers -> 1 .. PcktCnt + 1] /\ place \in [Servers -> 1 .. PcktLen]
  /\ \A s \in Servers : num[s] = PcktCnt + 1 => place[s] = 1
  /\ cur \in Servers /\ left \in 0 .. MaxRead /\ Readable(cur, left)
  /\ rec_buf \in [0 .. RECBUF_SIZE - 1 -> Bytes \cup {Zero}]
  /\ pckt_cur_pos \in Nat /\ pckt_cur_len \in Nat /\ packet \in BOOLEAN
  /\ lost \in BOOLEAN /\ overrun \in BOOLEAN

Whole(seq) == \E s \in Servers, n \in 1 .. PcktCnt : seq = Packet(s, n)

Starts(seq) == {j \in 1 .. Len(seq) : Start(seq[j])}
LastStart(seq, j) == j \in Starts(seq) /\ \A h \in Starts(seq) : h <= j

\* A packet that follows directly on a STOP that was handed out is handed out
\* byte for byte, however the calls cut it and whatever was parsed before that
\* STOP: loss and mixing harm no packet behind it, nor does a packet that was
\* not handed out.  Not so once a byte has been written behind rec_buf.
DamageEnds ==
  ~overrun =>
    \A k \in 1 .. Len(ret) : Whole(ret[k].seen) => ret[k].copy = ret[k].seen

\* seq begins with the bytes of all from the j-th on.
BeginsWith(seq, all, j) == \A i \in j .. Len(all) : seq[i - j + 1] = all[i]

\* What is handed out for any other bytes between two STOPs.  Without a START
\* as many bytes as came, of which the first is the STOP; with one START the
\* packet it opens, and behind it as many old bytes as came before it; with
\* several the bytes from the last one on, without the STOP.
CopyOf(item) ==
  LET all == item.seen IN
  /\ Starts(all) = {} => Len(item.copy) = Len(all) /\ BeginsWith(item.copy, all, Len(all))
  /\ \A j \in 1 .. Len(all) : LastStart(all, j) =>
       IF Starts(all) = {j} THEN Len(item.copy) = Len(all) /\ BeginsWith(item.copy, all, j)
       ELSE item.copy = SubSeq(all, j, Len(all) - 1)

\* The bytes between two STOPs: they fit in rec_buf, and calloc failed for none.
Regular(all) == Len(all) <= RECBUF_SIZE /\ \A j \in 1 .. Len(all) - 1 : ~Stop(all[j])

\* parse_buffer hands out what CopyOf says, until a byte is written behind rec_buf.
CopiesKnown ==
  ~overrun => \A k \in 1 .. Len(ret) : Regular(ret[k].seen) => CopyOf(ret[k])

\* The servers' packets, all but finished, and one byte more fit in rec_buf.
Fits == IsFiniteSet(Servers) /\ Cardinality(Servers) * (PcktLen - 1) < RECBUF_SIZE

\* rec_buf, which has no check, is then large enough for the mixed packets of
\* all servers, as long as no bytes are lost and calloc does not fail: neither
\* the write nor the copy leaves it.
InBuffer ==
  Fits /\ ~lost => /\ ~overrun
                   /\ pckt_cur_pos < RECBUF_SIZE /\ pckt_cur_len < RECBUF_SIZE
                   /\ \A k \in 1 .. Len(ret) : Len(ret[k].copy) <= RECBUF_SIZE
=============================================================================
