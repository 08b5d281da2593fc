-------------------------------- MODULE LocBuf --------------------------------
(***************************************************************************)
(* The receive buffer of a serial port (locbuf.c) under its two readers:   *)
(* get_resp, with which init_ldu questions the terminal and which wants    *)
(* the last packet of what has come (last_by_sym), then ldu_loop, which    *)
(* wants every packet (next_by_sym).  Both run in one thread; bytes come   *)
(* in at any moment, and FIONREAD and read may see any part of them.  Who  *)
(* carries out a command reads the port past the buffer, and throws away   *)
(* what it finds.                                                          *)
(* Pointers into spc are offsets from it.                                  *)
(***************************************************************************)
EXTENDS Integers, Sequences

CONSTANTS
  Byte,     \* what a terminal sends
  CR, Dee,  \* '\r' and 'D'
  NUL,      \* what memset leaves in spc
  Size,     \* LOCBUF_SIZE
  PortCap   \* bound: bytes waiting in the port

ASSUME BufAssumption ==
  /\ Size \in Nat \ {0} /\ PortCap \in Nat \ {0}
  /\ CR \in Byte /\ Dee \in Byte /\ CR # Dee /\ NUL \notin Byte

VARIABLES
  spc, head, tail, count,  \* struct tag_locbuf
  port,                    \* bytes the kernel holds
  bytes,                   \* FIONREAD, less what has been read since
  pc,
  ask,                     \* init_ldu: which get_resp is under way
  pset,                    \* get_resp: its p has been assigned
  out,                     \* the packet returned last, <<>> for NULL
  eio                      \* history: read has returned -1

buf  == <<spc, head, tail, count>>
vars == <<buf, port, bytes, pc, ask, pset, out, eio>>

Init ==
  /\ spc = [i \in 0 .. Size - 1 |-> NUL] /\ head = 0 /\ tail = 0 /\ count = 0
  /\ port = <<>> /\ bytes = 0
  /\ pc = "resp" /\ ask = 1 /\ pset = FALSE
  /\ out = <<>> /\ eio = FALSE
-----------------------------------------------------------------------------
(* locbuf.c                                                                *)

\* The bytes from offset i up to j, j excluded.
Text(i, j) == [n \in 1 .. j - i |-> spc[i + n - 1]]

\* Slip: a byte is kept free for the NUL at the end of a string.
ChunkLessOne == IF Size - 1 - count < bytes THEN Size - 1 - count ELSE bytes

\* get_fromfd asks read for this much; nothing is read when it is not positive.
Chunk == IF Size - count < bytes THEN Size - count ELSE bytes

\* spc after the read
Filled == [i \in DOMAIN spc |->
             IF i \in tail .. tail + Chunk - 1 THEN port[i - tail + 1] ELSE spc[i]]

\* get_fromfd when there is something to read and it fits where tail points
GetFromFd ==
  /\ Chunk > 0 /\ tail >= 0
  /\ port' = SubSeq(port, Chunk + 1, Len(port))
  /\ bytes' = bytes - Chunk

\* memcpy(spc, from, n).  The areas may overlap; copied from the low end up,
\* as the C library does, that is harmless.
Moved(s, from, n) == [i \in DOMAIN s |-> IF i < n THEN s[from + i] ELSE s[i]]

\* init_locbuf
Clear == spc' = [i \in DOMAIN spc |-> NUL] /\ head' = 0 /\ tail' = 0 /\ count' = 0

\* p is the first place of sym from head on.
First(p) == /\ p \in head .. tail - 1 /\ spc[p] = CR
            /\ \A i \in head .. p - 1 : spc[i] # CR

\* next_by_sym finds a packet.
TakePacket(p) ==
  /\ First(p)
  /\ out' = Text(head, p + 1)
  /\ count' = count - (p + 1 - head)
  /\ IF count' = 0 THEN head' = 0 /\ tail' = 0 ELSE head' = p + 1 /\ tail' = tail
  /\ UNCHANGED spc

\* Slip: the bytes left are not moved to the front.
StayPut == UNCHANGED <<spc, head, tail>>

\* next_by_sym finds none, and moves what is left to the front.
Compact ==
  IF count # 0 /\ head > 0
  THEN spc' = Moved(spc, head, count) /\ head' = 0 /\ tail' = count
  ELSE UNCHANGED <<spc, head, tail>>

\* Slip: the search for the sym before the last byte stops on it.
BeginsOnSym(p, s, q) ==
  (p # head => s[p] = CR) /\ \A i \in p + 1 .. q - 1 : s[i] # CR

\* The line that ends with byte q begins at p.
Begins(p, s, q) ==
  (p # head => s[p - 1] = CR) /\ \A i \in p .. q - 1 : s[i] # CR

\* last_by_sym on s, which is filled up to q: of the last line, a whole one is
\* returned, a part of one is kept; what comes before it is dropped.
LastBySym(s, q) ==
  \E p \in head .. q :
    /\ Begins(p, s, q)
    /\ head' = 0
    /\ IF s[q] = CR
       THEN /\ out' = [i \in 1 .. q - p + 1 |-> s[p + i - 1]]
            /\ count' = 0 /\ tail' = 0 /\ spc' = s
       ELSE /\ out' = <<>>
            /\ count' = q - p + 1 /\ tail' = q - p + 1 /\ spc' = Moved(s, p, q - p + 1)
-----------------------------------------------------------------------------
(* The terminal and the port                                               *)

Arrive(b) ==
  /\ Len(port) < PortCap /\ pc \notin {"dead", "undefined"}
  /\ port' = Append(port, b)
  /\ UNCHANGED <<buf, bytes, pc, ask, pset, out, eio>>
-----------------------------------------------------------------------------
(* init_ldu and get_resp.  ask: 1 to 5 the tries after ID, 6 the one more   *)
(* after silence, 7 CE, 8 SZ.                                               *)

\* The get_resp under way is over, the next is number n; after SZ ldu_loop runs.
Asking(n) ==
  /\ ask' = n /\ pset' = FALSE
  /\ pc' = IF n = 9 THEN "select" ELSE "resp"

\* pselect: input, and FIONREAD says how much
RespInput ==
  /\ pc = "resp" /\ port # <<>>
  /\ bytes' = Len(port) /\ pc' = "respread"
  /\ UNCHANGED <<buf, port, ask, pset, out, eio>>

\* A read, and last_by_sym on what there is then.
RespRead ==
  /\ pc = "respread" /\ GetFromFd
  /\ LastBySym(Filled, count + Chunk - 1)
  /\ IF out' = <<>> THEN pset' = TRUE /\ UNCHANGED <<ask, pc>>
     ELSE Asking(IF ask > 6 THEN ask + 1
                 ELSE IF ask < 5 /\ out'[1] # Dee THEN ask + 1 ELSE 7)
  /\ UNCHANGED eio

\* The inner loop is over without a packet, p is NULL; but it has no value
\* yet if the buffer was full from the start.
RespNone ==
  /\ pc = "respread" /\ Chunk <= 0
  /\ \/ pc' = "resp"
     \/ ~pset /\ pc' = "undefined"
  /\ UNCHANGED <<buf, port, bytes, ask, pset, out, eio>>

\* 2 seconds of silence.  After ID, what is in the buffer is thrown away.
RespTimeout ==
  /\ pc = "resp" /\ port = <<>>
  /\ out' = <<>>
  /\ IF ask < 6 THEN Asking(6) /\ Clear
     ELSE /\ IF ask = 6 THEN pc' = "dead" /\ UNCHANGED <<ask, pset>> ELSE Asking(ask + 1)
          /\ UNCHANGED buf
  /\ UNCHANGED <<port, bytes, eio>>

\* Input is announced, but FIONREAD finds none: the terminal hung up.  The
\* size is -2, not the -1 of silence: after ID init_ldu asks for another packet
\* as often as it would have, and then gives up.
RespHangup ==
  /\ pc = "resp" /\ port = <<>>
  /\ bytes' = 0 /\ out' = <<>>
  /\ IF ask \in {5, 6} THEN pc' = "dead" /\ UNCHANGED <<ask, pset>> ELSE Asking(ask + 1)
  /\ UNCHANGED <<buf, port, eio>>
-----------------------------------------------------------------------------
(* ldu_loop.  A pselect that times out or fails, or announces input where   *)
(* FIONREAD finds none, changes nothing here.                               *)

Input ==
  /\ pc = "select" /\ port # <<>>
  /\ bytes' = Len(port) /\ pc' = "read"
  /\ UNCHANGED <<buf, port, ask, pset, out, eio>>

Read ==
  /\ pc = "read" /\ GetFromFd
  /\ spc' = Filled /\ tail' = tail + Chunk /\ count' = count + Chunk
  /\ pc' = "parse"
  /\ UNCHANGED <<head, ask, pset, out, eio>>

\* All that FIONREAD announced has been read, or the buffer is full.
ReadDone ==
  /\ pc = "read" /\ Chunk <= 0
  /\ pc' = "select"
  /\ UNCHANGED <<buf, port, bytes, ask, pset, out, eio>>

Packet ==
  /\ pc = "parse" /\ \E p \in head .. tail - 1 : TakePacket(p)
  /\ UNCHANGED <<port, bytes, pc, ask, pset, eio>>

NoPacket ==
  /\ pc = "parse" /\ CR \notin {spc[i] : i \in head .. tail - 1}
  /\ Compact /\ out' = <<>>
  /\ pc' = "read"
  /\ UNCHANGED <<count, port, bytes, ask, pset, eio>>
-----------------------------------------------------------------------------
(* A command is carried out between two turns of ldu_loop: by the loop      *)
(* itself (catch_cmd_reply, get_cmd_reply2), or by on_message, while the    *)
(* loop does nothing in calibr_mode.                                        *)

Command ==
  /\ pc = "select" /\ pc' = "command"
  /\ UNCHANGED <<buf, port, bytes, ask, pset, out, eio>>

\* A read into a buffer of its own, as far as that one has room.
CommandRead ==
  /\ pc = "command"
  /\ \E n \in DOMAIN port : port' = SubSeq(port, n + 1, Len(port))
  /\ UNCHANGED <<buf, bytes, pc, ask, pset, out, eio>>

\* Whatever the answer was; get_cmd_reply2 may also read on for ever.
CommandDone ==
  /\ pc = "command" /\ pc' = "select"
  /\ UNCHANGED <<buf, port, bytes, ask, pset, out, eio>>
-----------------------------------------------------------------------------
(* A read that fails                                                       *)

\* -1 is added to tail and count, and ends the loop like a full buffer.
ReadError ==
  /\ pc \in {"read", "respread"} /\ Chunk > 0 /\ tail >= 0
  /\ tail' = tail - 1 /\ count' = count - 1
  /\ eio' = TRUE
  /\ \/ pc' = IF pc = "read" THEN "select" ELSE "resp"
     \/ pc = "respread" /\ ~pset /\ pc' = "undefined"
  /\ UNCHANGED <<spc, head, port, bytes, ask, pset, out>>

\* tail points in front of spc: the read writes into the pointer itself.
ReadOutside ==
  /\ pc \in {"read", "respread"} /\ Chunk > 0 /\ tail < 0
  /\ pc' = "undefined"
  /\ UNCHANGED <<buf, port, bytes, ask, pset, out, eio>>
-----------------------------------------------------------------------------
Thread ==
  \/ RespInput \/ RespRead \/ RespNone \/ RespTimeout \/ RespHangup
  \/ Input \/ Read \/ ReadDone \/ Packet \/ NoPacket
  \/ CommandRead \/ CommandDone
  \/ ReadOutside

Next == Thread \/ Command \/ ReadError \/ \E b \in Byte : Arrive(b)

Spec == Init /\ [][Next]_vars

\* The loop is scheduled; the terminal, and who sends commands, owe nothing.
FairSpec == Spec /\ WF_vars(Thread)
-----------------------------------------------------------------------------
(* Correctness                                                             *)

Packets == UNION {[1 .. n -> Byte] : n \in 0 .. Size}

TypeOK ==
  /\ spc \in [0 .. Size - 1 -> Byte \cup {NUL}]
  /\ head \in 0 .. Size /\ tail \in -1 .. Size /\ count \in -1 .. Size
  /\ Len(port) <= PortCap /\ bytes \in 0 .. PortCap
  /\ pc \in {"resp", "respread", "select", "read", "parse", "command", "dead",
             "undefined"}
  /\ ask \in 1 .. 9 /\ pset \in BOOLEAN /\ eio \in BOOLEAN
  /\ out \in Packets

\* The room get_fromfd sees, Size-count, is behind tail only while the bytes
\* held are at the front of spc: whatever next_by_sym and last_by_sym have left
\* behind, they are when get_fromfd is called, so a read never writes past spc
\* and last_by_sym finds the last byte at spc[count-1].
ReadFits ==
  pc \in {"read", "respread"} /\ ~eio =>
    head = 0 /\ tail = count /\ count >= 0 /\ tail + Chunk <= Size

\* The buffer implements the framer: however the bytes are cut up by arrival,
\* FIONREAD and the end of the buffer, get_resp gets a whole packet, and
\* ldu_loop every packet, whole and in order, until a read fails; except that a
\* command costs what has come since the last packet handed out but for a first
\* part of it, at most a piece of one packet, which the next one is glued to.
Frames == INSTANCE Framer WITH
  pending <- Text(head, tail) \o port, packet <- out,
  streaming <- (ask = 9), commanding <- (pc = "command"),
  broken <- eio \/ pc = "undefined"
FramerSpec == Frames!Spec

Held == {spc[i] : i \in head .. tail - 1}

\* A buffer full of bytes none of which is CR
Overlong == count = Size /\ CR \notin Held

\* A packet that has come to the port of a streaming terminal reaches the
\* parser, unless a command is carried out before, a read fails, or the buffer
\* fills up without a CR, which is for good.
PacketReaches ==
  (ask = 9 /\ \E i \in DOMAIN port : port[i] = CR) ~>
    ((pc = "parse" /\ CR \in Held) \/ pc = "command" \/ []Overlong \/ eio)
=============================================================================
