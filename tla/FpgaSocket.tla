------------------------------ MODULE FpgaSocket ------------------------------
(***************************************************************************)
(* socket/fpga_socket: frames read from the network are written back; those*)
(* for the FPGA are cut into chunks.  Contents are abstracted to where the *)
(* bytes of a field come from, positions and lengths are the code's.       *)
(***************************************************************************)
EXTENDS Integers, FiniteSets

CONSTANTS
    FrameLengths,   \* lengths of the frames on the network, 60 bytes at least
    MaxSendErrors   \* bound: sends that fail

ASSUME FrameLengthsAssumption == FrameLengths \subseteq Nat

MTU_MAX == 2000
MTU_MIN == 64
ADDR_POS == 15
DATA_LEN_POS == 19
DATA_HEADER_LEN == 23
LINK_TRAILER_LEN == 4
DATA_LEN_MAX == MTU_MAX - DATA_HEADER_LEN - LINK_TRAILER_LEN
DATA_LEN_MIN == MTU_MIN - DATA_HEADER_LEN - LINK_TRAILER_LEN

VARIABLES
    fd,          \* "none" before fpga_open, then "open", or "error" (-1)
    request,     \* the frame in the caller's buffer
    totalwrite,  \* of the running do_write_fpga_ram; -1 is the largest size_t
    frames,      \* the frames the running write has put on the network
    returned,    \* by the last fpga_write
    errors       \* sends that failed so far

fpgaVars == <<fd, request, totalwrite, frames, returned, errors>>

NoFrame == [len |-> 0]
Requests == {[len |-> n, forFpga |-> f, datalen |-> d] : n \in FrameLengths, f \in BOOLEAN,
                d \in {m - DATA_HEADER_LEN - LINK_TRAILER_LEN : m \in FrameLengths}}

FpgaInit ==
    /\ fd = "none" /\ request = NoFrame /\ totalwrite = 0
    /\ frames = {} /\ returned = 0 /\ errors = 0

fpga_open ==
    /\ fd = "none" /\ fd' \in {"open", "error"}
    /\ UNCHANGED <<request, totalwrite, frames, returned, errors>>

(* The caller reads a frame when its last write has returned; an error, also *)
(* that of fd -1, is printed and read again.                                 *)
fpga_read ==
    /\ fd = "open" /\ request = NoFrame
    /\ request' \in Requests /\ totalwrite' = 0 /\ frames' = {}
    /\ UNCHANGED <<fd, returned, errors>>

Return(value) == returned' = value /\ request' = NoFrame

Send(frame) ==
    \/ frames' = frames \cup {frame} /\ UNCHANGED errors
    \/ errors < MaxSendErrors /\ errors' = errors + 1 /\ UNCHANGED frames

(* A frame for somebody else is sent as it is.                               *)
fpga_write ==
    /\ request # NoFrame /\ ~request.forFpga
    /\ IF request.len > MTU_MAX \/ request.len < MTU_MIN
       THEN Return(-1) /\ UNCHANGED <<frames, errors>>
       ELSE /\ Send([len |-> request.len, from |-> 0, upto |-> request.len, available |-> request.len, stored |-> request.len,
                     address |-> "request"])
            /\ Return(IF errors' = errors THEN request.len ELSE -1)
    /\ UNCHANGED <<fd, totalwrite>>

Unequal == request.len # request.datalen + DATA_HEADER_LEN + LINK_TRAILER_LEN
Remaining == request.datalen - totalwrite
Writing == request # NoFrame /\ request.forFpga

WriteRefused == Writing /\ Unequal /\ Return(-1) /\ UNCHANGED <<fd, totalwrite, frames, errors>>

(* One chunk.  Its address and length are put into the header, and then the  *)
(* data is copied over the header, and the padding set to zero there.  ret   *)
(* is unsigned: a failed send is not noticed, and takes one from totalwrite. *)
WriteChunkFaulty ==
    /\ Writing /\ ~Unequal /\ totalwrite # -1 /\ Remaining > 0
    /\ LET wlen   == IF Remaining >= MTU_MAX - DATA_HEADER_LEN THEN MTU_MAX - DATA_HEADER_LEN ELSE Remaining
           padlen == IF Remaining <= DATA_LEN_MIN THEN DATA_LEN_MIN - Remaining ELSE 0
           address ==
               IF padlen > ADDR_POS THEN "zero"
               ELSE IF wlen < ADDR_POS + 4 THEN "chunk" ELSE IF totalwrite = 0 THEN "request" ELSE "data"
           wire   == DATA_HEADER_LEN + wlen + padlen + LINK_TRAILER_LEN
       IN  /\ Send([len |-> wire, from |-> totalwrite, upto |-> totalwrite + wlen, available |-> request.len,
                    stored |-> DATA_LEN_POS + wlen + padlen + 4,
                    address |-> address])
           /\ totalwrite' = totalwrite + (IF errors' = errors THEN wire ELSE -1)
    /\ UNCHANGED <<fd, request, returned>>
WriteChunk ==
    /\ Writing /\ ~Unequal /\ totalwrite # -1 /\ Remaining > 0
    /\ LET wlen   == IF Remaining >= DATA_LEN_MAX THEN DATA_LEN_MAX ELSE Remaining
           padlen == IF Remaining <= DATA_LEN_MIN THEN DATA_LEN_MIN - Remaining ELSE 0
           address ==
               IF padlen > ADDR_POS THEN "zero"
               ELSE IF wlen < ADDR_POS + 4 THEN "chunk" ELSE IF totalwrite = 0 THEN "request" ELSE "data"
           wire   == DATA_HEADER_LEN + wlen + padlen + LINK_TRAILER_LEN
       IN  /\ Send([len |-> wire, from |-> totalwrite, upto |-> totalwrite + wlen, available |-> request.len,
                    stored |-> DATA_LEN_POS + wlen + padlen + 4,
                    address |-> address])
           /\ totalwrite' = totalwrite + (IF errors' = errors THEN wire ELSE -1)
    /\ UNCHANGED <<fd, request, returned>>

WriteReturns ==
    /\ Writing /\ ~Unequal /\ (totalwrite = -1 \/ Remaining <= 0)
    /\ Return(totalwrite) /\ UNCHANGED <<fd, totalwrite, frames, errors>>

FpgaNext == fpga_open \/ fpga_read \/ fpga_write \/ WriteRefused \/ WriteChunk \/ WriteReturns

FpgaSpec == FpgaInit /\ [][FpgaNext]_fpgaVars

-----------------------------------------------------------------------------
(* However a write is cut and however often a send fails: every frame has a  *)
(* length the link carries, takes its bytes from the caller's buffer and its *)
(* checksum ends inside wbuf.                                                *)
FramesFit ==
    \A f \in frames : f.len \in MTU_MIN .. MTU_MAX /\ f.upto <= f.available /\ f.stored <= MTU_MAX

(* "Caculate Data Address for every write" (fpga_socket.c:98): each chunk     *)
(* carries the address that was computed for it.  That of the first one is   *)
(* the address in the request.                                               *)
ChunksAddressed ==
    \A f \in frames : f.address = IF f.from = 0 THEN "request" ELSE "chunk"
=============================================================================
