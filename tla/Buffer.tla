-------------------------------- MODULE Buffer --------------------------------
(***************************************************************************)
(* The byte buffer of a connection as a value: a vector, and the indices   *)
(* between which its readable bytes lie.  buffer_.data()[i] is             *)
(* buffer[i + 1].                                                          *)
(***************************************************************************)
EXTENDS Naturals, Sequences

CONSTANTS
    Byte,
    Blank,          \* what a vector's new elements are
    kCheapPrepend,  \* 8 in the code
    InitialSize,    \* 1024 in the code
    ExtraBuf        \* the size of extrabuf, 65536 in the code

ASSUME BufferAssumption ==
    Blank \in Byte /\ kCheapPrepend \in Nat /\ InitialSize \in Nat /\ ExtraBuf \in Nat \ {0}

EmptyBuffer ==
    [buffer |-> [i \in 1..(kCheapPrepend + InitialSize) |-> Blank],
     read_index |-> kCheapPrepend, write_index |-> kCheapPrepend]

readable_bytes(b) == b.write_index - b.read_index
writable_bytes(b) == Len(b.buffer) - b.write_index

(* What data() points to, readable_bytes() long. *)
Readable(b) == [i \in 1..readable_bytes(b) |-> b.buffer[b.read_index + i]]

(* std::copy of data to the index at, and vector::resize. *)
CopyTo(cells, at, data) ==
    [i \in 1..Len(cells) |-> IF at < i /\ i <= at + Len(data) THEN data[i - at] ELSE cells[i]]
Resize(cells, n) == [i \in 1..n |-> IF i <= Len(cells) THEN cells[i] ELSE Blank]

MutHasRoom(b, len) == writable_bytes(b) + b.read_index >= len
HasRoom(b, len) == writable_bytes(b) + b.read_index >= len + kCheapPrepend

(* Grow, or move the readable bytes to the front. *)
make_space(b, len) ==
    IF ~HasRoom(b, len)
    THEN [b EXCEPT !.buffer = Resize(@, b.write_index + len)]
    ELSE [buffer |-> CopyTo(b.buffer, kCheapPrepend, Readable(b)),
          read_index |-> kCheapPrepend,
          write_index |-> kCheapPrepend + readable_bytes(b)]

ensure_writable_bytes(b, len) == IF writable_bytes(b) < len THEN make_space(b, len) ELSE b

(* Bytes put at the write index, and has_written. *)
Written(b, data) ==
    [b EXCEPT !.buffer = CopyTo(@, b.write_index, data), !.write_index = @ + Len(data)]

append(b, data) == Written(ensure_writable_bytes(b, Len(data)), data)

(* readv into the writable bytes and extrabuf, which is then appended.     *)
MaxRead(b) == IF writable_bytes(b) < ExtraBuf THEN writable_bytes(b) + ExtraBuf ELSE writable_bytes(b)

read_from_fd(b, data) ==
    LET w == writable_bytes(b) IN
    IF Len(data) <= w THEN Written(b, data)
    ELSE append(Written(b, [i \in 1..w |-> data[i]]), [i \in 1..(Len(data) - w) |-> data[w + i]])

shrink(b) ==
    [buffer |-> CopyTo([i \in 1..(kCheapPrepend + readable_bytes(b)) |-> Blank], kCheapPrepend, Readable(b)),
     read_index |-> kCheapPrepend,
     write_index |-> kCheapPrepend + readable_bytes(b)]

shrink_if_needed(b) ==
    IF b.read_index > Len(b.buffer) \div 2 /\ readable_bytes(b) < Len(b.buffer) \div 4 THEN shrink(b) ELSE b

retrieve_all(b) == [b EXCEPT !.read_index = kCheapPrepend, !.write_index = kCheapPrepend]

retrieve(b, n) ==
    shrink_if_needed(IF n <= readable_bytes(b) THEN [b EXCEPT !.read_index = @ + n] ELSE retrieve_all(b))

(* The indices are in order and inside the vector. *)
BufferOK(b) ==
    /\ b \in [buffer : Seq(Byte), read_index : Nat, write_index : Nat]
    /\ kCheapPrepend <= b.read_index /\ b.read_index <= b.write_index /\ b.write_index <= Len(b.buffer)

===============================================================================
