------------------------------- MODULE Layout -------------------------------
(***************************************************************************)
(* Where things lie in a container file, in bytes: the arithmetic of       *)
(* create, update_slot_counts and the offsets of headers, recipient slots  *)
(* and data slots (vnmcore/src/fs/container.rs, container, storage), and   *)
(* what fits into a header and into an allocation slot.                    *)
(*                                                                         *)
(* Numbers only, no behaviour: Container and SlotStore name places instead *)
(* of offsets, and theorems of SlotStoreProofs say that they may.          *)
(***************************************************************************)
EXTENDS Integers

HeaderSize == 512
HeaderRegion == 1024
SlotSize == 32768
MaxPasswordSlots == 8
MaxKeySlots == 8

(* vnmb_overhead: magic and version, nonces, tags. *)
Ciphers == {"xchacha20", "deoxys", "serpent", "triple"}
Overhead == [xchacha20 |-> 8 + 24 + 16, deoxys |-> 8 + 15 + 16, serpent |-> 8 + 16 + 16,
             triple |-> 8 + (24 + 15 + 16) + 48]

(* A slot holds what the cipher with the largest overhead makes of a key. *)
PasswordSlotSize == 32 + 1 + (Overhead.triple + 32)
KeySlotSize == 32 + 1568 + (Overhead.triple + 32)
RecipientArea == MaxPasswordSlots * PasswordSlotSize + MaxKeySlots * KeySlotSize
DataAreaOffset == HeaderRegion + RecipientArea

PasswordSlotOffset(i) == HeaderRegion + i * PasswordSlotSize
KeySlotOffset(j) == HeaderRegion + MaxPasswordSlots * PasswordSlotSize + j * KeySlotSize
SlotOffset(s) == DataAreaOffset + s * SlotSize

-----------------------------------------------------------------------------
(* create.                                                                   *)

MinSize == DataAreaOffset + 16 * SlotSize + 512
TailSize(withHidden) == IF withHidden THEN 1024 ELSE 512
SlotsFor(size, withHidden) == (size - (DataAreaOffset + TailSize(withHidden))) \div SlotSize

(* Rounded up, and never below two. *)
HiddenSlots(hiddenSize) ==
    LET n == (hiddenSize + SlotSize - 1) \div SlotSize IN IF n < 2 THEN 2 ELSE n

OuterSlots(size, hiddenSize) == SlotsFor(size, TRUE) - HiddenSlots(hiddenSize)

(* The requests that are not answered with SizeTooSmall. *)
Accepts(size, hiddenSize) == size >= MinSize /\ OuterSlots(size, hiddenSize) >= 2

FileSize(slots, withHidden) == DataAreaOffset + slots * SlotSize + TailSize(withHidden)

OuterRoot == 1
HiddenRoot(start) == start + 1
HiddenAllocation(start, slots) == start + slots - 1

CreatedBackup(fileSize, withHidden) == IF withHidden THEN fileSize - 1024 ELSE fileSize - 512

(* update_slot_counts knows the file's size alone. *)
InferredBackup(fileSize) ==
    IF (fileSize - DataAreaOffset) % SlotSize = 1024 THEN fileSize - 1024 ELSE fileSize - 512

-----------------------------------------------------------------------------
(* A header's encrypted body begins at 68 and decode_header reads it in the  *)
(* length of encode_header.                                                  *)
BodyAvailable == HeaderSize - 68
BodyLength(cipher) == BodyAvailable - Overhead[cipher]
EncodedBody(cipher) == Overhead[cipher] + BodyLength(cipher)

(* encode_header_with_password: a body of BODY_LEN whatever the cipher.  One *)
(* of the shapes of Container.                                               *)
HiddenEncodedBody(cipher) == Overhead[cipher] + 396
HiddenShape(cipher) ==
    IF HiddenEncodedBody(cipher) > BodyAvailable THEN "hidden long"
    ELSE IF HiddenEncodedBody(cipher) < EncodedBody(cipher) THEN "hidden short"
    ELSE "hidden"

(* save_free_list: slot count, generation, root and bitmap, sealed, behind a *)
(* length, in one slot.                                                      *)
AllocationSize(slots, cipher) == 4 + Overhead[cipher] + 8 + 8 + 32 + (slots + 7) \div 8

=============================================================================
