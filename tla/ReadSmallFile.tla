----------------------------- MODULE ReadSmallFile -----------------------------
(***************************************************************************)
(* FileUtil::ReadSmallFile and readFile() of base/FileUtil.{h,cc}.  A file *)
(* to read is                                                              *)
(*   fd:    what open() returned, negative if it failed,                   *)
(*   stat:  what fstat() finds, "regular", "directory", "other" (a device) *)
(*          or "fails",                                                    *)
(*   size:  its bytes,                                                     *)
(*   reads: the most bytes each of the first calls of read() gives, 0 for  *)
(*          one that fails.                                                *)
(* What has been read is a prefix of the file, given by its length.        *)
(***************************************************************************)
EXTENDS Integers, FiniteSetsExt

CONSTANT kBufferSize

(* The caller's string as it was. *)
Untouched == -1

(* The i-th call of read(), after `have` bytes: -1 if it fails. *)
Answer(f, i, have, toRead) ==
  LET limits == {f.reads[j] : j \in {i} \cap DOMAIN f.reads}
  IN  IF f.stat = "directory" \/ 0 \in limits THEN -1
      ELSE Min({toRead, f.size - have} \cup limits)

(* Mutant of Wants: the first read is taken for the whole file. *)
Wants_Once(have, maxSize) == have = 0

(* maxSize is an int that is compared as a size_t. *)
Wants(have, maxSize) == maxSize < 0 \/ have < maxSize

ToRead(have, maxSize) == Min({kBufferSize} \cup IF maxSize < 0 THEN {} ELSE {maxSize - have})

(* The loop: it ends at the limit, at the end of the file or at an error.     *)
(* Before each read() it is at the number of that call and of the bytes read. *)
ReadAll(f, maxSize) ==
  LET Read[at \in Nat \X Nat] ==
        LET n == Answer(f, at[1], at[2], ToRead(at[2], maxSize))
        IN  IF ~Wants(at[2], maxSize) \/ n <= 0
            THEN [content |-> at[2], err |-> IF Wants(at[2], maxSize) /\ n < 0 THEN "read" ELSE "none"]
            ELSE Read[<<at[1] + 1, at[2] + n>>]
  IN  Read[<<1, 0>>]

StatError(f) ==
  CASE f.stat = "directory" -> "EISDIR" [] f.stat = "fails" -> "fstat" [] OTHER -> "none"

(* The constructor's err_; and a file whose descriptor is 0 is taken for one  *)
(* that could not be opened.                                                  *)
OpenError(f) == IF f.fd < 0 THEN "open" ELSE "none"

(* What content->reserve() is asked for as an int: below zero it is a size_t  *)
(* past max_size(), and reserve() throws std::length_error.                   *)
Reserved(f, maxSize) == Min({maxSize, f.size})

Throws(f, maxSize) == f.stat = "regular" /\ Reserved(f, maxSize) < 0

(* readToString(); fstat() is asked if the caller wants to know fileSize, and *)
(* only then is room reserved in the string, which has been cleared.          *)
readToString(f, maxSize, fileSize) ==
  LET read == ReadAll(f, maxSize)
  IN  IF f.fd <= 0 THEN [content |-> Untouched, err |-> OpenError(f)]
      ELSE IF fileSize /\ Throws(f, maxSize) THEN [content |-> 0, err |-> "length_error"]
      ELSE [read EXCEPT !.err = IF @ = "none" /\ fileSize THEN StatError(f) ELSE @]

(* readToBuffer(): one pread() that leaves room for the NUL. *)
readToBuffer(f) ==
  LET n == Answer(f, 1, 0, kBufferSize - 1)
  IN  IF f.fd <= 0 \/ n < 0
      THEN [content |-> Untouched, err |-> IF f.fd > 0 THEN "read" ELSE OpenError(f)]
      ELSE [content |-> n, err |-> "none"]

=============================================================================
