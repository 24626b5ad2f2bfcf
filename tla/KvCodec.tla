------------------------------ MODULE KvCodec ------------------------------
(***************************************************************************)
(* How the cache keeps values as bytes and reads them back (Map.hpp,       *)
(* Map.cpp).  A value is a type and a content: a sequence of scalars, of   *)
(* characters or, for VECTOR_KEY, of strings.  A cell stands for one       *)
(* character, one scalar, or the length in front of a blob.                *)
(***************************************************************************)
EXTENDS Integers, Sequences, SequencesExt, FiniteSets

FixedTypes == {"INT", "UINT", "BOOL", "FLOAT"}
ScalarVectors == {"VECTOR_INT", "VECTOR_UINT", "VECTOR_BOOL", "VECTOR_FLOAT"}
Texts == {"STRING", "BLOB"}
VecTypes == Texts \cup ScalarVectors \cup {"VECTOR_KEY"}

Nul == 0
Nuls(bytes) == {i \in DOMAIN bytes : bytes[i] = Nul}

(* What a client gives, and createKvMap lets through (common.py:65-114): a scalar or a
   list has at least one element, and a string in a list, a flexbuffer key, no NUL. *)
WellFormed(value) ==
  /\ value.type \in FixedTypes \cup VecTypes
  /\ CASE value.type \in Texts        -> value.content \in Seq(Int)
       [] value.type = "VECTOR_KEY"   -> value.content \in Seq(Seq(Int \ {Nul})) \ {<<>>}
       [] OTHER                       -> value.content \in Seq(Int) \ {<<>>}

(* A string taken by its c_str() ends at its first NUL. *)
CString(chars) ==
  IF Nuls(chars) = {} THEN chars
  ELSE SubSeq(chars, 1, (CHOOSE i \in Nuls(chars) : \A j \in Nuls(chars) : i <= j) - 1)

(* As<float>: of the doubles, counted in halves of a float's precision, the even ones
   are floats. *)
Narrow(double) == 2 * (double \div 2)
Scalars(value) ==
  IF value.type \in {"FLOAT", "VECTOR_FLOAT"}
    THEN [i \in DOMAIN value.content |-> Narrow(value.content[i])]
  ELSE value.content

Encode(value) ==
  CASE value.type = "STRING"     -> CString(value.content) \o <<Nul>>
    [] value.type = "BLOB"       -> <<Len(value.content)>> \o value.content
    [] value.type = "VECTOR_KEY" -> FlattenSeq([i \in DOMAIN value.content |-> Append(value.content[i], Nul)])
    [] OTHER                     -> Scalars(value)

(* Where the j-th string ends. *)
End(bytes, j) == CHOOSE i \in Nuls(bytes) : Cardinality({n \in Nuls(bytes) : n <= i}) = j

(* Slip: the scan of strings steps over their characters, and not over the NUL. *)
Strings_Short(bytes) ==
  [j \in 1 .. Cardinality(Nuls(bytes)) |->
    SubSeq(bytes, IF j = 1 THEN 1 ELSE End(bytes, j - 1), End(bytes, j) - 1)]

(* extractStringV: a string ends at each NUL. *)
Strings(bytes) ==
  [j \in 1 .. Cardinality(Nuls(bytes)) |->
    SubSeq(bytes, IF j = 1 THEN 1 ELSE End(bytes, j - 1) + 1, End(bytes, j) - 1)]

(* The extract functions; those of a string and a blob need at least one byte. *)
Decode(type, bytes) ==
  CASE type = "STRING"     -> CString(bytes)
    [] type = "BLOB"       -> SubSeq(bytes, 2, bytes[1] + 1)
    [] type = "VECTOR_KEY" -> Strings(bytes)
    [] OTHER               -> bytes

(* What a client that gave a value can read: a string without what follows its first
   NUL, a double as a float. *)
Readable(value) ==
  IF value.type = "STRING" THEN CString(value.content) ELSE Scalars(value)
=============================================================================
