----------------------------- MODULE Addresses ------------------------------
(***************************************************************************)
(* IPv4 addresses as text and as numbers: src/src/Address/Address.hpp,     *)
(* AddressPrinter.hpp and the prefix length of src/src/IpInstance.cpp.     *)
(* A text is the sequence of the numbers it holds, dots between them, the  *)
(* first four at most; an octet has OctetBits bits, so that every address  *)
(* can be enumerated.                                                      *)
(***************************************************************************)
EXTENDS Naturals, Sequences, FiniteSets, Bitwise

CONSTANTS
  OctetBits,  \* 8 in the code
  MaxNumber   \* bound on the numbers in a text

VARIABLES
  numbers,  \* the text an object was assigned last
  address   \* the object

Width  == 4 * OctetBits
Octets == 0 .. 2^OctetBits - 1
Ulongs == 0 .. 2^Width - 1

\* How far the octet at a place is from the end of the address.
Place(i) == (4 - i) * OctetBits

(* A shift drops what leaves an ULONG; a number above the octets stays as  *)
(* it is and is or-ed into the octets before its own.                      *)
Shifted(n, i) == (n * 2^Place(i)) % 2^Width

(* Mutant of FromOctets: a place too low for the octet in the middle. *)
FromOctetsMisplaced(t) ==
  [version |-> 4,
   v4 |-> Shifted(t[1], 1) | Shifted(t[2], 2) | Shifted(t[3], 2) | t[4]]

FromOctets(t) ==
  [version |-> 4,
   v4 |-> Shifted(t[1], 1) | Shifted(t[2], 2) | Shifted(t[3], 3) | t[4]]

(* Assignment of a text: sscanf must find four numbers. *)
FromText(t) ==
  IF Len(t) = 4 THEN FromOctets(t) ELSE [version |-> 0, v4 |-> 0]

IsValid(a) == a.version \in {4, 6}

\* AddressWriter::updateString.
ToText(a) ==
  IF a.version = 4
  THEN [i \in 1..4 |-> (a.v4 \div 2^Place(i)) % 2^OctetBits]
  ELSE <<>>

(* operator==: of two objects with IPv6 addresses the arrays are compared  *)
(* by where they are, so that not even a copy is equal.                    *)
SameAddress(a, b) ==
  /\ a.version = b.version /\ a.version # 6
  /\ a.version = 4 => a.v4 = b.v4

(* ipMaskCidrGet: the lowest bit is cleared until none is left. *)
PrefixLength[mask \in Ulongs] ==
  IF mask = 0 THEN 0 ELSE 1 + PrefixLength[(mask & (mask - 1))]
-----------------------------------------------------------------------------
NumberTexts == UNION {[1..n -> 0..MaxNumber] : n \in 0..4}

(* An object that has been given a text without an address. *)
AddressInit == numbers = <<>> /\ address = FromText(<<>>)

Assign(t) == numbers' = t /\ address' = FromText(t)
-----------------------------------------------------------------------------
(* Address.hpp:55: a number above 255 spoils its own octet and those       *)
(* before it, no other; everything else that has four numbers is read as written    *)
(* and written as read.                                                    *)
TextIsRead ==
  /\ IsValid(address) <=> Len(numbers) = 4
  /\ address.v4 \in Ulongs
  /\ \A i \in 1..4 :
       Len(numbers) = 4 /\ (\A j \in i..4 : numbers[j] \in Octets) =>
         ToText(address)[i] = numbers[i]

(* operator== tells addresses apart as their texts do, also those that are *)
(* constructed from a number.                                              *)
SameAreWrittenAlike ==
  LET All == [version : {0}, v4 : {0}] \union [version : {4}, v4 : Ulongs]
  IN \A a, b \in All : SameAddress(a, b) <=> ToText(a) = ToText(b)

(* IpInstance.cpp:116: the prefix length of a network mask, and of any     *)
(* other mask the number of its bits.                                      *)
PrefixIsLength ==
  /\ \A n \in 0..Width : PrefixLength[2^Width - 2^(Width - n)] = n
  /\ \A mask \in Ulongs :
       PrefixLength[mask] =
         Cardinality({k \in 0 .. Width - 1 : (mask \div 2^k) % 2 = 1})

(* Text and number stand for the same address, and a mask for its prefix. *)
AddressesConvert == TextIsRead /\ SameAreWrittenAlike /\ PrefixIsLength
=============================================================================
