------------------------------ MODULE OneWire ------------------------------
(***************************************************************************)
(* apps/example_onewire/onewire.c: the search for the addresses of the     *)
(* devices on a 1-Wire bus.  All devices answer a read at once: the bus is *)
(* low when one of them pulls it low, and a device that does not have the  *)
(* bit the master then writes leaves the search.  Each call finds the next *)
(* address in the order of the tree of addresses.  Devices may come, and   *)
(* go even in the middle of a search.  A bit of a search is one step; the  *)
(* timing inside a bit is left out.  ROM_NO is the sequence of its bits,   *)
(* the lowest of the first byte first.                                     *)
(***************************************************************************)
EXTENDS Naturals, Sequences, FiniteSets, Functions

CONSTANTS
  Addresses,     \* the sequences of bits devices may have
  ROMBITS,       \* 64
  BYTEBITS,      \* 8
  MaxChanges     \* how often a device comes or goes

VARIABLES
  ROM_NO, LastDiscrepancy, LastDeviceFlag,
  id_bit_number, last_zero,   \* of the call that searches, 0 when none does
  selected,                   \* the devices that take part in the search
  devices, changes,
  found,                      \* the addresses found since a search began anew
  steady                      \* no device came or went since then

vars == <<ROM_NO, LastDiscrepancy, LastDeviceFlag, id_bit_number, last_zero, selected, devices,
          changes, found, steady>>

Init ==
  /\ ROM_NO = [i \in 1..ROMBITS |-> 0]
  /\ LastDiscrepancy = 0 /\ LastDeviceFlag = FALSE
  /\ id_bit_number = 0 /\ last_zero = 0 /\ selected = {}
  /\ devices \in SUBSET Addresses /\ changes = 0
  /\ found = <<>> /\ steady = TRUE

Anew == found' = <<>> /\ steady' = TRUE

onewire_reset_search ==
  /\ id_bit_number = 0
  /\ LastDiscrepancy' = 0 /\ LastDeviceFlag' = FALSE
  /\ ROM_NO' = [i \in 1..ROMBITS |-> 0]
  /\ Anew
  /\ UNCHANGED <<id_bit_number, last_zero, selected, devices, changes>>

-----------------------------------------------------------------------------
\* onewire_reset: a device answers with a presence pulse.
onewire_reset == devices # {}

\* A read bit is low when a device selected has a 0 there, or, for the
\* complement, a 1.
onewire_read_bit(value) == IF \E d \in selected : d[id_bit_number] # value THEN 0 ELSE 1

\* The search ends: the next call searches as the first one.
Fails ==
  /\ LastDiscrepancy' = 0 /\ LastDeviceFlag' = FALSE
  /\ id_bit_number' = 0 /\ last_zero' = 0 /\ selected' = {}
  /\ Anew
  /\ UNCHANGED <<ROM_NO, devices, changes>>

SearchFails ==
  /\ id_bit_number = 0
  /\ LastDeviceFlag \/ ~onewire_reset
  /\ Fails

SearchBegins ==
  /\ id_bit_number = 0 /\ ~LastDeviceFlag /\ onewire_reset
  /\ id_bit_number' = 1 /\ last_zero' = 0 /\ selected' = devices
  /\ UNCHANGED <<ROM_NO, LastDiscrepancy, LastDeviceFlag, devices, changes, found, steady>>

NobodyAnswers ==
  /\ id_bit_number \in 1..ROMBITS
  /\ onewire_read_bit(1) = 1 /\ onewire_read_bit(0) = 1
  /\ Fails

\* Mutant: the last discrepancy is passed as it was the last time.
DirectionAsBefore(bit) == IF bit <= LastDiscrepancy THEN ROM_NO[bit] ELSE 0

\* Where devices differ: as the last time before the last discrepancy, 1 at
\* it, 0 after it.
Direction(bit) ==
  IF bit < LastDiscrepancy THEN ROM_NO[bit]
  ELSE IF bit = LastDiscrepancy THEN 1 ELSE 0

SearchBit ==
  LET id_bit == onewire_read_bit(1)
      cmp_id_bit == onewire_read_bit(0)
      search_direction == IF id_bit # cmp_id_bit THEN id_bit ELSE Direction(id_bit_number)
  IN /\ id_bit_number \in 1..ROMBITS
     /\ id_bit = 0 \/ cmp_id_bit = 0
     /\ ROM_NO' = [ROM_NO EXCEPT ![id_bit_number] = search_direction]
     /\ last_zero' = IF id_bit = cmp_id_bit /\ search_direction = 0 THEN id_bit_number
                     ELSE last_zero
     /\ selected' = {d \in selected : d[id_bit_number] = search_direction}
     /\ id_bit_number' = id_bit_number + 1
     /\ UNCHANGED <<LastDiscrepancy, LastDeviceFlag, devices, changes, found, steady>>

\* All bits are known; an address whose first byte is 0 is none.
SearchEnds ==
  /\ id_bit_number = ROMBITS + 1
  /\ IF \E i \in 1..BYTEBITS : ROM_NO[i] = 1
     THEN /\ LastDiscrepancy' = last_zero /\ LastDeviceFlag' = (last_zero = 0)
          /\ id_bit_number' = 0 /\ last_zero' = 0 /\ selected' = {}
          /\ found' = Append(found, ROM_NO)
          /\ UNCHANGED <<ROM_NO, devices, changes, steady>>
     ELSE Fails

onewire_search == SearchFails \/ SearchBegins \/ SearchBit \/ NobodyAnswers \/ SearchEnds

DeviceGoes ==
  /\ changes < MaxChanges /\ changes' = changes + 1
  /\ \E d \in devices : devices' = devices \ {d} /\ selected' = selected \ {d}
  /\ steady' = FALSE
  /\ UNCHANGED <<ROM_NO, LastDiscrepancy, LastDeviceFlag, id_bit_number, last_zero, found>>

DeviceComes ==
  /\ changes < MaxChanges /\ changes' = changes + 1
  /\ \E d \in Addresses \ devices : devices' = devices \cup {d}
  /\ steady' = FALSE
  /\ UNCHANGED <<ROM_NO, LastDiscrepancy, LastDeviceFlag, id_bit_number, last_zero, selected, found>>

Next == onewire_search \/ onewire_reset_search \/ DeviceGoes \/ DeviceComes
Spec == Init /\ [][Next]_vars

-----------------------------------------------------------------------------
\* While no device comes or goes, the calls find every device once, and the
\* last of them says that it was the last; whatever comes or goes, an address
\* found is one a device has (onewire_search, LastDiscrepancy).
SearchFindsAll ==
  /\ Range(found) \subseteq Addresses
  /\ steady => /\ IsInjective(found) /\ Range(found) \subseteq devices
               /\ LastDeviceFlag => Range(found) = devices
=============================================================================
