--------------------------- MODULE DeviceRegistry ---------------------------
(***************************************************************************)
(* DeviceRegistry.cpp and deviceBegin: how a driver finds its device among *)
(* the slots of the bus, and marks a slot as taken.  Each driver asks for  *)
(* a vendor, a product and an instance, the latter cut to eight bits.      *)
(* No code in the tree calls registerDevice; here a driver may, with the   *)
(* slot that it got.                                                       *)
(***************************************************************************)
EXTENDS Integers, FiniteSets

CONSTANTS
  MAX_SLOTS,
  Boards,    \* the devices in the slots: functions from Slots to ids or Empty
  Drivers,
  Asked      \* for each driver its vendor, product and instance

VENDOR_ANY == 255
PRODUCT_ANY == 255
FIRST_INSTANCE == 255
NO_DEVICE == 255
Empty == [vendor |-> 0, product |-> 0]

Slots == 0 .. MAX_SLOTS - 1
Ids == [vendor : 0 .. 254, product : 0 .. 254]

ASSUME RegistryAssumption ==
  /\ MAX_SLOTS \in 1 .. 32
  /\ \A b \in Boards : \A i \in Slots : b[i] \in Ids
  /\ \A d \in Drivers : Asked[d] \in [vendor : 0 .. 255, product : 0 .. 255, instance : 0 .. 255]

VARIABLES
  id,                 \* the id registers of the slots
  m_sDeviceRegistry,  \* the registered slots
  m_slot,             \* of each driver
  begun,              \* history: the drivers that have called deviceBegin,
  owner               \* and those that registered the slot they have

registryVars == <<id, m_sDeviceRegistry, m_slot, begun, owner>>

RegistryInit ==
  /\ id \in Boards
  /\ m_sDeviceRegistry = {}
  /\ m_slot = [d \in Drivers |-> 255]
  /\ begun = {} /\ owner = {}

\* Mutant: registered slots are counted too.
MatchesRegistered(i, a) ==
  /\ id[i] # Empty
  /\ a.vendor # VENDOR_ANY => a.vendor = id[i].vendor
  /\ a.vendor # PRODUCT_ANY => a.product = id[i].product

\* The second test of the scan compares the vendor with PRODUCT_ANY.
Matches(i, a) ==
  /\ id[i] # Empty
  /\ a.vendor # VENDOR_ANY => a.vendor = id[i].vendor
  /\ a.vendor # PRODUCT_ANY => a.product = id[i].product
  /\ i \notin m_sDeviceRegistry

\* The instance counts down on every match, from the lowest slot.
scanDevice(a) ==
  LET matches == {i \in Slots : Matches(i, a)}
      last == {i \in matches : Cardinality({j \in matches : j <= i}) = a.instance}
  IN  IF last = {} THEN NO_DEVICE ELSE CHOOSE i \in last : TRUE

\* A driver may begin again.  It forgets the slot that it had; if that one is
\* registered, it stays so.
deviceBegin(d) ==
  /\ m_slot' = [m_slot EXCEPT ![d] = scanDevice(Asked[d])]
  /\ begun' = begun \cup {d}
  /\ owner' = owner \ {d}
  /\ UNCHANGED <<id, m_sDeviceRegistry>>

\* Otherwise the call returns -1 or -2 and changes nothing.
registerDevice(d) ==
  /\ m_slot[d] < MAX_SLOTS /\ m_slot[d] \notin m_sDeviceRegistry
  /\ m_sDeviceRegistry' = m_sDeviceRegistry \cup {m_slot[d]}
  /\ owner' = owner \cup {d}
  /\ UNCHANGED <<id, m_slot, begun>>

-----------------------------------------------------------------------------
\* The slot of an owner is registered, and is that of no other owner.
OwnersAlone ==
  \A d, e \in owner : /\ m_slot[d] \in m_sDeviceRegistry
                      /\ m_slot[d] = m_slot[e] => d = e

\* A slot that a scan hands out is not registered.
ScanFindsFree ==
  \A d \in Drivers : m_slot'[d] # m_slot[d] => m_slot'[d] \notin m_sDeviceRegistry

\* A driver that registered its slot with success has it for itself, whichever
\* drivers got the same slot from a scan and in which order they register and
\* begin, and no later scan hands the slot out again.  That includes a scan of
\* its own: a driver that begins again gets another slot, or none.
OwnersApart == []OwnersAlone /\ [][ScanFindsFree]_registryVars

\* The slot that the comment of scanDevice promises: that of the n-th
\* unregistered device of this vendor and product, of any vendor or any
\* product for the two wildcards, and the first one for FIRST_INSTANCE.
DocumentedSlot(a) ==
  LET n == IF a.instance = FIRST_INSTANCE THEN 1 ELSE a.instance
      fits == {i \in Slots \ m_sDeviceRegistry :
                 /\ id[i] # Empty
                 /\ a.vendor \in {VENDOR_ANY, id[i].vendor}
                 /\ a.product \in {PRODUCT_ANY, id[i].product}}
      nth == {i \in fits : Cardinality({j \in fits : j < i}) = n - 1}
  IN  IF nth = {} THEN NO_DEVICE ELSE CHOOSE i \in nth : TRUE

\* The first deviceBegin of a driver finds the slot that the comment of
\* scanDevice promises.  It does for a known vendor and product and an instance from 1 on, and for
\* nothing else.
BeginAsDocumented ==
  [][\A d \in begun' \ begun : m_slot'[d] = DocumentedSlot(Asked[d])]_registryVars
=============================================================================
