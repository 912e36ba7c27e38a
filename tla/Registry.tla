------------------------------ MODULE Registry ------------------------------
(***************************************************************************)
(* Which devices the monitor watches: the backends of an operating system  *)
(* are initialised in their registry order (core/src/backend.rs,           *)
(* `all_backends`), each lists the boards it finds under an id of its own  *)
(* making, and `Engine::with_backends` (tui/src/collector.rs) registers    *)
(* the ids one by one, skipping a PCI address it has seen.                 *)
(*                                                                         *)
(* An id is <<"pci", digits, domain, bus>> - digits of the domain as the   *)
(* source prints it - or a synthetic one, which names a backend.           *)
(***************************************************************************)
EXTENDS Integers, Sequences, SequencesExt, FiniteSets

CONSTANTS
  Boards,  \* boards a machine may hold: records [vendor, domain, bus]
  None

\* A machine has finitely many boards, and a PCI address is one board's.
RegistryAssumption ==
  /\ IsFiniteSet(Boards)
  /\ \A a, b \in Boards : a.domain = b.domain /\ a.bus = b.bus => a = b

VARIABLES
  os,       \* "linux", "windows" or "macos"
  machine,  \* the boards in it
  backends, \* backends still to initialise
  listed,   \* entries [backend, board, id] still to register, in order
  names,    \* backends that initialised
  luids,    \* NVIDIA entries, each with the adapter it was matched to (Windows)
  seen_pci, \* the addresses registered so far
  devices,  \* the registered entries, in order
  answered, \* boards some static_info answered for
  skipped   \* boards of entries skipped as duplicates

vars == <<os, machine, backends, listed, names, luids, seen_pci, devices,
          answered, skipped>>

-----------------------------------------------------------------------------
(* Identity *)

PciId(digits, b) == <<"pci", digits, b.domain, b.bus>>

\* normalize_pci_id: the domain's leading zeros do not count, and what is no
\* PCI address has no key.
normalize_pci_id(id) == IF id[1] = "pci" THEN <<id[3], id[4]>> ELSE None

\* The orders a source may enumerate boards in: of the kernel's card numbers,
\* of NVML's or DXGI's indices.
Orders(boards) == SetToSeqs(boards)

\* A backend's listing of what it found, in order; `anonymous` boards have no
\* readable PCI address and get the ordinal they were enumerated at.
Listing(backend, digits, order, anonymous) ==
  [i \in 1..Len(order) |->
     [backend |-> backend, board |-> order[i],
      id |-> IF order[i] \in anonymous THEN <<backend, i>>
             ELSE PciId(digits, order[i])]]

-----------------------------------------------------------------------------
RegistryOrder == [linux |-> <<"nvidia", "amd", "intel">>,
                  windows |-> <<"nvidia", "wddm">>, macos |-> <<"apple">>]

Of(vendor) == {b \in machine : b.vendor = vendor}

\* D3DKMT's addresses have no domain: Windows is taken to have only domain 0.
Init ==
  /\ os \in {"linux", "windows", "macos"}
  /\ machine \in SUBSET {b \in Boards : /\ os = "windows" => b.domain = 0
                                        /\ (os = "macos") = (b.vendor = "apple")}
  /\ Cardinality(Of("apple")) <= 1
  /\ backends \in {RegistryOrder[os], <<>>}   \* none at all under --mock
  /\ listed = <<>> /\ names = {} /\ luids = {}
  /\ seen_pci = {} /\ devices = <<>>
  /\ answered = {} /\ skipped = {}

NextIs(backend) == backends # <<>> /\ Head(backends) = backend

\* A backend that finds nothing is skipped: init returns Unavailable.
Initialised(backend, listing) ==
  /\ backends' = Tail(backends)
  /\ listed' = listed \o listing
  /\ names' = IF listing = <<>> THEN names ELSE names \union {backend}
  /\ UNCHANGED <<os, machine, seen_pci, devices, answered, skipped>>

\* An NVIDIA entry and the adapter of its address.
Matched(m) ==
  /\ normalize_pci_id(m[1].id) # None
  /\ normalize_pci_id(PciId(4, m[2])) = normalize_pci_id(m[1].id)

\* NVML prints domains with eight digits; a board whose pci_info fails is
\* nvml:<index>. On Windows each entry is matched to the adapter of its
\* address, of those D3DKMT could tell (`told`).
InitNvidia ==
  /\ NextIs("nvidia")
  /\ \E found \in SUBSET Of("nvidia"), told \in SUBSET machine :
       \E order \in Orders(found), anonymous \in SUBSET found :
         LET listing == Listing("nvidia", 8, order, anonymous)
         IN /\ Initialised("nvidia", listing)
            /\ luids' = IF os = "windows"
                        THEN {m \in Range(listing) \X told : Matched(m)} ELSE {}

\* Linux's drm backends skip a card without a PCI_SLOT_NAME, or of a driver
\* they do not know.
InitDrm(vendor) ==
  /\ NextIs(vendor)
  /\ \E found \in SUBSET Of(vendor) : \E order \in Orders(found) :
       Initialised(vendor, Listing(vendor, 4, order, {}))
  /\ UNCHANGED luids

\* Every hardware adapter, under its D3DKMT address or a wddm: id.
InitWddm ==
  /\ NextIs("wddm")
  /\ \E found \in SUBSET machine :
       \E order \in Orders(found), anonymous \in SUBSET found :
         Initialised("wddm", Listing("wddm", 4, order, anonymous))
  /\ UNCHANGED luids

\* The one Metal device, under an id made of its name.
InitApple ==
  /\ NextIs("apple")
  /\ \E found \in SUBSET Of("apple") : \E order \in Orders(found) :
       Initialised("apple", Listing("apple", 4, order, found))
  /\ UNCHANGED luids

\* The simulated boards, when no backend initialised.
FallBackToMock ==
  /\ backends = <<>> /\ names = {}
  /\ names' = {"mock"}
  /\ listed' = [i \in 1..2 |-> [backend |-> "mock", board |-> <<"mock", i>>,
                                id |-> <<"mock", i>>]]
  /\ UNCHANGED <<os, machine, backends, luids, seen_pci, devices, answered,
                 skipped>>

\* Mutant: the address is taken even when static_info fails.
SeenBeforeAnswer(key, answers) == seen_pci \union ({key} \ {None})

SeenAfter(key, answers) ==
  IF answers THEN seen_pci \union ({key} \ {None}) ELSE seen_pci

\* One turn of with_backends' loop.
Register(answers) ==
  LET e == Head(listed)
      key == normalize_pci_id(e.id)
  IN /\ backends = <<>> /\ listed # <<>>
     /\ e.backend \in {"mock", "apple"} => answers
     /\ listed' = Tail(listed)
     /\ IF key # None /\ key \in seen_pci
        THEN /\ skipped' = skipped \union {e.board}
             /\ UNCHANGED <<seen_pci, devices, answered>>
        ELSE /\ seen_pci' = SeenAfter(key, answers)
             /\ devices' = IF answers THEN Append(devices, e) ELSE devices
             /\ answered' = IF answers THEN answered \union {e.board} ELSE answered
             /\ UNCHANGED skipped
     /\ UNCHANGED <<os, machine, backends, names, luids>>

Next ==
  \/ InitNvidia
  \/ \E vendor \in {"amd", "intel"} : InitDrm(vendor)
  \/ InitWddm
  \/ InitApple
  \/ FallBackToMock
  \/ \E answers \in BOOLEAN : Register(answers)

Spec == Init /\ [][Next]_vars

-----------------------------------------------------------------------------
(* Properties *)

\* Entries come from the backends of the system, or from the mock alone.
TypeOK ==
  /\ names \subseteq Range(RegistryOrder[os]) \/ names = {"mock"}
  /\ \A e \in Range(devices) \union Range(listed) : e.backend \in names
  /\ seen_pci = {normalize_pci_id(e.id) : e \in Range(devices)} \ {None}

Registered(b) == \E e \in Range(devices) : e.board = b

\* "The same physical GPU" is listed once unless a source could not tell its
\* address, and nothing is lost to the merging: a duplicate is skipped only of
\* a board that is registered, so the next backend covers a board whose first
\* one failed ("first backend wins", "fall through to wddm"), and an NVIDIA
\* device reads the counters of no adapter but its own.
EachBoardOnce ==
  /\ \A j, k \in DOMAIN devices :
       j < k /\ devices[j].board = devices[k].board =>
         \E n \in {j, k} : normalize_pci_id(devices[n].id) = None
  /\ \A b \in skipped \union answered : Registered(b)
  /\ \A m \in luids : m[1].board = m[2]
=============================================================================
