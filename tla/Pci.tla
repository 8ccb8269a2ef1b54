--------------------------------- MODULE Pci ---------------------------------
(***************************************************************************)
(* The PCI inventory of the kernel (kernel/src/hardware.rs).  A machine is a *)
(* sequence of slots in bus and device order, a slot the sequence of the     *)
(* functions its device answers for.  The inventory and the search a driver  *)
(* makes walk the machine independently.                                     *)
(***************************************************************************)
EXTENDS Integers, FiniteSets, Sequences, SequencesExt

CONSTANTS MAX_PCI_DEVICES,
          Absent             \* a function whose vendor id reads 0xffff

None == <<>>
Some(address) == <<address>>

\* classify_pci_device, on the identity a function reports.
classify_pci_device(id) ==
  CASE id.virtio /\ id.device = "net" -> "VirtioNet"
    [] id.virtio /\ id.device = "block" -> "VirtioBlock"
    [] id.virtio /\ id.device = "other" -> "VirtioOther"
    [] id.virtio /\ id.device \notin {"net", "block", "other"} -> "Other"
    [] ~id.virtio -> id.class

\* The functions of a slot that a scan looks at.
FunctionCount(slot) ==
  CASE slot[1] = Absent -> 0
    [] slot[1] # Absent -> IF slot[1].multifunction THEN Len(slot) ELSE 1

Addresses(machine) ==
  FlattenSeq([s \in 1 .. Len(machine) |->
                [f \in 1 .. FunctionCount(machine[s]) |-> <<s, f>>]])

At(machine, address) == machine[address[1]][address[2]]

\* scan_pci: read_pci_device skips the functions that are not there, push
\* drops what does not fit.
scan_pci(machine) ==
  LET present == SelectSeq(Addresses(machine), LAMBDA a : At(machine, a) # Absent)
      kept == IF Len(present) <= MAX_PCI_DEVICES THEN Len(present)
              ELSE MAX_PCI_DEVICES
  IN  [devices |-> SubSeq(present, 1, kept), overflow |-> Len(present) > kept]

FirstOf(addresses) == IF addresses = <<>> THEN None ELSE Some(Head(addresses))

\* The fields of HardwareSummary that the kernel decides on.
summary(machine, inventory) ==
  LET OfRole(role) ==
        FirstOf(SelectSeq(inventory.devices,
                          LAMBDA a : classify_pci_device(At(machine, a)) = role))
  IN  [pci_devices |-> Len(inventory.devices),
       overflow |-> inventory.overflow,
       virtio_block |-> OfRole("VirtioBlock"),
       virtio_net |-> OfRole("VirtioNet")]

\* The search VirtioBlock::discover and the network driver start with.
find_legacy_virtio_device(machine, device) ==
  LET Legacy(d) == d # Absent /\ d.virtio /\ d.device = device
  IN  FirstOf(SelectSeq(Addresses(machine), LAMBDA a : Legacy(At(machine, a))))

=============================================================================
