------------------------------- MODULE Startup -------------------------------
(***************************************************************************)
(* From the command line to the first KVM_RUN (main.c 115-267, mvvm.c      *)
(* 24-208, 220-414 and the MMIO dispatch of mvvm_run, 490-512): options,   *)
(* memory slots, CPU registers, devices, boot parameters, e820 map,        *)
(* command line, initrd and kernel.                                        *)
(*                                                                         *)
(* Sizes and addresses are in KB, the length of the command line in bytes. *)
(* getopt, files and KVM are external; whatever may fail, fails at will.   *)
(***************************************************************************)
EXTENDS Integers, Sequences, FiniteSets

CONSTANTS
  Kernels,   \* sizes of the kernel image
  Sects,     \* setup_sects in its header
  Initrds,   \* sizes of the initrd
  MemArgs,   \* arguments of -m: digits and a suffix
  Lengths,   \* lengths of the argument of -a
  Taps,      \* arguments of -t
  Absent,    \* a NULL pointer: the option was not given
  UINT64_MAX \* the largest size, in KB

ASSUME MemArgsAssumption == MemArgs \subseteq [digits : Nat, suffix : STRING]
ASSUME FilesAssumption ==
  Kernels \subseteq Nat /\ Initrds \subseteq Nat /\ Sects \subseteq 0..255
ASSUME LengthsAssumption == Lengths \subseteq Nat

KB == 1
MB == 1024
GB == 1024 * 1024
RESERVED_ADDR == 4194036  \* 0xFFFBD000
RESERVED_SIZE == 16
TB == 1024 * GB
BootParams == 4           \* sizeof(struct boot_params)

VARIABLES
  pc,      \* the next step; "run", "help", "fail" or "overrun" at the end
  opts,    \* struct cmd_opts
  size,    \* mem_map->size
  slots,   \* memory slots known to KVM
  regs,    \* rip and rsi
  devs,    \* the devices that exist
  ifname,  \* the TAP interface opened
  e820,    \* the table in the boot parameters
  args,    \* command line: device parameters behind the arguments, length
  hdr,     \* what the header in the boot parameters says of the other copies
  blobs    \* what has been copied to guest memory, and where

vars == <<pc, opts, size, slots, regs, devs, ifname, e820, args, hdr, blobs>>
vmVars == <<size, slots, regs, devs, ifname>>
bootVars == <<e820, args, hdr, blobs>>

Area(at, n) == [at |-> at, size |-> n]
End(r) == r.at + r.size
Within(r, s) == s.at <= r.at /\ End(r) <= End(s)
Apart(r, s) == End(r) <= s.at \/ End(s) <= r.at

Init ==
  /\ pc = "parse"
  /\ opts = [kernel |-> Absent, initrd |-> Absent, disk |-> FALSE,
             tap |-> Absent, mem |-> GB, length |-> 19]
  /\ size = 0 /\ slots = {} /\ regs = [rip |-> 0, rsi |-> 0]
  /\ devs = {} /\ ifname = Absent
  /\ e820 = <<>> /\ args = [devs |-> {}, length |-> 0] /\ blobs = <<>>
  /\ hdr = [cmd_line_ptr |-> 0, ramdisk_image |-> 0, ramdisk_size |-> 0]

-----------------------------------------------------------------------------
(* parse_opts and parse_memory_size.                                        *)

Multiplier(suffix) == IF suffix \in {"k", "K"} THEN KB
                      ELSE IF suffix \in {"m", "M"} THEN MB ELSE GB
ValidMemory(a) ==
  \/ a.suffix = ""
  \/ /\ a.suffix \in {"k", "K", "m", "M", "g", "G"}
     /\ a.digits <= UINT64_MAX \div Multiplier(a.suffix)
MemorySize(a) == IF a.suffix = "" THEN a.digits \div 1024
                 ELSE a.digits * Multiplier(a.suffix)

Set(field, value) ==
  /\ pc = "parse"
  /\ opts' = [opts EXCEPT ![field] = value]
  /\ UNCHANGED <<pc, vmVars, bootVars>>

Exit(how) == pc' = how /\ UNCHANGED <<opts, vmVars, bootVars>>

ParseOption ==
  \/ \E k \in Kernels : Set("kernel", k)
  \/ \E n \in Initrds : Set("initrd", n)
  \/ Set("disk", TRUE)
  \/ \E t \in Taps : Set("tap", t)
  \/ \E n \in Lengths : Set("length", n)
  \/ \E a \in MemArgs : ValidMemory(a) /\ Set("mem", MemorySize(a))

(* -h with its argument; everything getopt or the code refuses, and a      *)
(* missing -k.                                                             *)
ParseHelp == pc = "parse" /\ Exit("help")
ParseReject == pc = "parse" /\ Exit("fail")
ParseDone == pc = "parse" /\ opts.kernel # Absent /\ Exit("memory")

-----------------------------------------------------------------------------
(* mvvm_init.                                                               *)

Syscall ==
  \/ pc \in {"memory", "slots", "cpu", "kernel"}
  \/ pc = "blk" /\ opts.disk
  \/ pc = "net" /\ opts.tap # Absent
  \/ pc = "initrd" /\ opts.initrd # Absent
SyscallFails == Syscall /\ Exit("fail")

(* KVM, the irqchip, the PIT and the reserved pages; mmap refuses size 0. *)
MapMemory ==
  /\ pc = "memory" /\ opts.mem > 0
  /\ pc' = "slots" /\ size' = opts.mem
  /\ UNCHANGED <<opts, slots, regs, devs, ifname, bootVars>>

Region1 == RESERVED_ADDR + RESERVED_SIZE
SlotsOneBlock == {Area(0, size)}
Slots ==
  IF size <= RESERVED_ADDR THEN {Area(0, size)}
  ELSE {Area(0, RESERVED_ADDR)}
       \cup (IF size > Region1 THEN {Area(Region1, size - Region1)} ELSE {})

(* KVM takes whole pages only. *)
SetRegions ==
  /\ pc = "slots" /\ \A s \in Slots : s.size % 4 = 0
  /\ pc' = "cpu" /\ slots' = Slots
  /\ UNCHANGED <<opts, size, regs, devs, ifname, bootVars>>

(* init_cpu: flat segments, protected mode, and where to start. *)
init_cpu ==
  /\ pc = "cpu" /\ pc' = "blk"
  /\ regs' = [rip |-> 1024, rsi |-> 64]
  /\ UNCHANGED <<opts, size, slots, devs, ifname, bootVars>>

InitBlk ==
  /\ pc = "blk" /\ pc' = "net"
  /\ devs' = devs \cup (IF opts.disk THEN {"blk"} ELSE {})
  /\ UNCHANGED <<opts, size, slots, regs, ifname, bootVars>>

InitNet ==
  /\ pc = "net" /\ pc' = "kernel"
  /\ IF opts.tap = Absent THEN UNCHANGED <<devs, ifname>>
       ELSE devs' = devs \cup {"net"} /\ ifname' = "vm0"
  /\ UNCHANGED <<opts, size, slots, regs, bootVars>>

-----------------------------------------------------------------------------
(* mvvm_load_kernel.                                                        *)

(* Unsigned 64-bit subtraction. *)
Minus(a, b) == IF a >= b THEN a - b ELSE UINT64_MAX - (b - a - 1)

(* A copy into guest memory; past the end of the mapping it has no defined *)
(* outcome.                                                                *)
CopyTo(name, r, next) ==
  /\ blobs' = [b \in DOMAIN blobs \cup {name} |-> IF b = name THEN r ELSE blobs[b]]
  /\ pc' = IF r.at <= size /\ r.size <= size - r.at THEN next ELSE "overrun"

KernelAcceptedSmall == opts.kernel < 190 * MB /\ opts.kernel > 64
KernelAccepted == opts.kernel < 190 * MB /\ opts.kernel > 128

setup_e820_map ==
  LET low == Area(0, 640)
      below == Area(MB, RESERVED_ADDR - MB)
  IN IF size <= RESERVED_ADDR THEN <<low, Area(MB, Minus(size, MB))>>
     ELSE IF size <= Region1 THEN <<low, below>>
     ELSE <<low, below, Area(Region1, size - Region1)>>

(* The header is first copied from the image, whatever that holds. *)
FromImage == {0, 1}

LoadParams ==
  /\ pc = "kernel" /\ KernelAccepted
  /\ \E n \in FromImage :
       hdr' = [cmd_line_ptr |-> 128, ramdisk_image |-> n, ramdisk_size |-> n]
  /\ e820' = setup_e820_map
  /\ CopyTo("zeropage", Area(64, BootParams), "cmdline")
  /\ UNCHANGED <<opts, vmVars, args>>

KernelRefused == pc = "kernel" /\ ~KernelAccepted /\ Exit("fail")

(* config.h: what the command line says of a device. *)
Announce(d) == IF d = "blk" THEN [base |-> TB, size |-> 4, irq |-> 10]
                            ELSE [base |-> TB + GB, size |-> 4, irq |-> 11]

(* Lengths are cut at 2000 by strnlen; cmdline_concat appends a parameter  *)
(* of 39 characters, 2000 standing for the NULL it returns.                *)
strnlen(n) == IF n < 2000 THEN n ELSE 2000
cmdline_concatShort(n) == IF n + 39 + 1 >= 2000 THEN 2000 ELSE n + 39
cmdline_concat(n) == IF n + 39 >= 2000 THEN 2000 ELSE n + 39
With(d, n) == IF d \in devs /\ n < 2000 THEN cmdline_concat(n) ELSE n
Cmdline == With("net", With("blk", strnlen(opts.length)))

LoadCmdline ==
  /\ pc = "cmdline" /\ Cmdline < 2000
  /\ args' = [devs |-> devs, length |-> Cmdline]
  /\ CopyTo("cmdline", Area(128, 2), "initrd")
  /\ UNCHANGED <<opts, vmVars, e820, hdr>>

CmdlineRefused == pc = "cmdline" /\ Cmdline >= 2000 /\ Exit("fail")

initrd_addrLow == 128 * MB
initrd_addr == 192 * MB
InitrdFits == initrd_addr + opts.initrd < size

(* The fields of the header are 32 bits wide. *)
uint32(n) == n % (4 * GB)
Ramdisk(at, n) ==
  hdr' = [hdr EXCEPT !.ramdisk_image = uint32(at), !.ramdisk_size = uint32(n)]

load_initrd ==
  /\ pc = "initrd"
  /\ \/ opts.initrd = Absent /\ pc' = "copy" /\ Ramdisk(0, 0) /\ UNCHANGED blobs
     \/ /\ opts.initrd # Absent /\ InitrdFits
        /\ CopyTo("initrd", Area(initrd_addr, opts.initrd), "copy")
        /\ Ramdisk(initrd_addr, opts.initrd)
  /\ UNCHANGED <<opts, vmVars, e820, args>>

InitrdRefused ==
  pc = "initrd" /\ opts.initrd # Absent /\ ~InitrdFits /\ Exit("fail")

(* What follows the boot sector and the n setup sectors of 512 bytes, in   *)
(* whole KB.                                                               *)
KernelSize(n) == Minus(opts.kernel, (n + 1) \div 2)

CopyKernel ==
  /\ pc = "copy"
  /\ \E n \in Sects : CopyTo("kernel", Area(MB, KernelSize(n)), "run")
  /\ UNCHANGED <<opts, vmVars, e820, args, hdr>>

(* KVM_EXIT_MMIO in mvvm_run: the device an access outside the slots goes  *)
(* to, if any.                                                             *)
DispatchByBase(a) == IF a >= TB + GB THEN "net" ELSE IF a > TB THEN "blk" ELSE "none"
Dispatch(a) == CASE a \div GB = 1024 /\ a - TB <= 4 -> "blk"
                 [] a \div GB = 1025 /\ a - TB - GB <= 4 -> "net"
                 [] OTHER -> "none"
Irqline(d) == IF d = "blk" THEN 10 ELSE 11

Finished == pc \in {"run", "help", "fail", "overrun"} /\ UNCHANGED vars

Next ==
  \/ ParseOption \/ ParseHelp \/ ParseReject \/ ParseDone
  \/ SyscallFails \/ MapMemory \/ SetRegions \/ init_cpu \/ InitBlk \/ InitNet
  \/ KernelRefused \/ LoadParams \/ CmdlineRefused \/ LoadCmdline
  \/ InitrdRefused \/ load_initrd \/ CopyKernel \/ Finished

Spec == Init /\ [][Next]_vars

-----------------------------------------------------------------------------
Ranges == {e820[i] : i \in DOMAIN e820}
AllApart(S) == \A r, s \in S : r = s \/ Apart(r, s)

(* The map the guest is given and the memory KVM was given agree, although *)
(* mvvm_init and setup_e820_map compute them apart: what the e820 table    *)
(* calls RAM is backed by a slot and listed once, every byte of a slot     *)
(* above 1 MB is listed, and the four pages set aside for KVM below 4 GB   *)
(* are in neither.                                                         *)
E820Backed ==
  pc = "run" =>
    /\ AllApart(Ranges) /\ AllApart(slots \cup {Area(RESERVED_ADDR, RESERVED_SIZE)})
    /\ \A r \in Ranges : \E s \in slots : Within(r, s)
    /\ \A s \in slots : \E r \in Ranges :
         Within(IF s.at < MB THEN Area(MB, End(s) - MB) ELSE s, r)

(* The machine that is started finds what was loaded: the registers set by *)
(* init_cpu point at the kernel and the boot parameters mvvm_load_kernel   *)
(* writes later, the header in them at the command line and the initrd, or *)
(* at none; no copy overwrites another; all of them lie in RAM the e820    *)
(* table lists.  (An initrd that reaches the reserved pages below 4 GB     *)
(* would not, and of one of 4 GB the header has a size cut to 32 bits.)    *)
BootImage ==
  pc = "run" =>
    /\ regs.rip = blobs["kernel"].at /\ regs.rsi = blobs["zeropage"].at
    /\ hdr.cmd_line_ptr = blobs["cmdline"].at
    /\ IF opts.initrd = Absent
         THEN hdr.ramdisk_size = 0 /\ "initrd" \notin DOMAIN blobs
         ELSE /\ hdr.ramdisk_image = blobs["initrd"].at
              /\ blobs["initrd"].size = opts.initrd
              /\ opts.initrd < 4 * GB => hdr.ramdisk_size = opts.initrd
    /\ \A a, b \in DOMAIN blobs : a = b \/ Apart(blobs[a], blobs[b])
    /\ \A b \in DOMAIN blobs :
         End(blobs[b]) <= RESERVED_ADDR => \E r \in Ranges : Within(blobs[b], r)

(* Loading runs past the memory only where nothing compares the sizes:     *)
(* less than 130 KB of it, or a kernel larger than it and no initrd, whose *)
(* check is the only one that looks at the memory size.  In particular the *)
(* 128 KB minimum keeps image size minus setup sectors from wrapping.      *)
OverrunOnlyWhenSmall ==
  pc = "overrun" =>
    size < 130 \/ (opts.initrd = Absent /\ size < MB + opts.kernel)

(* The two concatenations and the last test of mvvm_load_kernel accept a   *)
(* command line exactly when it and its terminator fit in 2000 bytes with  *)
(* the parameters of the devices, and store all of it.                     *)
CmdlineExact ==
  [][LET total == opts.length + 39 * Cardinality(devs) IN
     pc = "cmdline" =>
       IF total < 2000 THEN pc' # "fail" /\ args'.length = total
                       ELSE pc' = "fail"]_vars

(* A device announced on the command line is the device the VM has; every  *)
(* access to its window leaves the guest (no slot covers it, up to 1 TB of *)
(* memory) and is dispatched by mvvm_run to that device, on whose line it  *)
(* raises its interrupts.                                                  *)
AnnouncedIsServed ==
  pc = "run" =>
    /\ args.devs = {d \in {"blk", "net"} :
                     IF d = "blk" THEN opts.disk ELSE opts.tap # Absent}
    /\ args.devs = devs
    /\ \A d \in devs : LET w == Announce(d) IN
         /\ w.irq = Irqline(d)
         /\ \A a \in w.base .. w.base + w.size - 1 : Dispatch(a) = d
         /\ size <= TB => \A s \in slots : Apart(s, Area(w.base, w.size))

(* "-t TAP_IFNAME  Tap interface name" (main.c:288): the interface opened  *)
(* is the one named.                                                       *)
TapAsNamed == pc = "run" => ifname = opts.tap
=============================================================================
