---------------------------- MODULE StartupProofs ----------------------------
(***************************************************************************)
(* The machine that is started, for every memory size, kernel, initrd and  *)
(* command line, and whatever the other options are: its memory map, what  *)
(* was copied into it, its command line and its devices.                   *)
(*                                                                         *)
(* The argument.  Each step of main() settles some variables for good, so  *)
(* each invariant says what they are from that step on (MapInv, LoadInv,   *)
(* BlobInv, DevInv), and the property follows by arithmetic.               *)
(***************************************************************************)
EXTENDS Startup, FiniteSetTheorems, TLAPS

OptsOK ==
  opts \in [kernel : Kernels \cup {Absent}, initrd : Initrds \cup {Absent},
            disk : BOOLEAN, tap : Taps \cup {Absent}, mem : Nat,
            length : Lengths \cup {19}]

AfterSlots == {"cpu", "blk", "net", "kernel", "cmdline", "initrd", "copy", "run"}
AfterParams == {"cmdline", "initrd", "copy", "run"}

(* The slots and the e820 table are those of the memory size from the step *)
(* that computes them on (mvvm_init, setup_e820_map), and the kernel has   *)
(* been copied to 1 MB within it (mvvm_load_kernel) when the VCPU runs.    *)
MapInv ==
  /\ OptsOK
  /\ size \in Nat
  /\ pc \in AfterSlots => slots = Slots
  /\ pc \in AfterParams => e820 = setup_e820_map
  /\ pc = "run" => size >= MB

(* What parse_memory_size returns is a natural number. *)
LEMMA MemorySizeNat ==
  ASSUME NEW a \in MemArgs, ValidMemory(a)
  PROVE  MemorySize(a) \in Nat
<1>1. a.digits \in Nat
  BY MemArgsAssumption
<1>2. CASE a.suffix = ""
  <2>1. MemorySize(a) = a.digits \div 1024
    BY <1>2 DEF MemorySize
  <2>2. a.digits \div 1024 \in Nat
    BY <1>1
  <2> QED BY <2>1, <2>2
<1>3. CASE a.suffix # ""
  <2>1. MemorySize(a) = a.digits * Multiplier(a.suffix)
    BY <1>3 DEF MemorySize
  <2>2. Multiplier(a.suffix) \in {1, 1024, 1024 * 1024}
    BY DEF Multiplier, KB, MB, GB
  <2>3. \A m \in {1, 1024, 1024 * 1024} : a.digits * m \in Nat
    BY <1>1
  <2> QED BY <2>1, <2>2, <2>3
<1> QED BY <1>2, <1>3

(* Options that are parsed keep their types (parse_opts). *)
LEMMA ParseKeeps ==
  ASSUME OptsOK, ParseOption
  PROVE  OptsOK'
<1>1. CASE \E k \in Kernels : Set("kernel", k)
  BY <1>1 DEF OptsOK, Set
<1>2. CASE \E n \in Initrds : Set("initrd", n)
  BY <1>2 DEF OptsOK, Set
<1>3. CASE Set("disk", TRUE)
  BY <1>3 DEF OptsOK, Set
<1>4. CASE \E t \in Taps : Set("tap", t)
  BY <1>4 DEF OptsOK, Set
<1>5. CASE \E n \in Lengths : Set("length", n)
  BY <1>5 DEF OptsOK, Set
<1>6. CASE \E a \in MemArgs : ValidMemory(a) /\ Set("mem", MemorySize(a))
  BY <1>6, MemorySizeNat DEF OptsOK, Set
<1> QED BY <1>1, <1>2, <1>3, <1>4, <1>5, <1>6 DEF ParseOption

(* No step of the program breaks MapInv. *)
LEMMA MapStep ==
  ASSUME MapInv, [Next]_vars
  PROVE  MapInv'
<1> USE DEF AfterSlots, AfterParams
<1>1. CASE ParseOption
  <2>1. OptsOK' BY <1>1, ParseKeeps DEF MapInv
  <2>2. pc = "parse" /\ UNCHANGED <<pc, vmVars, bootVars>>
    BY <1>1 DEF ParseOption, Set
  <2> QED BY <2>1, <2>2 DEF MapInv, vmVars, bootVars
<1>2. CASE ParseHelp \/ ParseReject \/ ParseDone \/ SyscallFails
           \/ KernelRefused \/ CmdlineRefused \/ InitrdRefused
  <2>1. UNCHANGED <<opts, vmVars, bootVars>> /\ pc' \in {"help", "fail", "memory"}
    BY <1>2 DEF ParseHelp, ParseReject, ParseDone, SyscallFails, KernelRefused,
                CmdlineRefused, InitrdRefused, Exit
  <2> QED BY <2>1 DEF MapInv, OptsOK, vmVars, bootVars
<1>3. CASE MapMemory
  BY <1>3 DEF MapInv, OptsOK, MapMemory
<1>4. CASE SetRegions
  BY <1>4 DEF MapInv, OptsOK, SetRegions, Slots
<1>5. CASE init_cpu \/ InitBlk \/ InitNet
  BY <1>5 DEF MapInv, OptsOK, init_cpu, InitBlk, InitNet, Slots, bootVars
<1>6. CASE LoadParams
  BY <1>6 DEF MapInv, OptsOK, LoadParams, CopyTo, Slots, setup_e820_map, vmVars
<1>7. CASE LoadCmdline \/ load_initrd
  BY <1>7 DEF MapInv, OptsOK, LoadCmdline, load_initrd, CopyTo, Slots,
              setup_e820_map, vmVars
<1>8. CASE CopyKernel
  <2>1. PICK n \in Sects : CopyTo("kernel", Area(MB, KernelSize(n)), "run")
    BY <1>8 DEF CopyKernel
  <2>2. pc' = "run" => MB <= size
    BY <2>1 DEF CopyTo, Area
  <2>3. pc' \in {"run", "overrun"} BY <2>1 DEF CopyTo
  <2>4. UNCHANGED <<opts, size, slots, e820>> /\ pc = "copy"
    BY <1>8 DEF CopyKernel, vmVars
  <2> QED BY <2>2, <2>3, <2>4 DEF MapInv, OptsOK, Slots, setup_e820_map, MB
<1>9. CASE Finished \/ UNCHANGED vars
  BY <1>9 DEF Finished, vars, MapInv, OptsOK, Slots, setup_e820_map
<1> QED BY <1>1, <1>2, <1>3, <1>4, <1>5, <1>6, <1>7, <1>8, <1>9 DEF Next

(* Where the reserved pages are (RESERVED_ADDR, mvvm.c): all a proof needs *)
(* to know of the constants.                                               *)
LEMMA Layout ==
  /\ RESERVED_ADDR \in Nat /\ RESERVED_ADDR > MB
  /\ Region1 \in Nat /\ Region1 = RESERVED_ADDR + RESERVED_SIZE
  /\ RESERVED_SIZE \in Nat
BY SMT DEF RESERVED_ADDR, RESERVED_SIZE, Region1, MB

(* What MapInv says of the running machine is what E820Backed asks: the    *)
(* two tables, computed apart, agree for every size from 1 MB on.          *)
LEMMA MapBacked == MapInv => E820Backed
<1> SUFFICES ASSUME MapInv, pc = "run" PROVE E820Backed
  BY DEF E820Backed
<1> DEFINE low == Area(0, 640)
           high == Area(MB, size - MB)
           below == Area(MB, RESERVED_ADDR - MB)
           above == Area(Region1, size - Region1)
<1>1. size \in Nat /\ size >= MB /\ slots = Slots /\ e820 = setup_e820_map
  BY DEF MapInv, AfterSlots, AfterParams
<1>2. Minus(size, MB) = size - MB
  BY <1>1 DEF Minus, MB
<1> USE Layout DEF Area, End, Within, Apart, AllApart, MB
<1>3. CASE size <= RESERVED_ADDR
  <2>1. slots = {Area(0, size)}
    BY <1>1, <1>3 DEF Slots
  <2>2. e820 = <<low, high>>
    BY <1>1, <1>2, <1>3 DEF setup_e820_map
  <2>3. Ranges = {low, high}
    BY <2>2 DEF Ranges
  <2> QED BY <1>1, <1>3, <2>1, <2>3 DEF E820Backed
<1>4. CASE size > RESERVED_ADDR /\ size <= Region1
  <2>1. slots = {Area(0, RESERVED_ADDR)}
    BY <1>1, <1>4 DEF Slots
  <2>2. e820 = <<low, below>>
    BY <1>1, <1>4 DEF setup_e820_map
  <2>3. Ranges = {low, below}
    BY <2>2 DEF Ranges
  <2> QED BY <1>1, <1>4, <2>1, <2>3 DEF E820Backed
<1>5. CASE size > Region1
  <2>1. slots = {Area(0, RESERVED_ADDR), above}
    BY <1>1, <1>5 DEF Slots
  <2>2. e820 = <<low, below, above>>
    BY <1>1, <1>5 DEF setup_e820_map
  <2>3. Ranges = {low, below, above}
    BY <2>2 DEF Ranges
  <2> QED BY <1>1, <1>5, <2>1, <2>3 DEF E820Backed
<1> QED BY <1>1, <1>3, <1>4, <1>5

(* For every memory size the machine that is started has an e820 map       *)
(* (setup_e820_map) and memory slots (mvvm_init) that agree.               *)
THEOREM MapsAgree == Spec => []E820Backed
<1>1. Init => MapInv
  BY DEF Init, MapInv, OptsOK, AfterSlots, AfterParams, GB
<1>2. MapInv /\ [Next]_vars => MapInv'
  BY MapStep
<1>3. MapInv => E820Backed
  BY MapBacked
<1> QED BY <1>1, <1>2, <1>3, PTL DEF Spec

-----------------------------------------------------------------------------
(* What the checks passed so far guarantee: there is a kernel, of accepted *)
(* size from the boot parameters on (mvvm_load_kernel), and an initrd, if  *)
(* any, has been compared with the memory size (load_initrd).              *)
LoadInv ==
  /\ OptsOK /\ size \in Nat
  /\ pc \notin {"parse", "help", "fail"} => opts.kernel \in Kernels
  /\ pc \in AfterParams => KernelAccepted
  /\ pc = "copy" /\ opts.initrd # Absent => InitrdFits
  /\ OverrunOnlyWhenSmall

(* The kernel without its boot sector and at most 255 setup sectors is not *)
(* larger than the image, because images of up to 128 KB are refused.      *)
LEMMA NoWrap ==
  ASSUME NEW n \in Sects, opts.kernel \in Kernels, KernelAccepted
  PROVE  KernelSize(n) \in Nat /\ KernelSize(n) <= opts.kernel
<1>1. n \in 0..255 /\ opts.kernel \in Nat
  BY FilesAssumption
<1>2. (n + 1) \div 2 \in 0..128
  BY <1>1
<1> QED BY <1>1, <1>2 DEF KernelSize, Minus, KernelAccepted, MB

(* The copy of the kernel runs past the memory only if that is smaller     *)
(* than 1 MB and the image, and then there is no initrd.                   *)
LEMMA KernelCopy ==
  ASSUME LoadInv, CopyKernel, pc' = "overrun"
  PROVE  OverrunOnlyWhenSmall'
<1>1. PICK n \in Sects : CopyTo("kernel", Area(MB, KernelSize(n)), "run")
  BY DEF CopyKernel
<1>2. pc = "copy" /\ UNCHANGED <<opts, size>>
  BY DEF CopyKernel, vmVars
<1>3. opts.kernel \in Kernels /\ KernelAccepted /\ size \in Nat /\ OptsOK
  BY <1>2 DEF LoadInv, AfterParams
<1>4. KernelSize(n) \in Nat /\ KernelSize(n) <= opts.kernel
  BY <1>3, NoWrap
<1>5. opts.kernel \in Nat
  BY <1>3, FilesAssumption
<1>6. size < MB + opts.kernel
  BY <1>1, <1>3, <1>4, <1>5 DEF CopyTo, Area, MB
<1>7. opts.initrd = Absent
  <2> SUFFICES ASSUME opts.initrd # Absent PROVE FALSE
    OBVIOUS
  <2>1. opts.initrd \in Nat
    BY <1>3, FilesAssumption DEF OptsOK
  <2>2. 192 * MB + opts.initrd < size
    BY <1>2 DEF LoadInv, InitrdFits, initrd_addr
  <2> QED BY <1>3, <1>5, <1>6, <2>1, <2>2 DEF KernelAccepted, MB
<1> QED BY <1>2, <1>6, <1>7 DEF OverrunOnlyWhenSmall

(* No step of the program breaks LoadInv. *)
LEMMA LoadStep ==
  ASSUME LoadInv, [Next]_vars
  PROVE  LoadInv'
<1> USE DEF AfterParams
<1>1. CASE ParseOption
  <2>1. OptsOK' BY <1>1, ParseKeeps DEF LoadInv
  <2>2. pc = "parse" /\ UNCHANGED <<pc, vmVars, bootVars>>
    BY <1>1 DEF ParseOption, Set
  <2> QED BY <2>1, <2>2 DEF LoadInv, OverrunOnlyWhenSmall, vmVars
<1>2. CASE ParseHelp \/ ParseReject \/ SyscallFails
           \/ KernelRefused \/ CmdlineRefused \/ InitrdRefused
  <2>1. UNCHANGED <<opts, vmVars, bootVars>> /\ pc' \in {"help", "fail"}
    BY <1>2 DEF ParseHelp, ParseReject, SyscallFails, KernelRefused,
                CmdlineRefused, InitrdRefused, Exit
  <2> QED BY <2>1 DEF LoadInv, OptsOK, OverrunOnlyWhenSmall, vmVars
<1>3. CASE ParseDone
  BY <1>3 DEF LoadInv, OptsOK, ParseDone, Exit, OverrunOnlyWhenSmall, vmVars
<1>4. CASE MapMemory
  BY <1>4 DEF LoadInv, OptsOK, MapMemory, OverrunOnlyWhenSmall
<1>5. CASE SetRegions \/ init_cpu \/ InitBlk \/ InitNet
  BY <1>5 DEF LoadInv, OptsOK, SetRegions, init_cpu, InitBlk, InitNet,
              OverrunOnlyWhenSmall
<1>6. CASE LoadParams
  BY <1>6 DEF LoadInv, OptsOK, LoadParams, CopyTo, Area, BootParams,
              KernelAccepted, OverrunOnlyWhenSmall, vmVars
<1>7. CASE LoadCmdline
  BY <1>7 DEF LoadInv, OptsOK, LoadCmdline, CopyTo, Area, KernelAccepted,
              OverrunOnlyWhenSmall, vmVars
<1>8. CASE load_initrd
  <2>1. UNCHANGED <<opts, size>> /\ pc = "initrd"
    BY <1>8 DEF load_initrd, vmVars
  <2>2. pc' = "copy" /\ (opts.initrd # Absent => InitrdFits)
    <3>1. CASE opts.initrd = Absent
      BY <1>8, <3>1 DEF load_initrd
    <3>2. CASE opts.initrd # Absent
      <4>1. InitrdFits /\ CopyTo("initrd", Area(initrd_addr, opts.initrd), "copy")
        BY <1>8, <3>2 DEF load_initrd
      <4>2. opts.initrd \in Nat /\ size \in Nat
        BY <3>2, FilesAssumption DEF LoadInv, OptsOK
      <4> QED BY <4>1, <4>2 DEF CopyTo, Area, InitrdFits, initrd_addr, MB
    <3> QED BY <3>1, <3>2
  <2> QED BY <2>1, <2>2 DEF LoadInv, OptsOK, KernelAccepted, InitrdFits,
                            OverrunOnlyWhenSmall
<1>9. CASE CopyKernel
  <2>1. pc' \in {"run", "overrun"} /\ pc = "copy" /\ UNCHANGED <<opts, size>>
    BY <1>9 DEF CopyKernel, CopyTo, vmVars
  <2>2. OverrunOnlyWhenSmall'
    BY <1>9, <2>1, KernelCopy DEF OverrunOnlyWhenSmall
  <2> QED BY <2>1, <2>2 DEF LoadInv, OptsOK, KernelAccepted, AfterParams
<1>10. CASE Finished \/ UNCHANGED vars
  BY <1>10 DEF Finished, vars, LoadInv, OptsOK, KernelAccepted, InitrdFits,
               OverrunOnlyWhenSmall
<1> QED BY <1>1, <1>2, <1>3, <1>4, <1>5, <1>6, <1>7, <1>8, <1>9, <1>10 DEF Next

(* For every kernel, initrd and memory size, mvvm_load_kernel runs past    *)
(* guest memory only where no check compares the sizes.                    *)
THEOREM OverrunsExplained == Spec => []OverrunOnlyWhenSmall
<1>1. Init => LoadInv
  BY DEF Init, LoadInv, OptsOK, AfterParams, OverrunOnlyWhenSmall, GB
<1>2. LoadInv /\ [Next]_vars => LoadInv'
  BY LoadStep
<1>3. LoadInv => OverrunOnlyWhenSmall
  BY DEF LoadInv
<1> QED BY <1>1, <1>2, <1>3, PTL DEF Spec
-----------------------------------------------------------------------------
Entered == {"blk", "net", "kernel", "cmdline", "initrd", "copy", "run"}
Early == {"parse", "memory", "slots", "cpu", "blk", "net", "kernel"}
InitrdBlob == IF opts.initrd = Absent THEN {} ELSE {"initrd"}

(* What has been copied to guest memory after each step of                 *)
(* mvvm_load_kernel, and where.                                            *)
BlobInv ==
  /\ pc \in Entered => regs = [rip |-> 1024, rsi |-> 64]
  /\ pc \in Early => DOMAIN blobs = {}
  /\ pc = "cmdline" => DOMAIN blobs = {"zeropage"}
  /\ pc = "initrd" => DOMAIN blobs = {"zeropage", "cmdline"}
  /\ pc = "copy" => DOMAIN blobs = {"zeropage", "cmdline"} \cup InitrdBlob
  /\ pc = "run" => DOMAIN blobs = {"zeropage", "cmdline", "kernel"} \cup InitrdBlob
  /\ "zeropage" \in DOMAIN blobs => blobs["zeropage"] = Area(64, BootParams)
  /\ "cmdline" \in DOMAIN blobs => blobs["cmdline"] = Area(128, 2)
  /\ "initrd" \in DOMAIN blobs =>
       blobs["initrd"] = Area(initrd_addr, opts.initrd) /\ InitrdFits
  /\ pc = "run" => \E n \in Sects :
       /\ blobs["kernel"] = Area(MB, KernelSize(n))
       /\ KernelSize(n) <= size - MB

(* No step of the program breaks BlobInv. *)
LEMMA BlobStep ==
  ASSUME BlobInv, [Next]_vars
  PROVE  BlobInv'
<1> USE DEF Entered, Early
<1>1. CASE ParseOption
  <2>1. pc = "parse" /\ UNCHANGED <<pc, regs, blobs>>
    BY <1>1 DEF ParseOption, Set, vmVars, bootVars
  <2> QED BY <2>1 DEF BlobInv
<1>2. CASE ParseHelp \/ ParseReject \/ SyscallFails
           \/ KernelRefused \/ CmdlineRefused \/ InitrdRefused
  <2>1. UNCHANGED <<opts, vmVars, bootVars>> /\ pc' \in {"help", "fail"}
    BY <1>2 DEF ParseHelp, ParseReject, SyscallFails, KernelRefused,
                CmdlineRefused, InitrdRefused, Exit
  <2> QED BY <2>1 DEF BlobInv, vmVars, bootVars, InitrdFits
<1>3. CASE ParseDone \/ MapMemory \/ SetRegions \/ init_cpu \/ InitBlk \/ InitNet
  BY <1>3 DEF BlobInv, ParseDone, Exit, MapMemory, SetRegions, init_cpu,
              InitBlk, InitNet, vmVars, bootVars
<1>4. CASE LoadParams
  BY <1>4 DEF BlobInv, LoadParams, CopyTo, vmVars
<1>5. CASE LoadCmdline
  BY <1>5 DEF BlobInv, LoadCmdline, CopyTo, vmVars
<1>6. CASE load_initrd
  <2>1. /\ pc = "initrd" /\ DOMAIN blobs = {"zeropage", "cmdline"}
        /\ opts' = opts /\ size' = size /\ regs' = regs
        /\ blobs["zeropage"] = Area(64, BootParams)
        /\ blobs["cmdline"] = Area(128, 2)
    BY <1>6 DEF BlobInv, load_initrd, vmVars
  <2>2. CASE opts.initrd = Absent
    <3>1. pc' = "copy" /\ blobs' = blobs
      BY <1>6, <2>2 DEF load_initrd
    <3> QED BY <2>1, <2>2, <3>1 DEF BlobInv, InitrdBlob
  <2>3. CASE opts.initrd # Absent
    <3>1. /\ InitrdFits /\ pc' \in {"copy", "overrun"}
          /\ blobs' = [b \in DOMAIN blobs \cup {"initrd"} |->
                        IF b = "initrd" THEN Area(initrd_addr, opts.initrd)
                                        ELSE blobs[b]]
      BY <1>6, <2>3 DEF load_initrd, CopyTo
    <3>2. /\ DOMAIN blobs' = {"zeropage", "cmdline"} \cup {"initrd"}
          /\ blobs'["zeropage"] = Area(64, BootParams)
          /\ blobs'["cmdline"] = Area(128, 2)
          /\ blobs'["initrd"] = Area(initrd_addr, opts.initrd)
      BY <2>1, <3>1
    <3>3. InitrdFits' /\ InitrdBlob' = {"initrd"}
      BY <2>1, <2>3, <3>1 DEF InitrdFits, InitrdBlob
    <3>4. regs = [rip |-> 1024, rsi |-> 64]
      BY <2>1 DEF BlobInv
    <3> QED BY <2>1, <3>1, <3>2, <3>3, <3>4 DEF BlobInv
  <2> QED BY <2>2, <2>3
<1>7. CASE CopyKernel
  BY <1>7 DEF BlobInv, CopyKernel, CopyTo, InitrdBlob, InitrdFits, KernelSize,
              Area, vmVars
<1>8. CASE Finished \/ UNCHANGED vars
  <2>1. UNCHANGED <<pc, opts, size, regs, blobs>>
    BY <1>8 DEF Finished, vars
  <2>2. InitrdBlob' = InitrdBlob /\ (InitrdFits' <=> InitrdFits)
    BY <2>1 DEF InitrdBlob, InitrdFits
  <2>3. \A n \in Sects : KernelSize(n)' = KernelSize(n)
    BY <2>1 DEF KernelSize
  <2>4. ASSUME pc = "run"
        PROVE  \E n \in Sects : /\ blobs'["kernel"] = Area(MB, KernelSize(n)')
                                 /\ KernelSize(n)' <= size' - MB
    BY Zenon, <2>1, <2>3, <2>4 DEF BlobInv
  <2> QED BY <2>1, <2>2, <2>4 DEF BlobInv
<1> QED BY <1>1, <1>2, <1>3, <1>4, <1>5, <1>6, <1>7, <1>8 DEF Next

(* What the header says of the command line and of the initrd, from the    *)
(* steps that write it on.                                                 *)
HdrInv ==
  /\ DOMAIN hdr = {"cmd_line_ptr", "ramdisk_image", "ramdisk_size"}
  /\ pc \in AfterParams => hdr.cmd_line_ptr = 128
  /\ pc \in {"copy", "run"} =>
       IF opts.initrd = Absent
         THEN hdr.ramdisk_image = 0 /\ hdr.ramdisk_size = 0
         ELSE /\ hdr.ramdisk_image = uint32(initrd_addr)
              /\ hdr.ramdisk_size = uint32(opts.initrd)

(* No step of the program breaks HdrInv. *)
LEMMA HdrStep ==
  ASSUME HdrInv, [Next]_vars
  PROVE  HdrInv'
<1> USE DEF AfterParams
<1>1. CASE ParseOption
  BY <1>1 DEF ParseOption, Set, bootVars, HdrInv
<1>2. CASE ParseHelp \/ ParseReject \/ SyscallFails
           \/ KernelRefused \/ CmdlineRefused \/ InitrdRefused
  <2>1. UNCHANGED hdr /\ pc' \in {"help", "fail"}
    BY <1>2 DEF ParseHelp, ParseReject, SyscallFails, KernelRefused,
                CmdlineRefused, InitrdRefused, Exit, bootVars
  <2> QED BY <2>1 DEF HdrInv
<1>3. CASE ParseDone \/ MapMemory \/ SetRegions \/ init_cpu \/ InitBlk \/ InitNet
  <2>1. UNCHANGED hdr /\ pc' \in {"memory", "slots", "cpu", "blk", "net", "kernel"}
    BY <1>3 DEF ParseDone, Exit, MapMemory, SetRegions, init_cpu, InitBlk,
       InitNet, bootVars
  <2> QED BY <2>1 DEF HdrInv
<1>4. CASE LoadParams
  <2>1. pc' \in {"cmdline", "overrun"}
    BY <1>4 DEF LoadParams, CopyTo
  <2> QED BY <1>4, <2>1 DEF HdrInv, LoadParams
<1>5. CASE LoadCmdline
  <2>1. pc = "cmdline" /\ pc' \in {"initrd", "overrun"} /\ UNCHANGED hdr
    BY <1>5 DEF LoadCmdline, CopyTo
  <2> QED BY <2>1 DEF HdrInv
<1>6. CASE load_initrd
  <2>1. pc = "initrd" /\ pc' \in {"copy", "overrun"} /\ opts' = opts
    BY <1>6 DEF load_initrd, CopyTo
  <2>2. uint32(0) = 0
    BY DEF uint32, GB
  <2>3. CASE opts.initrd = Absent
    <3>1. hdr' = [hdr EXCEPT !.ramdisk_image = uint32(0), !.ramdisk_size = uint32(0)]
      BY Zenon, <1>6, <2>3 DEF load_initrd, Ramdisk
    <3> QED BY <2>1, <2>2, <2>3, <3>1 DEF HdrInv
  <2>4. CASE opts.initrd # Absent
    <3>1. hdr' = [hdr EXCEPT !.ramdisk_image = uint32(initrd_addr),
                             !.ramdisk_size = uint32(opts.initrd)]
      BY Zenon, <1>6, <2>4 DEF load_initrd, Ramdisk
    <3> HIDE DEF uint32
    <3> QED BY <2>1, <2>4, <3>1 DEF HdrInv
  <2> QED BY <2>3, <2>4
<1>7. CASE CopyKernel
  <2>1. pc = "copy" /\ pc' \in {"run", "overrun"} /\ UNCHANGED <<opts, hdr>>
    BY <1>7 DEF CopyKernel, CopyTo
  <2> QED BY <2>1 DEF HdrInv
<1>8. CASE Finished \/ UNCHANGED vars
  BY <1>8 DEF Finished, vars, HdrInv
<1> QED BY <1>1, <1>2, <1>3, <1>4, <1>5, <1>6, <1>7, <1>8 DEF Next

(* The e820 table lists the first 640 KB and everything from 1 MB to the   *)
(* end of memory or the reserved pages.                                    *)
LEMMA Listed ==
  ASSUME MapInv, pc = "run", NEW at \in Nat, NEW n \in Nat,
         \/ at + n <= 640
         \/ MB <= at /\ at + n <= size /\ at + n <= RESERVED_ADDR
  PROVE  \E r \in Ranges : Within(Area(at, n), r)
<1> DEFINE low == Area(0, 640)
           high == Area(MB, size - MB)
           below == Area(MB, RESERVED_ADDR - MB)
<1>1. size \in Nat /\ size >= MB /\ e820 = setup_e820_map
  BY DEF MapInv, AfterParams
<1>2. Minus(size, MB) = size - MB
  BY <1>1 DEF Minus, MB
<1>3. /\ low \in Ranges
      /\ high \in Ranges \/ (below \in Ranges /\ size > RESERVED_ADDR)
  <2>1. CASE size <= RESERVED_ADDR
    <3>1. e820 = <<low, high>>
      BY <1>1, <1>2, <2>1 DEF setup_e820_map
    <3>2. 1 \in DOMAIN e820 /\ 2 \in DOMAIN e820
      BY <3>1
    <3>3. e820[1] = low /\ e820[2] = high
      BY <3>1
    <3>4. \A i \in DOMAIN e820 : e820[i] \in Ranges
      BY DEF Ranges
    <3> QED BY <3>2, <3>3, <3>4
  <2>2. CASE size > RESERVED_ADDR /\ size <= Region1
    <3>1. e820 = <<low, below>>
      BY <1>1, <2>2, Layout DEF setup_e820_map
    <3> QED BY <2>2, <3>1 DEF Ranges
  <2>3. CASE size > Region1
    <3>1. e820 = <<low, below, Area(Region1, size - Region1)>>
      BY <1>1, <2>3, Layout DEF setup_e820_map
    <3> QED BY <1>1, <2>3, <3>1, Layout DEF Ranges
  <2> QED BY <1>1, <2>1, <2>2, <2>3, Layout
<1>4. CASE at + n <= 640
  <2>1. Within(Area(at, n), low)
    BY <1>4 DEF Within, End, Area
  <2> QED BY <1>3, <2>1
<1>5. CASE MB <= at /\ at + n <= size /\ at + n <= RESERVED_ADDR
  <2>1. Within(Area(at, n), high) /\ Within(Area(at, n), below)
    BY <1>1, <1>5, Layout DEF Within, End, Area, MB
  <2> QED BY <1>3, <2>1
<1> QED BY <1>4, <1>5

(* The places of zero page, command line, kernel and initrd are apart and, *)
(* below the reserved pages, in RAM.                                       *)
LEMMA ImagePlaced == MapInv /\ LoadInv /\ BlobInv /\ HdrInv => BootImage
<1> SUFFICES ASSUME MapInv, LoadInv, BlobInv, HdrInv, pc = "run" PROVE BootImage
  BY DEF BootImage
<1>1. size \in Nat /\ size >= MB /\ opts.kernel \in Kernels /\ KernelAccepted
  BY DEF MapInv, LoadInv, AfterParams
<1>2. PICK n \in Sects : blobs["kernel"] = Area(MB, KernelSize(n))
                          /\ KernelSize(n) <= size - MB
  BY DEF BlobInv
<1>3. KernelSize(n) \in Nat /\ KernelSize(n) < 190 * MB
  <2>1. opts.kernel \in Nat /\ KernelSize(n) \in Nat /\ KernelSize(n) <= opts.kernel
    BY <1>1, NoWrap, FilesAssumption
  <2> QED BY <1>1, <2>1 DEF KernelAccepted, MB
<1>4. /\ DOMAIN blobs = {"zeropage", "cmdline", "kernel"} \cup InitrdBlob
      /\ blobs["zeropage"] = Area(64, 4) /\ blobs["cmdline"] = Area(128, 2)
      /\ regs.rip = 1024 /\ regs.rsi = 64
  BY DEF BlobInv, Entered, BootParams
<1>5. ASSUME opts.initrd # Absent
      PROVE  /\ opts.initrd \in Nat /\ 192 * MB + opts.initrd < size
             /\ blobs["initrd"] = Area(192 * MB, opts.initrd)
  <2>1. opts.initrd \in Nat
    BY <1>5, FilesAssumption DEF MapInv, OptsOK
  <2>2. "initrd" \in DOMAIN blobs
    BY <1>4, <1>5 DEF InitrdBlob
  <2> QED BY <2>1, <2>2 DEF BlobInv, InitrdFits, initrd_addr
<1>6. regs.rip = blobs["kernel"].at /\ regs.rsi = blobs["zeropage"].at
  BY <1>2, <1>4 DEF Area, MB
<1>7. ASSUME NEW a \in DOMAIN blobs, NEW b \in DOMAIN blobs, a # b
      PROVE  Apart(blobs[a], blobs[b])
  <2>1. CASE a # "initrd" /\ b # "initrd"
    BY <1>2, <1>3, <1>4, <1>7, <2>1 DEF InitrdBlob, Apart, Area, End, MB
  <2>2. CASE a = "initrd" \/ b = "initrd"
    BY <1>2, <1>3, <1>4, <1>5, <1>7, <2>2 DEF InitrdBlob, Apart, Area, End, MB
  <2> QED BY <2>1, <2>2
<1>8. ASSUME NEW b \in DOMAIN blobs, End(blobs[b]) <= RESERVED_ADDR
      PROVE  \E r \in Ranges : Within(blobs[b], r)
  <2>1. CASE b = "zeropage"
    BY <1>4, <2>1, Listed
  <2>2. CASE b = "cmdline"
    BY <1>4, <2>2, Listed
  <2>3. CASE b = "kernel"
    BY <1>1, <1>2, <1>3, <1>8, <2>3, Listed DEF End, Area, MB
  <2>4. CASE b = "initrd"
    BY <1>1, <1>4, <1>5, <1>8, <2>4, Listed DEF End, Area, MB, InitrdBlob
  <2> QED BY <1>4, <2>1, <2>2, <2>3, <2>4 DEF InitrdBlob
<1>9. hdr.cmd_line_ptr = blobs["cmdline"].at
  BY <1>4 DEF HdrInv, AfterParams, Area
<1>10. CASE opts.initrd = Absent
  <2>1. hdr.ramdisk_size = 0 /\ "initrd" \notin DOMAIN blobs
    BY <1>4, <1>10 DEF HdrInv, InitrdBlob
  <2> QED BY <1>6, <1>7, <1>8, <1>9, <1>10, <2>1 DEF BootImage
<1>11. CASE opts.initrd # Absent
  <2>1. blobs["initrd"].at = 192 * MB /\ blobs["initrd"].size = opts.initrd
    BY <1>5, <1>11 DEF Area
  <2>2. hdr.ramdisk_image = uint32(192 * MB) /\ hdr.ramdisk_size = uint32(opts.initrd)
    BY <1>11 DEF HdrInv, initrd_addr
  <2>3. /\ uint32(192 * MB) = 192 * MB
        /\ opts.initrd < 4 * GB => uint32(opts.initrd) = opts.initrd
    BY <1>5, <1>11 DEF uint32, GB, MB
  <2> QED BY <1>6, <1>7, <1>8, <1>9, <1>11, <2>1, <2>2, <2>3 DEF BootImage
<1> QED BY <1>10, <1>11

(* For every kernel, initrd and memory size, a machine that is started     *)
(* finds what init_cpu and mvvm_load_kernel prepared for it.               *)
THEOREM ImageIsBootable == Spec => []BootImage
<1>1. Init => MapInv /\ LoadInv /\ BlobInv /\ HdrInv
  BY DEF Init, MapInv, LoadInv, BlobInv, HdrInv, OptsOK, AfterSlots, AfterParams,
     Entered,
         Early, OverrunOnlyWhenSmall, GB
<1>2. MapInv /\ LoadInv /\ BlobInv /\ HdrInv /\ [Next]_vars
        => (MapInv /\ LoadInv /\ BlobInv /\ HdrInv)'
  BY MapStep, LoadStep, BlobStep, HdrStep
<1>3. MapInv /\ LoadInv /\ BlobInv /\ HdrInv => BootImage
  BY ImagePlaced
<1> QED BY <1>1, <1>2, <1>3, PTL DEF Spec

-----------------------------------------------------------------------------
BeforeBlk == {"parse", "memory", "slots", "cpu", "blk"}
Asked == {d \in {"blk", "net"} : IF d = "blk" THEN opts.disk ELSE opts.tap # Absent}

(* The devices made so far (mvvm_init_virtio_blk, then _net) and those on  *)
(* the command line (mvvm_load_kernel).                                    *)
DevInv ==
  /\ pc \in BeforeBlk => devs = {}
  /\ pc = "net" => devs = Asked \ {"net"}
  /\ pc \in AfterParams \cup {"kernel"} => devs = Asked
  /\ pc \in {"initrd", "copy", "run"} => args.devs = devs

(* No step of the program breaks DevInv. *)
LEMMA DevStep ==
  ASSUME DevInv, [Next]_vars
  PROVE  DevInv'
<1> USE DEF BeforeBlk, AfterParams
<1>1. CASE ParseOption
  <2>1. pc = "parse" /\ UNCHANGED <<pc, devs, args>>
    BY <1>1 DEF ParseOption, Set, vmVars, bootVars
  <2> QED BY <2>1 DEF DevInv
<1>2. CASE ParseHelp \/ ParseReject \/ SyscallFails
           \/ KernelRefused \/ CmdlineRefused \/ InitrdRefused
  <2>1. pc' \in {"help", "fail"}
    BY <1>2 DEF ParseHelp, ParseReject, SyscallFails, KernelRefused,
                CmdlineRefused, InitrdRefused, Exit
  <2> QED BY <2>1 DEF DevInv
<1>3. CASE ParseDone \/ MapMemory \/ SetRegions \/ init_cpu
  BY <1>3 DEF DevInv, ParseDone, Exit, MapMemory, SetRegions, init_cpu, vmVars
<1>4. CASE InitBlk
  BY <1>4 DEF DevInv, InitBlk, Asked
<1>5. CASE InitNet
  BY <1>5 DEF DevInv, InitNet, Asked
<1>6. CASE LoadParams
  BY <1>6 DEF DevInv, LoadParams, CopyTo, Asked, vmVars
<1>7. CASE LoadCmdline
  BY <1>7 DEF DevInv, LoadCmdline, CopyTo, Asked, vmVars
<1>8. CASE load_initrd \/ CopyKernel
  BY <1>8 DEF DevInv, load_initrd, CopyKernel, CopyTo, Asked, vmVars
<1>9. CASE Finished \/ UNCHANGED vars
  BY <1>9 DEF Finished, vars, DevInv, Asked
<1> QED BY <1>1, <1>2, <1>3, <1>4, <1>5, <1>6, <1>7, <1>8, <1>9 DEF Next

(* The windows of config.h are dispatched to their devices, and memory of  *)
(* up to 1 TB ends below them.                                             *)
LEMMA WindowsServed ==
  ASSUME NEW d \in {"blk", "net"}
  PROVE  LET w == Announce(d) IN
         /\ w.irq = Irqline(d) /\ w.base \in Nat /\ w.size \in Nat /\ w.base >= TB
         /\ \A a \in w.base .. w.base + w.size - 1 : Dispatch(a) = d
<1>1. CASE d = "blk"
  BY <1>1, SMT DEF Announce, Irqline, Dispatch, TB, GB
<1>2. CASE d = "net"
  BY <1>2, SMT DEF Announce, Irqline, Dispatch, TB, GB
<1> QED BY <1>1, <1>2

(* Every slot of mvvm_init ends within the memory. *)
LEMMA SlotsWithin ==
  ASSUME size \in Nat, NEW s \in Slots
  PROVE  s.at \in Nat /\ s.size \in Nat /\ End(s) <= size
BY Layout DEF Slots, Area, End, MB

(* For all options, the devices announced to the guest are those asked for *)
(* and made, and mvvm_run sends it to them.                                *)
THEOREM DevicesServed == Spec => []AnnouncedIsServed
<1>1. Init => MapInv /\ DevInv
  BY DEF Init, MapInv, DevInv, OptsOK, AfterSlots, AfterParams, BeforeBlk, GB
<1>2. MapInv /\ DevInv /\ [Next]_vars => (MapInv /\ DevInv)'
  BY MapStep, DevStep
<1>3. MapInv /\ DevInv => AnnouncedIsServed
  <2> SUFFICES ASSUME MapInv, DevInv, pc = "run" PROVE AnnouncedIsServed
    BY DEF AnnouncedIsServed
  <2>1. size \in Nat /\ slots = Slots /\ args.devs = devs /\ devs = Asked
    BY DEF MapInv, DevInv, AfterSlots, AfterParams
  <2>2. ASSUME NEW d \in devs, size <= TB, NEW s \in slots
        PROVE  Apart(s, Area(Announce(d).base, Announce(d).size))
    <3>1. s.at \in Nat /\ s.size \in Nat /\ End(s) <= size
      BY <2>1, <2>2, SlotsWithin
    <3>2. Announce(d).base \in Nat /\ Announce(d).base >= TB
      BY <2>1, WindowsServed DEF Asked
    <3> QED BY <2>1, <2>2, <3>1, <3>2 DEF Apart, End, Area, TB, GB
  <2>3. \A d \in devs : LET w == Announce(d) IN
          w.irq = Irqline(d) /\ \A a \in w.base .. w.base + w.size - 1 : Dispatch(a) = d
    BY <2>1, WindowsServed DEF Asked
  <2> QED BY <2>1, <2>2, <2>3 DEF AnnouncedIsServed, Asked
<1> QED BY <1>1, <1>2, <1>3, PTL DEF Spec

(* The VM has at most two devices (mvvm_init_virtio_blk and _net). *)
LEMMA BothDevices ==
  IsFiniteSet({"blk", "net"}) /\ Cardinality({"blk", "net"}) = 2
<1>1. IsFiniteSet({"blk"}) /\ Cardinality({"blk"}) = 1
  BY FS_Singleton
<1>2. "net" \notin {"blk"} /\ {"blk", "net"} = {"blk"} \cup {"net"}
  OBVIOUS
<1>3. /\ IsFiniteSet({"blk"} \cup {"net"})
      /\ Cardinality({"blk"} \cup {"net"}) = Cardinality({"blk"}) + 1
  BY Zenon, <1>1, <1>2, FS_AddElement
<1> QED BY <1>1, <1>2, <1>3

(* One concatenation of mvvm_load_kernel: a parameter of 39 characters for *)
(* a device that exists, 2000 standing for a line that does not fit.       *)
CutLengths == 0..2000
Appended(d, i) ==
  IF d \in devs THEN IF i + 39 < 2000 THEN i + 39 ELSE 2000 ELSE i

(* cmdline_concat appends the parameter or refuses it as a whole. *)
LEMMA Concatenated ==
  ASSUME NEW d, NEW i \in CutLengths
  PROVE  With(d, i) \in CutLengths /\ With(d, i) = Appended(d, i)
BY DEF With, cmdline_concat, Appended, CutLengths

(* What the concatenations of mvvm_load_kernel compute: the length of the  *)
(* whole line, or 2000 when it does not fit.                               *)
LEMMA CmdlineLength ==
  ASSUME opts.length \in Nat, devs \subseteq {"blk", "net"}
  PROVE  LET total == opts.length + 39 * Cardinality(devs) IN
         Cmdline = IF total < 2000 THEN total ELSE 2000
<1> DEFINE k == opts.length
           n == strnlen(k)
           m == With("blk", n)
<1>1. Cmdline = With("net", m)
  BY Zenon DEF Cmdline
<1>2. k \in Nat /\ opts.length = k
  BY Zenon
<1> HIDE DEF k
<1>3. n \in CutLengths /\ n = IF k < 2000 THEN k ELSE 2000
  BY <1>2 DEF strnlen, CutLengths
<1> HIDE DEF n
<1>4. m \in CutLengths /\ m = Appended("blk", n)
  <2>1. n \in CutLengths
    BY <1>3
  <2> QED BY Zenon, <2>1, Concatenated
<1> HIDE DEF m
<1>5. Cmdline = Appended("net", m)
  BY Zenon, <1>1, <1>4, Concatenated
<1>6. CASE devs = {}
  <2>1. Cardinality(devs) = 0
    BY <1>6, FS_EmptySet
  <2>2. "blk" \notin devs /\ "net" \notin devs
    BY <1>6
  <2> QED BY <1>3, <1>4, <1>5, <1>2, <2>1, <2>2
       DEF Appended, CutLengths
<1>7. CASE devs = {"blk"}
  <2>1. Cardinality(devs) = 1
    BY <1>7, FS_Singleton
  <2>2. "blk" \in devs /\ "net" \notin devs
    BY <1>7
  <2> QED BY <1>3, <1>4, <1>5, <1>2, <2>1, <2>2
       DEF Appended, CutLengths
<1>8. CASE devs = {"net"}
  <2>1. Cardinality(devs) = 1
    BY <1>8, FS_Singleton
  <2>2. "blk" \notin devs /\ "net" \in devs
    BY <1>8
  <2> QED BY <1>3, <1>4, <1>5, <1>2, <2>1, <2>2
       DEF Appended, CutLengths
<1>9. CASE devs = {"blk", "net"}
  <2>1. Cardinality(devs) = 2
    BY <1>9, BothDevices
  <2>2. "blk" \in devs /\ "net" \in devs
    BY <1>9
  <2> QED BY <1>3, <1>4, <1>5, <1>2, <2>1, <2>2
       DEF Appended, CutLengths
<1>10. devs = {} \/ devs = {"blk"} \/ devs = {"net"} \/ devs = {"blk", "net"}
  BY Zenon
<1> QED BY ZenonT(30), ZenonT(60), SMT, <1>6, <1>7, <1>8, <1>9, <1>10

(* mvvm_load_kernel refuses a command line exactly when it does not fit,   *)
(* for every length and whatever the devices.                              *)
THEOREM CmdlineNeverCut == Spec => CmdlineExact
<1> DEFINE total == opts.length + 39 * Cardinality(devs)
           Exact == pc = "cmdline" =>
             IF total < 2000 THEN pc' # "fail" /\ args'.length = total
                             ELSE pc' = "fail"
<1>1. Init => MapInv /\ DevInv
  BY DEF Init, MapInv, DevInv, OptsOK, AfterSlots, AfterParams, BeforeBlk, GB
<1>2. MapInv /\ DevInv /\ [Next]_vars => (MapInv /\ DevInv)'
  BY MapStep, DevStep
<1>3. MapInv /\ DevInv /\ [Next]_vars => [Exact]_vars
  <2> SUFFICES ASSUME MapInv, DevInv, Next, pc = "cmdline"
               PROVE  IF total < 2000 THEN pc' # "fail" /\ args'.length = total
                                      ELSE pc' = "fail"
    OBVIOUS
  <2>1. opts.length \in Nat /\ devs \subseteq {"blk", "net"}
    <3>1. opts.length \in Lengths \cup {19}
      BY DEF MapInv, OptsOK
    <3>2. devs = Asked
      BY DEF DevInv, AfterParams
    <3>3. Asked \subseteq {"blk", "net"}
      BY Zenon DEF Asked
    <3>4. opts.length \in Nat
      <4>1. CASE opts.length \in Lengths
        BY Zenon, <4>1, LengthsAssumption
      <4>2. CASE opts.length = 19
        BY <4>2
      <4> QED BY Zenon, <3>1, <4>1, <4>2
    <3> QED BY Zenon, <3>2, <3>3, <3>4
  <2>2. Cmdline = IF total < 2000 THEN total ELSE 2000
    BY <2>1, CmdlineLength
  <2>3. total \in Nat
    <3>1. IsFiniteSet(devs)
      BY <2>1, BothDevices, FS_Subset
    <3> QED BY <2>1, <3>1, FS_CardinalityType
  <2>4. LoadCmdline \/ CmdlineRefused
    BY DEF Next, ParseOption, Set, ParseHelp, ParseReject, ParseDone,
       SyscallFails,
           Syscall, MapMemory, SetRegions, init_cpu, InitBlk, InitNet,
           KernelRefused, LoadParams, InitrdRefused, load_initrd, CopyKernel,
           Finished
  <2>5. CASE LoadCmdline
    <3>1. pc' \in {"initrd", "overrun"} /\ args'.length = Cmdline /\ Cmdline < 2000
      BY <2>5 DEF LoadCmdline, CopyTo
    <3> QED BY <2>2, <2>3, <3>1
  <2>6. CASE CmdlineRefused
    <3>1. pc' = "fail" /\ Cmdline >= 2000
      BY <2>6 DEF CmdlineRefused, Exit
    <3> QED BY <2>2, <2>3, <3>1
  <2> QED BY <2>4, <2>5, <2>6
<1>4. Spec => [][Exact]_vars
  BY <1>1, <1>2, <1>3, PTL DEF Spec
<1> QED BY <1>4 DEF CmdlineExact
=============================================================================
