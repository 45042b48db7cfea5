-------------------------------- MODULE System --------------------------------
(***************************************************************************)
(* The system from loader.asm on: the boot of the kernel, and the programs *)
(* it ends in, with the library that both are written with.                *)
(***************************************************************************)
EXTENDS Boot, Programs, Library

\* What /etc/init names is the shell, or nothing that is there.
ASSUME SystemAssumption ==
  \A s \in Shells : /\ s \in DOMAIN Disk => Disk[s].t = "program" /\ Disk[s].prog = "sh"
                    /\ s # Config

sysVars == << bootVars, progVars >>

SysInit == BootInit /\ ProgInit

\* process_jump leaves kmain for good.
Booting == /\ kmain
          /\ IF at' = "running" THEN Jump(machine.shell) ELSE UNCHANGED progVars

Userland == /\ at = "running"
            /\ Program(drivers)
            /\ UNCHANGED bootVars

Typing == /\ at = "running"
          /\ User
          /\ UNCHANGED bootVars

SysNext == Booting \/ Userland \/ Typing

\* The processor runs, in the kernel and in programs.  Nobody has to type.
SysSpec == SysInit /\ [][SysNext]_sysVars /\ WF_sysVars(Booting) /\ WF_sysVars(Userland)

-----------------------------------------------------------------------------
\* What programs are written with does what they take it to do: strings are
\* compared and copied, numbers and formats printed, and lines divided, as those
\* who read them mean.
LibraryRight ==
  at = "running" => /\ ComparesStrings /\ CopiesExact
                    /\ PrintsNumbers /\ PrintsFormats
                    /\ ParsesLines
===============================================================================
