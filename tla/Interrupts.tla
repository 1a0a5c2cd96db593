----------------------------- MODULE Interrupts -----------------------------
(***************************************************************************)
(* The interrupts of kernel/modules/interrupts and the handlers of timer.c *)
(* composed with the scheduler: two cascaded 8259 controllers request an   *)
(* interrupt, the CPU acknowledges it when its interrupt flag is set, and  *)
(* the common handler calls what call_table names for the vector.          *)
(*                                                                         *)
(* init_interrupts programs the controllers without automatic EOI and      *)
(* masks no line, in fully nested mode: a line in service blocks itself    *)
(* and every line of lower priority until an EOI, which is not specific    *)
(* and ends the service of the highest priority in service.                *)
(*                                                                         *)
(* A handler runs behind an interrupt gate: with the acknowledge before it *)
(* it is one action.  The exceptions print and return, and change nothing  *)
(* that is modelled.                                                       *)
(***************************************************************************)
EXTENDS Scheduler, FiniteSetsExt

CONSTANTS
    Lines,      \* the IRQ lines that devices use
    DriverLines \* those some driver installs a handler for

ASSUME InterruptsAssumption ==
    /\ Lines \subseteq (0..15) \ {2}
    /\ 0 \in Lines
    /\ DriverLines \subseteq Lines \ {0, 7}

VARIABLES
    irr,        \* lines with a request that waits
    misr,       \* levels in service at the master
    sisr,       \* lines in service at the slave
    call_table, \* the handler of each line (vector MPIC_OFFSET + line)
    pic         \* "bios" until init_interrupts has programmed the controllers

picVars == <<irr, misr, sisr, call_table, pic>>

allVars == <<vars, picVars>>

Handlers == {"none", "reserved", "timer", "rtc", "driver"}

-----------------------------------------------------------------------------
(* The controllers *)

\* The slave is cascaded through level 2 of the master (ICW3).
Level(l) == IF l > 7 THEN 2 ELSE l

Before(l, m) == Level(l) < Level(m) \/ (Level(l) = Level(m) /\ l < m)

\* Nothing of the same or a higher priority is in service.
Unblocked(l) ==
    /\ \A m \in misr : Level(l) < m
    /\ l > 7 => \A s \in sisr : l < s

\* The request the CPU sees.
Requesting(l) ==
    /\ l \in irr
    /\ Unblocked(l)
    /\ \A m \in irr : Before(m, l) => ~Unblocked(m)

\* A non-specific EOI.
EndHighest(serving) == IF serving = {} THEN {} ELSE serving \ {Min(serving)}

\* Mutant: the EOI goes to the slave only.
MutPicEoi(l, master, slave) ==
    /\ misr' = IF l > 7 THEN master ELSE EndHighest(master)
    /\ sisr' = IF l > 7 THEN EndHighest(slave) ELSE slave

\* PIC_EOI(l), with the given lines in service.
PicEoi(l, master, slave) ==
    /\ misr' = EndHighest(master)
    /\ sisr' = IF l > 7 THEN EndHighest(slave) ELSE slave

\* A device raises its line; the PIT does so on line 0 at every tick.
Raise(l) ==
    /\ l \notin irr
    /\ irr' = irr \cup {l}
    /\ UNCHANGED <<vars, misr, sisr, call_table, pic>>

-----------------------------------------------------------------------------
(* The handlers, called with the given lines in service *)

\* What an interrupt without a wake-up does to the scheduler: it ends a hlt.
Returns ==
    \/ OtherInterrupt
    \/ /\ interrupts
       /\ cpu # "halt"
       /\ UNCHANGED vars

\* Mutant: the timer's handler sends its EOI for nothing but a wake-up.
MutTimerHandler(master, slave) ==
    /\ TimerInterrupt
    /\ IF sleep_tasks' # sleep_tasks
       THEN PicEoi(0, master, slave)
       ELSE misr' = master /\ sisr' = slave

\* interrupt_handler of timer.c: EOI, then schedule().
TimerHandler(master, slave) ==
    /\ TimerInterrupt
    /\ PicEoi(0, master, slave)

\* RTC_handler: the request is taken for real if anything is in service at
\* the master, and for spurious, without an EOI, if nothing is.
RtcHandler(master, slave) ==
    /\ Returns
    /\ \/ master # {} /\ PicEoi(7, master, slave)
       \/ master = {} /\ misr' = master /\ sisr' = slave

\* reserved_interrupt prints and sends no EOI.
ReservedInterrupt(master, slave) ==
    /\ Returns
    /\ misr' = master
    /\ sisr' = slave

\* A driver's handler, the way interrupt_handler is written: it may find a
\* task that waits for the device.
DriverHandler(l, master, slave) ==
    /\ Returns \/ \E t \in Tasks : DeviceInterrupt(t)
    /\ PicEoi(l, master, slave)

\* int_common_handler
IntCommonHandler(l, master, slave) ==
    \/ call_table[l] = "timer" /\ TimerHandler(master, slave)
    \/ call_table[l] = "rtc" /\ RtcHandler(master, slave)
    \/ call_table[l] = "reserved" /\ ReservedInterrupt(master, slave)
    \/ call_table[l] = "driver" /\ DriverHandler(l, master, slave)

\* The CPU acknowledges a request and runs the handler of its vector.
Interrupt(l) ==
    /\ Requesting(l)
    /\ irr' = irr \ {l}
    /\ IntCommonHandler(l, misr \cup {Level(l)},
                        IF l > 7 THEN sisr \cup {l} ELSE sisr)
    /\ UNCHANGED <<call_table, pic>>

\* A request withdrawn before its acknowledge is answered with the lowest
\* line of its controller, which is not put in service: IRQ 7, or IRQ 15
\* behind a cascade level that is.  The PIT holds its line.
Spurious(l) ==
    /\ l # 0
    /\ Requesting(l)
    /\ irr' = irr \ {l}
    /\ IF l > 7 THEN IntCommonHandler(15, misr \cup {2}, sisr)
                ELSE IntCommonHandler(7, misr, sisr)
    /\ UNCHANGED <<call_table, pic>>

-----------------------------------------------------------------------------
(* Start *)

\* init_exceptions: reserved_interrupt for every vector, but for those of
\* exceptions, which are below the lines'.
InitExceptions == [l \in 0..15 |-> "reserved"]

\* init_interrupts: the initialisation words clear the controllers.
InitInterrupts ==
    /\ cpu = "boot"
    /\ pic = "bios"
    /\ pic' = "ready"
    /\ call_table' = InitExceptions
    /\ irr' = {}
    /\ misr' = {}
    /\ sisr' = {}
    /\ UNCHANGED vars

\* init_timer, called by init_multitasking, installs two handlers.
InitTimer ==
    /\ pic = "ready"
    /\ InitMultitasking
    /\ call_table' = [call_table EXCEPT ![0] = "timer", ![7] = "rtc"]
    /\ UNCHANGED <<irr, misr, sisr, pic>>

\* A task that drives a device calls set_int_handler.
SetIntHandler(l) ==
    /\ cpu = "run"
    /\ call_table[l] = "reserved"
    /\ call_table' = [call_table EXCEPT ![l] = "driver"]
    /\ UNCHANGED <<vars, irr, misr, sisr, pic>>

PicInit ==
    /\ Init
    /\ irr = {}
    /\ misr = {}
    /\ sisr = {}
    /\ call_table = [l \in 0..15 |-> "none"]
    /\ pic = "bios"

PicNext ==
    \/ \E l \in Lines : Raise(l)
    \/ InitInterrupts
    \/ InitTimer
    \/ \E l \in DriverLines : SetIntHandler(l)
    \/ \E l \in Lines : Interrupt(l)
    \/ \E l \in Lines : Spurious(l)
    \/ TaskStep /\ UNCHANGED picVars
    \/ Awake /\ UNCHANGED picVars

PicSpec == PicInit /\ [][PicNext]_allVars

\* The kernel's own code executes on, the PIT ticks, and a request that stays
\* is acknowledged.  Nothing is assumed of the tasks and of the other devices,
\* and nothing that is strong.
PicFairSpec ==
    /\ PicSpec
    /\ WF_allVars(InitInterrupts)
    /\ WF_allVars(InitTimer)
    /\ WF_allVars(Awake /\ UNCHANGED picVars)
    /\ WF_allVars(Raise(0))
    /\ WF_allVars(Interrupt(0))

-----------------------------------------------------------------------------
(* Properties *)

\* Whatever the devices and the other handlers do, the kernel behaves as the
\* scheduler alone does, and the timer is not passed over for ever: the
\* strong fairness of the scheduler's timer follows from the priority of IRQ 0
\* and from interrupt_handler's EOI, although reserved_interrupt leaves lines
\* in service and RTC_handler sends EOIs that are not its own.
ImplementsScheduler == FairSpec

\* An interrupt that somebody handles leaves no line in service, although the
\* EOI of PIC_EOI names none: in nested mode the highest one in service is the
\* handler's own, also when lines that reserved_interrupt has answered stay in
\* service for ever.
HandledLinesReleased ==
    [][\A l \in Lines :
          Interrupt(l) /\ call_table[l] # "reserved"
             => UNCHANGED <<misr, sisr>>]_allVars

=============================================================================
