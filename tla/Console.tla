------------------------------- MODULE Console -------------------------------
(***************************************************************************)
(* The kernel's output: kprintf on the terminal, dbg_kprintf on the serial *)
(* port, and the print functions of the terminal.  vprintf goes through    *)
(* its format one item at a time, a character or a directive, and hands    *)
(* what the item prints to put_char, one character at a time.              *)
(*                                                                         *)
(* A call is not interrupted: tasks run with interrupts disabled, and so   *)
(* do handlers.                                                            *)
(***************************************************************************)
EXTENDS Terminal, Printf

CONSTANTS
    Literals,       \* ordinary characters of formats, "\n" among them
    Directives,     \* the conversions that formats contain
    Strings,        \* what print_string is called with
    Bytes,          \* what print_byte is called with
    MaxFormat,      \* bound on the items of one format
    MaxConversions, \* bound on the conversions of a behaviour
    MaxBefore,      \* bound on the text printed before a conversion
    MaxColored,     \* bound on the text printed before a change of colour
    MaxText         \* bound on the characters printed on the terminal

ASSUME ConsoleAssumption ==
    /\ {MaxFormat, MaxConversions, MaxBefore, MaxColored, MaxText} \subseteq Nat
    /\ \A d \in Directives :
          /\ d.flags \subseteq {"LEFT", "PLUS", "SPACE", "HASH", "ZEROPAD", "PRECISION"}
          /\ d.width \in Int /\ d.precision \in Int
          /\ d.spec \in Numbers => d.arg \in Int
          /\ d.spec = "s" => d.arg \in Seq({d.arg[i] : i \in DOMAIN d.arg})

VARIABLES
    phase,          \* how far kmain is: "start", "debug", "ready"
    call,           \* "none", "kprintf", "dbg_kprintf" or "print"
    pending,        \* characters of the current item that put_char has to come
    room,           \* items that the format may still have
    conversions,    \* conversions so far
    field,          \* history: the conversion just made and its output
    initialised,    \* com.c: the serial port has passed its test
    thr_empty       \* the port's transmitter can take a character

callVars == <<call, pending, room, conversions, field>>

vars == <<termVars, phase, callVars, initialised, thr_empty>>

NoField == [out |-> <<>>]

-----------------------------------------------------------------------------
(* Start *)

\* init_serial: a port whose loopback test fails is not used, and may be in
\* any state.
InitSerial ==
    /\ phase = "start"
    /\ phase' = "debug"
    /\ \/ initialised' = TRUE /\ thr_empty' = TRUE
       \/ initialised' = FALSE /\ thr_empty' \in BOOLEAN
    /\ UNCHANGED <<termVars, callVars>>

\* init_debug, with DEBUG_COM defined.
InitDebug == InitSerial

\* kmain calls init_terminal before its first kprintf.
StartTerminal ==
    /\ phase = "debug"
    /\ call = "none"
    /\ phase' = "ready"
    /\ InitTerminal
    /\ UNCHANGED <<callVars, initialised, thr_empty>>

-----------------------------------------------------------------------------
(* Calls *)

Kprintf ==
    /\ phase = "ready"
    /\ call = "none"
    /\ call' = "kprintf"
    /\ room' = MaxFormat
    /\ UNCHANGED <<termVars, phase, pending, conversions, field, initialised, thr_empty>>

DbgKprintf ==
    /\ phase # "start"
    /\ call = "none"
    /\ call' = "dbg_kprintf"
    /\ room' = MaxFormat
    /\ UNCHANGED <<termVars, phase, pending, conversions, field, initialised, thr_empty>>

\* print_string, print_byte: characters without a format.
PrintChars(chars) ==
    /\ phase = "ready"
    /\ call = "none"
    /\ Len(text) + Len(chars) <= MaxText
    /\ call' = "print"
    /\ pending' = chars
    /\ UNCHANGED <<termVars, phase, room, conversions, field, initialised, thr_empty>>

PrintString(s) == PrintChars(s)

HexOf(nibble) == Upper[nibble + 1]

PrintByte(number) == PrintChars(<<HexOf(number \div 16), HexOf(number % 16)>>)

\* print_memory: each byte with two blanks behind it, then a new line.
PrintMemory(number) ==
    PrintChars(<<HexOf(number \div 16), HexOf(number % 16), Blank, Blank, "\n">>)

ChangeColor(color) ==
    /\ phase = "ready"
    /\ call = "none"
    /\ Len(text) <= MaxColored
    /\ SetColor(color)
    /\ UNCHANGED <<phase, callVars, initialised, thr_empty>>

-----------------------------------------------------------------------------
(* The loop of vprintf *)

InFormat == call \in {"kprintf", "dbg_kprintf"} /\ pending = <<>>

Item(out) ==
    /\ InFormat
    /\ room > 0
    /\ call = "kprintf" => Len(text) + Len(out) <= MaxText
    /\ room' = room - 1
    /\ pending' = out
    /\ UNCHANGED <<termVars, phase, call, initialised, thr_empty>>

Literal(c) ==
    /\ Item(<<c>>)
    /\ UNCHANGED <<conversions, field>>

Convert(d) ==
    /\ conversions < MaxConversions
    /\ Len(text) <= MaxBefore
    /\ Item(Output(d))
    /\ conversions' = conversions + 1
    /\ field' = [conv |-> d, out |-> Output(d)]

\* The end of the format, also in the middle of a directive, or of a string.
EndCall ==
    /\ call # "none"
    /\ pending = <<>>
    /\ call' = "none"
    /\ room' = 0
    /\ UNCHANGED <<termVars, phase, pending, conversions, field, initialised, thr_empty>>

\* put_char is print_char.
PutOnTerminal ==
    /\ call \in {"kprintf", "print"}
    /\ pending # <<>>
    /\ PrintChar(Head(pending))
    /\ pending' = Tail(pending)
    /\ field' = NoField
    /\ UNCHANGED <<phase, call, room, conversions, initialised, thr_empty>>

\* Mutant: `initialised` is not tested.
MutComSendChar ==
    /\ call = "dbg_kprintf"
    /\ pending # <<>>
    /\ thr_empty
    /\ thr_empty' = FALSE
    /\ pending' = Tail(pending)
    /\ field' = NoField
    /\ UNCHANGED <<termVars, phase, call, room, conversions, initialised>>

\* put_char is com_send_char, which waits for the transmitter and has no
\* timeout; without a port the character is dropped.
ComSendChar ==
    /\ call = "dbg_kprintf"
    /\ pending # <<>>
    /\ \/ ~initialised /\ UNCHANGED thr_empty
       \/ initialised /\ thr_empty /\ thr_empty' = FALSE
    /\ pending' = Tail(pending)
    /\ field' = NoField
    /\ UNCHANGED <<termVars, phase, call, room, conversions, initialised>>

\* A working port sends the character.
Transmit ==
    /\ initialised
    /\ ~thr_empty
    /\ thr_empty' = TRUE
    /\ UNCHANGED <<termVars, phase, callVars, initialised>>

-----------------------------------------------------------------------------

Init ==
    /\ TermInit
    /\ phase = "start"
    /\ call = "none"
    /\ pending = <<>>
    /\ room = 0
    /\ conversions = 0
    /\ field = NoField
    /\ initialised = FALSE
    /\ thr_empty = FALSE

InCall ==
    \/ \E c \in Literals : Literal(c)
    \/ \E d \in Directives : Convert(d)
    \/ EndCall
    \/ PutOnTerminal
    \/ ComSendChar

Next ==
    \/ InitDebug
    \/ StartTerminal
    \/ Kprintf
    \/ DbgKprintf
    \/ \E s \in Strings : PrintString(s)
    \/ \E n \in Bytes : PrintByte(n)
    \/ \E n \in Bytes : PrintMemory(n)
    \/ \E color \in Colors : ChangeColor(color)
    \/ InCall
    \/ Transmit

Spec == Init /\ [][Next]_vars

\* The CPU goes on inside a call, whose format is finite, and a port that
\* passed its test transmits.
FairSpec ==
    /\ Spec
    /\ WF_vars(EndCall)
    /\ WF_vars(PutOnTerminal)
    /\ WF_vars(ComSendChar)
    /\ WF_vars(Transmit)

-----------------------------------------------------------------------------
(* Properties *)

\* What vprintf hands to put_char for a directive is what C's printf prints:
\* sign, prefix and digits of the argument's value in its type, at least the
\* precision and exactly the width unless the content is wider, padded on the
\* right side with the right character.  Where vprintf is known to differ from
\* C, which Departs lists, nothing is said.
FieldRight ==
    field # NoField =>
        Departs(field.conv) \/ RightField(field.out, field.conv)

\* Every call returns, also when the serial port failed its test and never
\* takes a character: com_send_char waits only for a port that works.
CallReturns == call # "none" ~> call = "none"

=============================================================================
