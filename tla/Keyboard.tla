------------------------------ MODULE Keyboard ------------------------------
(***************************************************************************)
(* The keyboard (Kernel/keyboard.c) and read_keyboard (Kernel/stdinout.c): *)
(* the interrupt handler that keeps the modifiers and loads the ring, and  *)
(* the system call that takes one key and makes a character, or the end of *)
(* the input, of it.                                                       *)
(*                                                                         *)
(* A call starts with interrupts masked.  Once it has waited, with _hlt(), *)
(* which is sti; hlt, it goes on with interrupts enabled: the handler may  *)
(* then run between any two of its steps.  The ring holds keys, not        *)
(* characters: the modifiers that count are those of the moment the key is *)
(* taken out.                                                              *)
(***************************************************************************)
EXTENDS Integers, Sequences

CONSTANTS
    BUFFER_LENGTH,   \* 15
    MaxWait,         \* 500 switches, while somebody else is in the foreground
    MaxKeys,         \* bound: keys loaded in a behaviour
    MaxModifiers     \* bound: presses and releases of the modifiers

KeyboardAssumption ==
    /\ BUFFER_LENGTH \in Nat \ {0, 1}
    /\ MaxWait \in Nat /\ MaxKeys \in Nat /\ MaxModifiers \in Nat

VARIABLES
    ring, dim, toPrint,            \* buffer and its two indices
    ctrlPressed, shift, upperCase, \* the modifiers
    step,        \* where the reader is in read_keyboard
    irq_masked,  \* its interrupts are disabled
    foreground,  \* it is the foreground process
    wait,        \* max_wait
    letter,      \* what getKey gave it
    pressed      \* keys loaded, and modifier events, so far

ringVars == <<ring, dim, toPrint>>
modVars == <<ctrlPressed, shift, upperCase>>
readVars == <<step, irq_masked, wait, letter>>
kbdVars == <<ringVars, modVars, readVars, foreground, pressed>>

Positions == 0 .. BUFFER_LENGTH - 1

\* A key in the ring: which one, and the how manieth it is.
Key == [key : {"d", "other"}, n : 1 .. MaxKeys]
NoKey == [key |-> "none", n |-> 0]

\* "first": getKey in read_keyboard.  "second": getKey in getChar, called when the
\* first found nothing.
ReadSteps == {"out", "enter", "first", "decode", "second", "decodeSecond", "sleep"}

EmptyRing == dim = toPrint

-----------------------------------------------------------------------------
(* The interrupt handler *)

\* Nobody is interrupted in the masked part of a system call.
Interruptible == step = "out" \/ ~ irq_masked

Wrapped(i) == i % BUFFER_LENGTH

Load(k) ==
    /\ ring' = [ring EXCEPT ![dim] = k]
    /\ dim' = Wrapped(dim + 1)
    /\ UNCHANGED toPrint

\* A make code that is loaded.  The D of Ctrl+D is one of them: the handler compares
\* the scancode, 0x20, with the letters 'd' and 'D'.
bufferLoader ==
    /\ Interruptible
    /\ pressed.keys < MaxKeys
    /\ pressed' = [pressed EXCEPT !.keys = @ + 1]
    /\ \E k \in {"d", "other"} :
         Load([key |-> k, n |-> pressed.keys + 1])
    /\ UNCHANGED <<modVars, readVars, foreground>>

\* Make and break codes of the modifiers.
ModifierEvent ==
    /\ Interruptible
    /\ pressed.mods < MaxModifiers
    /\ pressed' = [pressed EXCEPT !.mods = @ + 1]
    /\ \/ ctrlPressed' = ~ ctrlPressed /\ UNCHANGED <<shift, upperCase>>
       \/ shift' = ~ shift /\ UNCHANGED <<ctrlPressed, upperCase>>
       \/ upperCase' = ~ upperCase /\ UNCHANGED <<ctrlPressed, shift>>
    /\ UNCHANGED <<ringVars, readVars, foreground>>

\* Ctrl+C kills the reader, if it is in the foreground; the next one, the shell that
\* gets the foreground back, starts a call of its own.
TypesCtrlC ==
    /\ Interruptible /\ ctrlPressed /\ foreground
    /\ pressed.mods < MaxModifiers
    /\ pressed' = [pressed EXCEPT !.mods = @ + 1]
    /\ step' = "out" /\ irq_masked' = FALSE /\ wait' = 0 /\ letter' = NoKey
    /\ UNCHANGED <<ringVars, modVars, foreground>>

-----------------------------------------------------------------------------
(* The reader *)

Reads ==
    /\ step = "out"
    /\ irq_masked' = TRUE
    /\ IF foreground THEN step' = "first" /\ wait' = 0
       ELSE step' = "enter" /\ wait' = MaxWait
    /\ UNCHANGED <<ringVars, modVars, foreground, letter, pressed>>

\* A process that is not in the foreground lets the others run max_wait times, and
\* then returns as if the input had ended.
WaitForForeground ==
    /\ step = "enter"
    /\ \/ foreground /\ step' = "first" /\ wait' = 0
       \/ ~ foreground /\ wait > 0 /\ wait' = wait - 1 /\ UNCHANGED step
       \/ ~ foreground /\ wait = 0 /\ step' = "out" /\ UNCHANGED wait
    /\ UNCHANGED <<ringVars, modVars, irq_masked, foreground, letter, pressed>>

(* A faulty variant for the mutation runs: the newest key is returned. *)
getKey_Newest == ring[(dim + BUFFER_LENGTH - 1) % BUFFER_LENGTH]

getKey == ring[toPrint]

\* getKey, and where the reader goes with a key and without one.
GetsKey(found, empty) ==
    /\ IF EmptyRing THEN /\ step' = empty
                         /\ UNCHANGED <<toPrint, letter>>
       ELSE /\ letter' = getKey
            /\ toPrint' = Wrapped(toPrint + 1)
            /\ step' = found
    /\ UNCHANGED <<ring, dim, modVars, irq_masked, wait, foreground, pressed>>

FirstGetKey == step = "first" /\ GetsKey("decode", "second")

\* getChar, which looks at the foreground (it is the reader, or it would not be here).
SecondGetKey == step = "second" /\ GetsKey("decodeSecond", "sleep")

\* A small d, by the modifiers of now.
IsEof == ctrlPressed /\ letter.key = "d" /\ shift = upperCase

\* The call returns, with the character or with 0 for the end of the input.
Decode ==
    /\ step = "decode"
    /\ letter' = NoKey /\ step' = "out" /\ irq_masked' = FALSE
    /\ UNCHANGED <<ringVars, modVars, wait, foreground, pressed>>

\* In getChar the end of the input is -1, which is also "no key": the call waits on.
DecodeSecond ==
    /\ step = "decodeSecond"
    /\ letter' = NoKey
    /\ IF IsEof THEN step' = "sleep" /\ UNCHANGED irq_masked
       ELSE step' = "out" /\ irq_masked' = FALSE
    /\ UNCHANGED <<ringVars, modVars, wait, foreground, pressed>>

\* force_switch() and _hlt(): the CPU comes back, with interrupts enabled.
Sleep ==
    /\ step = "sleep"
    /\ step' = "first" /\ irq_masked' = FALSE
    /\ UNCHANGED <<ringVars, modVars, wait, letter, foreground, pressed>>

\* The shell puts the reader in the foreground.  The scheduler runs others, and so
\* the shell, while the reader waits or is out of the call.
GetsForeground ==
    /\ ~ foreground /\ (Interruptible \/ step \in {"enter", "sleep"})
    /\ foreground' = TRUE
    /\ UNCHANGED <<ringVars, modVars, readVars, pressed>>

-----------------------------------------------------------------------------
KbdInit ==
    /\ ring = [i \in Positions |-> NoKey]
    /\ dim = 0 /\ toPrint = 0
    /\ ctrlPressed = FALSE /\ shift = FALSE /\ upperCase = FALSE
    /\ step = "out" /\ irq_masked = FALSE /\ wait = 0 /\ letter = NoKey
    /\ foreground \in BOOLEAN
    /\ pressed = [keys |-> 0, mods |-> 0]

ReaderStep ==
    \/ Reads \/ WaitForForeground \/ FirstGetKey \/ SecondGetKey
    \/ Decode \/ DecodeSecond \/ Sleep

KbdNext == bufferLoader \/ ModifierEvent \/ TypesCtrlC \/ GetsForeground \/ ReaderStep

KbdSpec == KbdInit /\ [][KbdNext]_kbdVars

-----------------------------------------------------------------------------
(* The ring, its indices and the reader are of their types. *)
KbdTypeOK ==
    /\ ring \in [Positions -> Key \union {NoKey}]
    /\ dim \in Positions /\ toPrint \in Positions
    /\ {ctrlPressed, shift, upperCase, irq_masked, foreground} \subseteq BOOLEAN
    /\ step \in ReadSteps
    /\ wait \in 0 .. MaxWait
    /\ letter \in Key \union {NoKey}
    /\ letter # NoKey <=> step \in {"decode", "decodeSecond"}

(* To its readers the ring is a queue that loses everything when BUFFER_LENGTH  *)
(* keys are waiting, whatever the handler and an unmasked reader do in between  *)
(* (keyboard.c:65-78: nothing looks whether the ring is full).                  *)
Pending == (dim - toPrint) % BUFFER_LENGTH
Queue == INSTANCE KeyQueue WITH
    Capacity <- BUFFER_LENGTH - 1,
    Keys <- Key,
    taken <- letter,
    queue <- [i \in 1 .. Pending |-> ring[(toPrint + i - 1) % BUFFER_LENGTH]]
QueueSpec == Queue!QueueSpec

=============================================================================
