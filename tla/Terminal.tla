------------------------------ MODULE Terminal ------------------------------
(***************************************************************************)
(* The kernel shell: the keyboard interrupt and its ring buffer            *)
(* (kernel/arch/keyboard.c), the shell loop (kernel/shell.c) with the IPC  *)
(* entries it serves, and the text screen all of them print to             *)
(* (kernel/console.c).                                                     *)
(*                                                                         *)
(* The keyboard and the response interrupt may come between any two steps  *)
(* of the shell.  Keys are letters (shift_pressed only chooses which),     *)
(* newline, backspace, and tab for the control characters the scancode map *)
(* also has.  What a line says is not told apart: a command either clears  *)
(* the screen or prints, and what is printed, however many lines, is one   *)
(* line here.  The prompt is PromptLen marks on a new line.  Of the two    *)
(* IPC rings only the numbers of entries are kept; IpcChannel has the rest.*)
(***************************************************************************)
EXTENDS Integers, Sequences

CONSTANTS Width, Height,    \* VGA_WIDTH and VGA_HEIGHT
          PromptLen,        \* length of the prompt
          CmdMax,           \* 127: characters cmd_buf takes
          SentMax, RspMax,  \* entries the command and the response ring take
          KbSize,           \* KB_BUF_SIZE
          Letters           \* printable characters of the scancode maps

ASSUME TerminalAssumption ==
  /\ Width \in Nat \ {0} /\ Height \in Nat \ {0, 1} /\ KbSize \in Nat \ {0, 1}
  /\ PromptLen \in Nat /\ CmdMax \in Nat
  /\ SentMax \in Nat /\ RspMax \in Nat
  /\ PromptLen + CmdMax < Width * Height    \* a command line fits the screen

VARIABLES kb,       \* kb_buffer, kb_head and kb_tail
          screen,   \* VGA_BUFFER, cursor_row and cursor_col
          cmd,      \* cmd_buf up to cmd_len
          pc,       \* where the shell loop is
          char,     \* the character tc_getchar has read
          rings,    \* entries in the command and in the response ring
          keys,     \* history: the keys accepted and not yet taken
          above,    \* history: how much of the line was there at the last output
          apart     \* history: screen and line have come apart since then

termVars == <<kb, screen, cmd, pc, char, rings, keys, above, apart>>
lineVars == <<screen, cmd, above, apart>>

Blank == " "
Mark == ">"

-----------------------------------------------------------------------------
(* The console                                                             *)

At(s) == s.row * Width + s.col

\* console_scroll: every line moves up, the last one is blank.
Scrolled(s) ==
  IF s.row < Height THEN s
  ELSE [cells |-> [i \in 0 .. (Width * Height - 1) |->
                     IF i + Width < Width * Height THEN s.cells[i + Width] ELSE Blank],
        row |-> Height - 1, col |-> s.col]

\* A character in the cell under the cursor, and the cursor in another place.
Shown(s, c) == [cells |-> [s.cells EXCEPT ![At(s)] = c], row |-> s.row, col |-> s.col]
Moved(s, r, c) == [cells |-> s.cells, row |-> r, col |-> c]

\* console_putc; a control character only goes to the serial line.
Putc(s, c) ==
  CASE c = "bs" -> Shown(IF s.col > 0 THEN Moved(s, s.row, s.col - 1)
                         ELSE IF s.row > 0 THEN Moved(s, s.row - 1, Width - 1)
                         ELSE s, Blank)
    [] c = "nl" -> Scrolled(Moved(s, s.row + 1, 0))
    [] c = "tab" -> s
    [] OTHER -> Scrolled(IF s.col + 1 >= Width THEN Moved(Shown(s, c), s.row + 1, 0)
                                               ELSE Moved(Shown(s, c), s.row, s.col + 1))

\* console_write
Write(s, str) ==
  LET upto[i \in 0 .. Len(str)] == IF i = 0 THEN s ELSE Putc(upto[i-1], str[i])
  IN upto[Len(str)]

\* console_cls
Cleared == [cells |-> [i \in 0 .. (Width * Height - 1) |-> Blank], row |-> 0, col |-> 0]

-----------------------------------------------------------------------------
(* The keyboard                                                            *)

Next1(i) == (i + 1) % KbSize

\* An interrupt ends a hlt; between the test for input and the hlt it does not.
Roused == IF pc = "halt" THEN "serve" ELSE pc

\* Mutant: a full ring is not noticed.
KeyPress_NoFull(c) ==
  /\ kb' = [kb EXCEPT !.buf[kb.head] = c, !.head = Next1(@)]
  /\ keys' = IF Len(keys) < KbSize THEN Append(keys, c) ELSE keys
  /\ pc' = Roused
  /\ UNCHANGED <<lineVars, char, rings>>

\* keyboard_handler for a key that has a character: dropped when the ring is
\* full.
KeyPress(c) ==
  LET n == Next1(kb.head) IN
  /\ IF n # kb.tail
     THEN /\ kb' = [kb EXCEPT !.buf[kb.head] = c, !.head = n]
          /\ keys' = Append(keys, c)
     ELSE UNCHANGED <<kb, keys>>
  /\ pc' = Roused
  /\ UNCHANGED <<lineVars, char, rings>>

\* Mutant: only a key wakes the shell.
TimerWake_Never == pc = "halt" /\ UNCHANGED termVars

\* Any other interrupt ends a hlt: a key release, shift, at least the timer.
TimerWake ==
  /\ pc = "halt"
  /\ pc' = Roused
  /\ UNCHANGED <<kb, lineVars, char, rings, keys>>

-----------------------------------------------------------------------------
(* The IPC rings                                                           *)

\* Lines of output that are not the shell's own: the cursor is in column 0
\* then, and the line typed so far is above it.
Output ==
  /\ screen' = Write(screen, <<"o", "nl">>)
  /\ above' = PromptLen + Len(cmd)
  /\ apart' = FALSE
  /\ UNCHANGED cmd

\* ipc_consume_one, the mock consumer: it takes a command, and answers it when
\* there is room for a response.
ConsumeOne ==
  /\ pc = "serve"
  /\ pc' = "drain"
  /\ IF rings.sent > 0
     THEN /\ Output
          /\ rings' = [sent |-> rings.sent - 1,
                       rsp |-> IF rings.rsp < RspMax THEN rings.rsp + 1 ELSE rings.rsp]
     ELSE UNCHANGED <<lineVars, rings>>
  /\ UNCHANGED <<kb, char, keys>>

\* The loop around ipc_poll_response, which prints each response.
PollResponse ==
  /\ pc = "drain"
  /\ IF rings.rsp > 0
     THEN Output /\ rings' = [rings EXCEPT !.rsp = @ - 1] /\ UNCHANGED pc
     ELSE pc' = "poll" /\ UNCHANGED <<lineVars, rings>>
  /\ UNCHANGED <<kb, char, keys>>

\* ipc_irq_handler: it prints all the responses there are.
RspInterrupt ==
  /\ rings.rsp > 0
  /\ Output
  /\ rings' = [rings EXCEPT !.rsp = 0]
  /\ pc' = Roused
  /\ UNCHANGED <<kb, char, keys>>

\* The bridge, when there is one, competes with the mock consumer; it may also
\* fail to answer.
BridgeTakes ==
  /\ rings.sent > 0
  /\ \E r \in {rings.rsp, rings.rsp + 1} \cap (0 .. RspMax) :
       rings' = [sent |-> rings.sent - 1, rsp |-> r]
  /\ UNCHANGED <<kb, lineVars, pc, char, keys>>

-----------------------------------------------------------------------------
(* The shell loop                                                          *)

Prompt == [i \in 1 .. PromptLen |-> Mark]
Prompted(s) == Write(s, <<"nl">> \o Prompt)          \* shell_prompt

TermInit ==
  /\ kb = [buf |-> [i \in 0 .. (KbSize - 1) |-> Blank], head |-> 0, tail |-> 0]
  /\ screen = Prompted(Cleared)
  /\ cmd = << >> /\ pc = "serve" /\ char = Blank /\ keys = << >>
  /\ rings \in [sent : 0 .. SentMax, rsp : 0 .. RspMax]
  /\ above = 0 /\ apart = FALSE

\* tc_has_input; tc_getchar then finds input and does not wait.
Poll ==
  /\ pc = "poll"
  /\ pc' = IF kb.head # kb.tail THEN "read" ELSE "rest"
  /\ UNCHANGED <<kb, lineVars, char, rings, keys>>

Read ==
  /\ pc = "read"
  /\ char' = kb.buf[kb.tail]
  /\ pc' = "take"
  /\ UNCHANGED <<kb, lineVars, rings, keys>>

\* A cell that was taken is not told apart from an empty one.
TakeKey ==
  /\ pc = "take"
  /\ kb' = [kb EXCEPT !.buf[kb.tail] = Blank, !.tail = Next1(@)]
  /\ keys' = Tail(keys)
  /\ pc' = "edit"
  /\ UNCHANGED <<lineVars, char, rings>>

\* run_command: nothing for an empty line; cls; or a line of output, and for
\* ping and model a command more in the ring if it has room.
CommandOutcomes(s) ==
  IF cmd = << >> THEN {[screen |-> s, sent |-> rings.sent]}
  ELSE {[screen |-> Cleared, sent |-> rings.sent]} \cup
       {[screen |-> Write(s, <<"o", "nl">>), sent |-> n] :
          n \in {rings.sent, rings.sent + 1} \cap (0 .. SentMax)}

\* shell_prompt after run_command
Enter ==
  /\ \E o \in CommandOutcomes(Putc(screen, "nl")) :
       /\ screen' = Prompted(o.screen)
       /\ rings' = [rings EXCEPT !.sent = o.sent]
  /\ cmd' = << >> /\ above' = 0 /\ apart' = FALSE

\* A backspace that goes on into the part of the line that output has left
\* above erases what does not belong to the line.
Back ==
  IF cmd # << >>
  THEN /\ cmd' = SubSeq(cmd, 1, Len(cmd) - 1)
       /\ screen' = Putc(screen, "bs")
       /\ apart' = (apart \/ above = PromptLen + Len(cmd))
       /\ UNCHANGED above
  ELSE UNCHANGED lineVars

\* A control character enters the buffer but not the screen.
Insert ==
  IF Len(cmd) < CmdMax
  THEN /\ cmd' = Append(cmd, char)
       /\ screen' = Putc(screen, char)
       /\ apart' = (apart \/ char = "tab")
       /\ UNCHANGED above
  ELSE UNCHANGED lineVars

Edit ==
  /\ pc = "edit"
  /\ \/ char = "nl" /\ Enter
     \/ char = "bs" /\ Back /\ UNCHANGED rings
     \/ char \notin {"nl", "bs"} /\ Insert /\ UNCHANGED rings
  /\ pc' = "rest"
  /\ char' = Blank
  /\ UNCHANGED <<kb, keys>>

Halt ==
  /\ pc = "rest"
  /\ pc' = "halt"
  /\ UNCHANGED <<kb, lineVars, char, rings, keys>>

ShellStep == ConsumeOne \/ PollResponse \/ Poll \/ Read \/ TakeKey \/ Edit \/ Halt

TermNext ==
  \/ \E c \in Letters \cup {"nl", "bs", "tab"} : KeyPress(c)
  \/ TimerWake \/ RspInterrupt \/ BridgeTakes \/ ShellStep

\* The shell keeps running and the timer keeps interrupting; nobody has to type.
TermFairness == WF_termVars(ShellStep) /\ WF_termVars(TimerWake)

TermSpec == TermInit /\ [][TermNext]_termVars /\ TermFairness

-----------------------------------------------------------------------------
(* What the terminal promises                                              *)

InRing(i) == (i - kb.tail) % KbSize < (kb.head - kb.tail) % KbSize

\* The ring holds the accepted keys in the order they were typed, although the
\* interrupt writes it between any two steps of the reader.
RingIsKeys ==
  /\ (kb.head - kb.tail) % KbSize = Len(keys)
  /\ \A i \in 1 .. Len(keys) : kb.buf[(kb.tail + i - 1) % KbSize] = keys[i]
  /\ pc = "take" => char = keys[1]

\* What stands before the cursor is the line being edited, prompt included: all
\* of it when nothing was printed since the prompt, and otherwise what was
\* typed since the last output; also when the line wraps, when the screen
\* scrolls under it and when backspace goes back over the end of a row.  The
\* rest of the line is above the output, although Enter runs all of it.  A
\* control character, or a backspace into the part that is above, breaks the
\* agreement until the next output or newline.
LineShown == ~apart =>
  LET line == Prompt \o cmd
      n == Len(line) - above
      from == At(screen) - n
  IN from >= 0 /\ \A i \in 1 .. n : screen.cells[from + i - 1] = line[above + i]

\* No key is lost or reordered on its way from the ring to the screen.
TerminalTrue == RingIsKeys /\ LineShown

\* A key in the ring is taken, also when it came between the test for input
\* and the hlt, as long as the timer interrupts.
KeyTaken == \A t \in 0 .. (KbSize - 1) :
  (kb.tail = t /\ keys # << >>) ~> kb.tail # t

=============================================================================
