----------------------------- MODULE LineAssembly -----------------------------
(***************************************************************************)
(* How src/usb_host_cdc.c cuts the bytes grblHAL sends into the lines that *)
(* on_line gets.  A text character is told apart only by its position in   *)
(* what was received, so that a piece of text handed over shows where it   *)
(* came from.                                                              *)
(***************************************************************************)
EXTENDS Integers, Sequences, FiniteSets

CONSTANTS LINE_BUF_LEN,     \* size of line_buf, one place of which is for the '\0'
          MaxReceived       \* bound on what is received

ASSUME LengthsAssumption == LINE_BUF_LEN \in Nat \ {0, 1} /\ MaxReceived \in Nat

VARIABLES is_mounted,       \* mounted_idx # 0xFF
          line_buf,         \* line_buf[0..line_len-1]
          received,         \* history: what came in, and where the device came and went
          lines             \* history: the text handed to line_cb, call by call

assembly == <<is_mounted, line_buf, received, lines>>

Events == {"text", "cr", "newline", "mount", "unmount"}

AssemblyTypeOK ==
    /\ is_mounted \in BOOLEAN
    /\ line_buf \in Seq(1 .. MaxReceived) /\ Len(line_buf) < LINE_BUF_LEN
    /\ received \in Seq(Events)
    /\ lines \in Seq(Seq(1 .. MaxReceived))

AssemblyInit == is_mounted = FALSE /\ line_buf = <<>> /\ received = <<>> /\ lines = <<>>
-------------------------------------------------------------------------------
Happens(event) ==
    /\ Len(received) < MaxReceived
    /\ received' = Append(received, event)

MountCb ==
    /\ ~is_mounted
    /\ Happens("mount")
    /\ is_mounted' = TRUE
    /\ line_buf' = <<>>
    /\ UNCHANGED lines

\* tuh_cdc_umount_cb: what was assembled of an unfinished line is dropped.
UnmountCb ==
    /\ is_mounted
    /\ Happens("unmount")
    /\ is_mounted' = FALSE
    /\ line_buf' = <<>>
    /\ UNCHANGED lines

HandOver == lines' = Append(lines, line_buf) /\ line_buf' = <<>>

CarriageReturn ==
    /\ is_mounted
    /\ Happens("cr")
    /\ UNCHANGED <<is_mounted, line_buf, lines>>

\* Mutant: line_len is not reset after a line.
EndLineKeepingBuffer ==
    /\ IF line_buf # <<>> THEN lines' = Append(lines, line_buf) ELSE UNCHANGED lines
    /\ UNCHANGED line_buf

EndLine == IF line_buf # <<>> THEN HandOver ELSE UNCHANGED <<line_buf, lines>>

LineFeed ==
    /\ is_mounted
    /\ Happens("newline")
    /\ EndLine
    /\ UNCHANGED is_mounted

\* Mutant: the buffer is handed over one early.
BufferFullOneEarly == Len(line_buf) >= LINE_BUF_LEN - 2

BufferFull == Len(line_buf) >= LINE_BUF_LEN - 1

\* The character that does not fit makes the buffer be handed over, and goes nowhere itself.
TextCharacter ==
    /\ is_mounted
    /\ Happens("text")
    /\ IF BufferFull
       THEN HandOver
       ELSE line_buf' = Append(line_buf, Len(received')) /\ UNCHANGED lines
    /\ UNCHANGED is_mounted

AssemblyNext == MountCb \/ UnmountCb \/ CarriageReturn \/ LineFeed \/ TextCharacter

AssemblySpec == AssemblyInit /\ [][AssemblyNext]_assembly
-------------------------------------------------------------------------------
Chars(piece) == {piece[i] : i \in DOMAIN piece}
IsEnd(p) == received[p] \in {"newline", "mount", "unmount"}

\* The text of the line that a character at p belongs to, as far as it came before p.
TextBefore(p) ==
    {q \in 1 .. p - 1 : received[q] = "text" /\ \A e \in q .. p - 1 : ~IsEnd(e)}

\* What on_line gets, piece after piece, is the text as it came in: never text of two lines
\* or of two devices in one piece, nothing twice, nothing out of order, and never more than
\* line_buf holds.
PiecesAreTextInOrder ==
    /\ AssemblyTypeOK
    /\ \A n \in DOMAIN lines :
          /\ lines[n] # <<>>
          /\ LET first == lines[n][1]
                 last  == lines[n][Len(lines[n])]
             IN  Chars(lines[n]) = {last} \cup (TextBefore(last) \cap first .. last)
    /\ \A m, n \in DOMAIN lines : m < n => lines[m][Len(lines[m])] < lines[n][1]

\* A line that fits line_buf reaches on_line whole (usb_host_cdc.h:33): "ok" is never cut.
ShortLinesComeWhole ==
    \A p \in DOMAIN received :
        received[p] = "newline" /\ Cardinality(TextBefore(p)) \in 1 .. LINE_BUF_LEN - 1
        => \E n \in DOMAIN lines : Chars(lines[n]) = TextBefore(p)
===============================================================================
