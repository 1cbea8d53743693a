--------------------------- MODULE ScratchBuffer ---------------------------
(***************************************************************************)
(* Lex/ScratchBuffer: the text of tokens that are in no file, made by      *)
(* stringification, token pasting and the builtin macros, is put into      *)
(* buffers of its own, so that every token has a location.                 *)
(*                                                                         *)
(* `buffers' are the memory buffers in the order they were made, each with *)
(* its size and its bytes: one more than the size, because a MemoryBuffer  *)
(* has a nul beyond it, and still more if somebody writes further.  A      *)
(* location is a buffer and an offset in it; `tokens' is the ghost list of *)
(* what getToken returned.  ScratchBufSize is 4060.                        *)
(***************************************************************************)
EXTENDS Integers, Sequences

CONSTANTS ScratchBufSize, Nul, Newline, Zero

Created == [buffers |-> <<>>, BytesUsed |-> ScratchBufSize, tokens |-> <<>>]

\* A zeroed buffer, at least of the usual size; its first byte is the digit 0.
AllocScratchBuffer(scratch, RequestLen) ==
  LET size == IF RequestLen < ScratchBufSize THEN ScratchBufSize ELSE RequestLen
  IN [scratch EXCEPT !.buffers = Append(@, [size |-> size,
                                           bytes |-> [i \in 1..(size + 1) |-> IF i = 1 THEN Zero ELSE Nul]]),
                     !.BytesUsed = 1]

\* A newline, the text and a nul, and the location of the text.
getToken(scratch0, text) ==
  LET len == Len(text)
      scratch == IF scratch0.BytesUsed + len + 2 > ScratchBufSize
                 THEN AllocScratchBuffer(scratch0, len + 2) ELSE scratch0
      last == Len(scratch.buffers)
      start == scratch.BytesUsed + 1
      used == start + len + 1
      Written(bytes) ==
        [i \in 1..(IF used > Len(bytes) THEN used ELSE Len(bytes)) |->
           CASE i = start -> Newline
             [] i > start /\ i <= start + len -> text[i - start]
             [] i = used -> Nul
             [] OTHER -> bytes[i]]
  IN [scratch EXCEPT !.buffers[last].bytes = Written(@), !.BytesUsed = used,
                     !.tokens = Append(@, [buffer |-> last, offset |-> used - len - 1, text |-> text])]
=============================================================================
