------------------------------- MODULE MCPic --------------------------------
(***************************************************************************)
(* A small instance of Pic: the keyboard line 1, line 3, and the line 8 of *)
(* the second controller.                                                 *)
(***************************************************************************)
EXTENDS Pic

\* Port 20h: ICW1 with ICW4, EOI, specific EOI of line 3, rotate off.  Port
\* A0h: EOI, special mask on and off, ICW1 of a single controller.
MCCommandWrites ==
  ({0} \X {17, 32, 99, 0}) \cup ({1} \X {32, 104, 72, 18})

\* Port 21h: as masks, line 0, lines 0 and 1, the cascade line 2; as ICW4,
\* normal and automatic EOI.  Port A1h: as masks, nothing and line 8; as ICW4, normal EOI.
MCDataWrites == ({0} \X {1, 3, 4}) \cup ({1} \X {0, 1})

=============================================================================
