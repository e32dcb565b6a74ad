--------------------------- MODULE MCServerImage ----------------------------
(***************************************************************************)
(* Executables of a text segment, a header that is not loaded, .bss and a  *)
(* read-only segment, laid out as linker.ld does, with pages of four       *)
(* bytes.                                                                  *)
(***************************************************************************)
EXTENDS ServerImage

Roundup(x) == DivRoundup(x, 4) * 4

Section(bss, addr, offset, size, flags) ==
  [bss |-> bss, addr |-> addr, offset |-> offset, size |-> size, flags |-> flags]

Segment(load, vaddr, offset, filesz, flags) ==
  [load |-> load, vaddr |-> vaddr, offset |-> offset, filesz |-> filesz, flags |-> flags]

Server(text, bss, rodata, length, valid) ==
  LET vaddr == 32
      bssAt == Roundup(vaddr + text)
      roAt == bssAt + Roundup(bss)
  IN  [length |-> length, valid |-> valid, entry |-> vaddr,
       shoff |-> 1, shstrndx |-> 3, phoff |-> 5,
       shdrs |-> <<Section(FALSE, vaddr, 9, text, 6), Section(TRUE, bssAt, 0, 0, 3),
                   Section(FALSE, 0, 8, 1, 0), Section(TRUE, bssAt, 0, bss, 3)>>,
       phdrs |-> <<Segment(TRUE, vaddr, 9, text, 5), Segment(FALSE, vaddr, 9, 1, 4),
                   Segment(TRUE, roAt, 9 + text, rodata, 4)>>]

MCFiles ==
  {Server(text, bss, rodata, length, valid) :
     text \in {0, 3, 4, 6, 8, 9}, bss \in {0, 1, 5},
     rodata \in {0, 2, 4, 7}, length \in {0, 4, 7, 8, 16, 30}, valid \in BOOLEAN}
=============================================================================
