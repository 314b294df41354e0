------------------------------ MODULE MCLoader ------------------------------
(* Blocks of four bytes.  The archives are made from the sizes of up to    *)
(* two files before the wanted one, from nothing to more than two blocks,  *)
(* and from what the code reads as a size in a block of contents.          *)
EXTENDS Loader

(* Octal digits of a size below 64, with leading zeros.                    *)
Octal(n) == <<0, n \div 8, n % 8>>

MCHeader(name, bytes) == <<[name |-> name, size |-> Octal(bytes), bytes |-> bytes]>>
MCContents(n, junk) == [i \in 1 .. n |-> [name |-> "contents", size |-> junk, bytes |-> Contents]]

MCFile(name, bytes, junk) == MCHeader(name, bytes) \o MCContents(Occupied(bytes), junk)

MCSizes == {0, 1, 4, 5, 8, 9, 12, 13}
MCJunk  == {<<0>>, <<-40, 7>>, <<1, 2>>, <<9, 9, 9>>}

MCArchives ==
  {MCFile("a", n, junk) \o MCFile("b", m, junk) \o MCFile("hello", 10, junk) \o MCFile("", 0, junk) :
     n \in MCSizes, m \in MCSizes, junk \in MCJunk}
  \cup {MCFile("hello", 4, <<0>>) \o MCFile("hello", 8, <<0>>), MCFile("a", 8, <<0>>)}

Segment(vaddr, memsz, flags) ==
  [type |-> "PT_LOAD", vaddr |-> vaddr, memsz |-> memsz, flags |-> flags]
Note == [type |-> "other", vaddr |-> 0, memsz |-> 0, flags |-> {}]

(* Pages of four bytes: code of one page and of two, the entry at its      *)
(* start, in its middle, and in another segment; data that is executable   *)
(* or not.                                                                 *)
MCPrograms ==
  {[entry |-> e, phdrs |-> <<Segment(4, n, {"R", "X"}), Note, Segment(40, 2, f), Note>>] :
     e \in {4, 6, 40}, n \in {2, 4, 5}, f \in {{"R", "W"}, {"R", "W", "X"}}}

(* Every archive with one program, and one archive with every program.     *)
MCImages ==
  LET plain == CHOOSE p \in MCPrograms : p.entry = 4 /\ p.phdrs[1].memsz = 5
      short == MCFile("hello", 4, <<0>>) \o MCFile("hello", 8, <<0>>)
  IN  (MCArchives \X {plain}) \cup ({short} \X MCPrograms)

MCFrames == 0 .. 45
MCRam == 6 .. 45
MCClear == {[f \in MCFrames |-> Empty]}

=============================================================================
