-------------------------------- MODULE Page --------------------------------
(***************************************************************************)
(* The layout of a page of cells: the header and the pointers of           *)
(* crates/vexra-storage/src/format.rs, PageCache::write_cell and           *)
(* CachedPage::cell_data.                                                  *)
(*                                                                         *)
(* The image of a page is the sequence of its writes, each of a range of   *)
(* bytes: what is read back is what was written last to that very range,   *)
(* and torn bytes when only a part of it was.  The header, written as a    *)
(* whole by every call, is also there as the fields free and cells.        *)
(***************************************************************************)
EXTENDS Integers, Sequences, FiniteSetsExt

CONSTANTS
  HeaderSize,   \* PAGE_HEADER_SIZE
  PointerSize,  \* CELL_POINTER_SIZE
  MaxCells,     \* MAX_CELLS_PER_PAGE
  Width         \* the numbers below it fit a u16

ASSUME PageConstants ==
  /\ HeaderSize \in Nat /\ MaxCells \in Nat
  /\ PointerSize \in Nat \ {0} /\ Width \in Nat \ {0}

DataStart == HeaderSize + MaxCells * PointerSize

Torn == [torn |-> TRUE]
Header == [at |-> 0, len |-> HeaderSize, what |-> Torn]

NewPage(size) ==
  [size |-> size, free |-> DataStart, cells |-> 0, image |-> <<Header>>]

\* u16 arithmetic: the length of a cell is cut off, the end of a cell wraps.
Cast(n) == n % Width

HasRoom(p, needed) == p.cells < MaxCells /\ p.free + needed <= p.size

PointerAt(index) == HeaderSize + index * PointerSize

CellAtFirst(p, len) == DataStart
CellStart(p, len) == p.free

\* Copying a slice into one of another length, or into one that ends before it
\* begins, panics; nothing has been written then.
Panics(p, len) ==
  \/ Cast(len) # len
  \/ Cast(CellStart(p, len) + Cast(len)) < CellStart(p, len)

\* write_cell of len bytes, at an explicit index or behind the others.  Its
\* result is that of the call and the page after it.
NoIndex == -1
WriteCell(p, len, index, what) ==
  LET at == CellStart(p, len)
      i == IF index = NoIndex THEN p.cells ELSE index
      data == [at |-> at, len |-> len, what |-> what]
      pointer == [at |-> PointerAt(i), len |-> PointerSize,
                  what |-> [at |-> at, len |-> len]]
  IN IF ~HasRoom(p, Cast(len)) THEN [result |-> "full", page |-> p]
     ELSE IF Panics(p, len) THEN [result |-> "panic", page |-> p]
     ELSE [result |-> "written",
           page |-> [size |-> p.size, free |-> at + len,
                     cells |-> IF index = NoIndex THEN p.cells + 1 ELSE p.cells,
                     image |-> p.image \o <<data, pointer, Header>>]]

\* The bytes of a range, a slice of the page's data.
ReadBytes(p, at, len) ==
  LET Overlaps(r) == r.at < at + len /\ at < r.at + r.len
      writes == {n \in DOMAIN p.image : Overlaps(p.image[n])}
      last == p.image[Max(writes)]
  IN IF writes # {} /\ last.at = at /\ last.len = len THEN last.what ELSE Torn

\* A pointer and the cell it leads to, whether or not the header counts it.
ReadSlot(p, index) ==
  LET pointer == ReadBytes(p, PointerAt(index), PointerSize)
  IN IF "at" \in DOMAIN pointer THEN ReadBytes(p, pointer.at, pointer.len)
                                ELSE Torn

\* cell_data: the first cell has index 0.
CellData(p, index) == IF index < p.cells THEN ReadSlot(p, index) ELSE "none"
=============================================================================
