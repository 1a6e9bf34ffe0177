-------------------------------- MODULE Store --------------------------------
(***************************************************************************)
(* The store of crates/termproof/src/store.rs: the names of run            *)
(* directories and the files in them. One process runs, so the process id  *)
(* in a name is left out.                                                  *)
(***************************************************************************)
EXTENDS Naturals

CONSTANTS
  Readings,  \* what the two looks of new_run_dir at the local wall clock may yield
  Unnamed    \* the place of what new_run_dir has not come to yet

ASSUME StoreAssumption == Unnamed \notin Readings

VARIABLES
  disk,    \* from the paths that exist to what is in the file
  dir      \* the run directories named, by plan position

storeVars == <<disk, dir>>

\* sanitize_component: here the names 1 and 2 differ in a character it replaces, as
\* do 3 and 4.
SafeName(name) == (name + 1) \div 2

RunDir(item, read) ==
  [name |-> SafeName(item.name), renderer |-> item.renderer, read |-> read]

StoreInit ==
  /\ disk = [path \in {} |-> <<>>]
  /\ dir = <<>>

\* new_run_dir takes the microsecond and some bits of the nanosecond from the clock.
\* It is the local time of day, which may be set back and repeats an hour each autumn:
\* a reading says nothing of the ones before.
NewRunDir(i, item) ==
  /\ dir[i] = Unnamed
  /\ \E read \in Readings : dir' = [dir EXCEPT ![i] = RunDir(item, read)]
  /\ UNCHANGED disk

Path(d, file) == [dir |-> d, file |-> file]

Exists(path) == path \in DOMAIN disk

\* atomic_write: the rename is all that others see of it.
Write(path, content) ==
  disk' = [p \in DOMAIN disk \cup {path} |-> IF p = path THEN content ELSE disk[p]]

\* Several files of one directory; those of `gone` could not be written.
WriteAll(d, files, gone, content) ==
  LET written == {Path(d, f) : f \in files}
      removed == {Path(d, f) : f \in gone}
  IN disk' = [p \in (DOMAIN disk \ removed) \cup written |->
                IF p \in written THEN content ELSE disk[p]]

\* When the rename fails, the file in its place is removed before the second try.
WriteFails(path) ==
  \/ UNCHANGED disk
  \/ disk' = [p \in DOMAIN disk \ {path} |-> disk[p]]

=============================================================================
