------------------------------- MODULE DmaLog -------------------------------
(***************************************************************************)
(* Two processes meet in the kernel and in /tmp/rknpu_info. The driver's   *)
(* createRegCmd empties that file, allocates the buffers of an op, gives   *)
(* each a global flink name and logs name and DMA address; at the end of   *)
(* the op it closes the descriptor. dump.py opens a buffer by its name     *)
(* whenever its user likes, twice, and looks the name up in the file to    *)
(* label what it prints. When the file has no line for the name it takes   *)
(* the newest line for that number from other logs, which nobody empties:  *)
(* what the driver printed as it named the buffer, if its output went to   *)
(* one, and what other programs left.                                      *)
(*                                                                         *)
(* Names are the kernel's: an object keeps its name while some process has *)
(* a handle of it. An object is known by its DMA address.                  *)
(***************************************************************************)
EXTENDS HandleDmaMap

CONSTANTS
  Buffers,   \* buffers of an op, 4
  Name,      \* flink names, the first positive numbers
  Foreign    \* what other programs may have left in the logs

ASSUME LogAssumption ==
  /\ Buffers \in Nat \ {0}
  /\ Name \subseteq Nat \ {0}
  /\ \A left \in Foreign : /\ DOMAIN left \subseteq Name
                           /\ \A n \in DOMAIN left : left[n] \in Dma

VARIABLES
  pc,        \* the driver: "idle", "alloc", "flink", "log", "run"
  retried,   \* the last buffer is at its second attempt
  objects,   \* the driver's handles, each with its object
  held,      \* the handles of the buffers, in the order of allocation
  flinked,   \* how many of the buffers have been given a name
  table,     \* handle_dma_map
  file,      \* the FLINK lines of /tmp/rknpu_info
  captured,  \* the newest line for each name the driver's output left in a log
  told,      \* names whose present object has its line there
  foreign,   \* lines of other programs that count before those
  names,     \* the kernel's flink names, each with its object
  dump,      \* dump.py: "idle", "again", "decode"
  want,      \* the name dump_gem was called with
  opened,    \* objects dump.py has a handle of; it never closes one
  raw,       \* the object of the raw dump
  decoded,   \* the object decoded as register commands
  base       \* the address the decoded commands are labelled with

logVars == <<captured, told, foreign>>
driverVars == <<pc, retried, objects, held, flinked, table, file>>
dumpVars == <<dump, want, opened, raw, decoded, base>>
vars == <<driverVars, logVars, names, dumpVars>>

TypeOK ==
  /\ pc \in {"idle", "alloc", "flink", "log", "run"}
  /\ retried \in BOOLEAN
  /\ DOMAIN objects \subseteq Handle
  /\ \A h \in DOMAIN objects : objects[h] \in Dma
  /\ held \in Seq(Handle) /\ Len(held) <= Buffers
  /\ \A i \in DOMAIN held : held[i] \in DOMAIN objects
  /\ flinked \in 0..Len(held)
  /\ table \in Table
  /\ file \in Seq([flink : Name, dma : Dma])
  /\ DOMAIN captured \subseteq Name
  /\ \A n \in DOMAIN captured : captured[n] \in Dma
  /\ told \subseteq DOMAIN names
  /\ foreign \in Foreign
  /\ DOMAIN names \subseteq Name
  /\ \A n \in DOMAIN names : names[n] \in Dma
  /\ dump \in {"idle", "again", "decode"}
  /\ want \in Name \cup {None}
  /\ opened \subseteq Dma
  /\ raw \in Dma \cup {None}
  /\ decoded \in Dma \cup {None}
  /\ base \in Dma \cup {None}

Init ==
  /\ pc = "idle" /\ retried = FALSE
  /\ objects = Empty /\ held = <<>> /\ flinked = 0
  /\ table = <<>> /\ file = <<>>
  /\ captured = Empty /\ told = {} /\ foreign \in Foreign
  /\ names = Empty
  /\ dump = "idle" /\ want = None
  /\ opened = {} /\ raw = None /\ decoded = None /\ base = None

-----------------------------------------------------------------------------
(* The driver.                                                             *)

(* Mutant: the file of the op before is appended to.                       *)
CreateRegCmdKeepsFile ==
  /\ pc = "idle"
  /\ pc' = "alloc"
  /\ table' = <<>>
  /\ UNCHANGED <<retried, objects, held, flinked, file, logVars, names, dumpVars>>

(* The entry of createRegCmd: reset_handle_dma_map.                        *)
CreateRegCmd ==
  /\ pc = "idle"
  /\ pc' = "alloc"
  /\ table' = <<>> /\ file' = <<>>
  /\ UNCHANGED <<retried, objects, held, flinked, logVars, names, dumpVars>>

(* An object no process has.                                               *)
FreeDma == Dma \ (Values(objects) \cup opened)

Allocate ==
  /\ pc = "alloc"
  /\ Handle \ DOMAIN objects # {}
  /\ LET handle == NewHandle(DOMAIN objects)
     IN  \E dma \in FreeDma :
           /\ objects' = With(objects, handle, dma)
           /\ table' = StoreHandleDma(table, handle, dma)
           /\ held' = Append(held, handle)
  /\ pc' = IF Len(held) + 1 = Buffers THEN "flink" ELSE "alloc"
  /\ UNCHANGED <<retried, flinked, file, logVars, names, dumpVars>>

(* Mutant: the handles are not forgotten.                                  *)
CloseDeviceKeepsHeld ==
  /\ pc' = "idle" /\ retried' = FALSE
  /\ objects' = Empty /\ flinked' = 0
  /\ names' = Only(names, {n \in DOMAIN names : names[n] \in opened})
  /\ told' = told \cap DOMAIN names'
  /\ UNCHANGED <<held, table, file, captured, foreign, dumpVars>>

(* The objects of the driver die with the descriptor, and the names of     *)
(* objects nobody has any more with them.                                  *)
CloseDevice ==
  /\ pc' = "idle" /\ retried' = FALSE
  /\ objects' = Empty /\ held' = <<>> /\ flinked' = 0
  /\ names' = Only(names, {n \in DOMAIN names : names[n] \in opened})
  /\ told' = told \cap DOMAIN names'
  /\ UNCHANGED <<table, file, captured, foreign, dumpVars>>

(***************************************************************************)
(* mem_allocate fails before an object exists, or after it, when the       *)
(* destroy may fail and leave the handle. The last buffer is tried twice.  *)
(***************************************************************************)
AllocateFails ==
  /\ pc = "alloc"
  /\ IF Len(held) + 1 = Buffers /\ ~retried
       THEN /\ retried' = TRUE
            /\ \/ UNCHANGED objects
               \/ /\ Handle \ DOMAIN objects # {}
                  /\ \E dma \in FreeDma :
                       objects' = With(objects, NewHandle(DOMAIN objects), dma)
            /\ UNCHANGED <<pc, held, flinked, table, file, logVars, names, dumpVars>>
       ELSE CloseDevice

(* create_flink_name: the ioctl. An object has one name, the lowest free.  *)
FlinkIoctl ==
  /\ pc = "flink" /\ flinked < Buffers
  /\ Name \ DOMAIN names # {}
  /\ LET lowest == CHOOSE n \in Name \ DOMAIN names :
                     \A other \in Name \ DOMAIN names : n <= other
     IN  names' = With(names, lowest, objects[held[flinked + 1]])
  /\ pc' = "log"
  /\ UNCHANGED <<retried, objects, held, flinked, table, file, logVars, dumpVars>>

(* And the lines it writes when the handle is in the table: one to its     *)
(* output, which some log may capture, one appended to the file.           *)
FlinkLog ==
  /\ pc = "log"
  /\ LET handle == held[flinked + 1]
         name == CHOOSE n \in DOMAIN names : names[n] = objects[handle]
         dma == FindDma(table, handle)
     IN  IF Has(table, handle)
           THEN /\ file' = Append(file, [flink |-> name, dma |-> dma])
                /\ \/ /\ captured' = With(captured, name, dma)
                      /\ told' = told \cup {name}
                   \/ UNCHANGED <<captured, told>>
           ELSE UNCHANGED <<file, captured, told>>
  /\ flinked' = flinked + 1
  /\ pc' = "flink"
  /\ UNCHANGED <<retried, objects, held, table, foreign, names, dumpVars>>

(* After the last name, or the first that fails, the op goes on.           *)
FlinkDone ==
  /\ pc = "flink"
  /\ pc' = "run"
  /\ UNCHANGED <<retried, objects, held, flinked, table, file, logVars, names, dumpVars>>

Release == pc = "run" /\ CloseDevice

-----------------------------------------------------------------------------
(* dump.py.                                                                *)

(* Mutant: the handle is closed after the raw dump.                        *)
DumpRawCloses(name) ==
  /\ dump = "idle"
  /\ want' = name
  /\ decoded' = None /\ base' = None
  /\ IF name \in DOMAIN names
       THEN /\ raw' = names[name]
            /\ dump' = IF name = 1 THEN "idle" ELSE "again"
       ELSE /\ raw' = None
            /\ dump' = "again"
  /\ UNCHANGED <<driverVars, logVars, names, opened>>

(* dump_gem, the raw dump: DRM_IOCTL_GEM_OPEN by name. The task table of   *)
(* the op, name 1, gets no second look; a name that is not there does.     *)
DumpRaw(name) ==
  /\ dump = "idle"
  /\ want' = name
  /\ decoded' = None /\ base' = None
  /\ IF name \in DOMAIN names
       THEN /\ opened' = opened \cup {names[name]}
            /\ raw' = names[name]
            /\ dump' = IF name = 1 THEN "idle" ELSE "again"
       ELSE /\ raw' = None
            /\ dump' = "again"
            /\ UNCHANGED opened
  /\ UNCHANGED <<driverVars, logVars, names>>

(* The second open by the same name.                                       *)
DumpDecode ==
  /\ dump = "again"
  /\ IF want \in DOMAIN names
       THEN /\ opened' = opened \cup {names[want]}
            /\ decoded' = names[want]
            /\ dump' = "decode"
       ELSE dump' = "idle" /\ UNCHANGED <<opened, decoded>>
  /\ UNCHANGED <<driverVars, logVars, names, want, raw, base>>

FileLines(name) == {i \in DOMAIN file : file[i].flink = name}

(***************************************************************************)
(* lookup_dma_addr_from_logs. _lookup_dma_from_tmp has the last line with  *)
(* the name. When there is none the other logs are read again: a line with *)
(* a time, which the vendor's runtime prints, or in a log that is read     *)
(* later counts before what the driver printed. A name nobody logged is    *)
(* labelled with the offset of the mapping, which is no buffer's address.  *)
(* A buffer without register commands is not looked up.                    *)
(***************************************************************************)
DumpLookup ==
  /\ dump = "decode"
  /\ LET lines == FileLines(want)
     IN  base' = IF lines # {}
                   THEN file[CHOOSE i \in lines : \A j \in lines : j <= i].dma
                 ELSE IF want \in DOMAIN foreign THEN foreign[want]
                 ELSE IF want \in DOMAIN captured THEN captured[want]
                 ELSE None
  /\ dump' = "idle"
  /\ UNCHANGED <<driverVars, logVars, names, want, opened, raw, decoded>>

DumpSkips ==
  /\ dump = "decode"
  /\ dump' = "idle"
  /\ UNCHANGED <<driverVars, logVars, names, want, opened, raw, decoded, base>>

(* dump.py ends; it can be started again.                                  *)
DumpExits ==
  /\ dump = "idle"
  /\ opened' = {}
  /\ names' = Only(names, {n \in DOMAIN names : names[n] \in Values(objects)})
  /\ told' = told \cap DOMAIN names'
  /\ want' = None /\ raw' = None /\ decoded' = None /\ base' = None
  /\ UNCHANGED <<driverVars, captured, foreign, dump>>

-----------------------------------------------------------------------------
Driver == \/ CreateRegCmd \/ Allocate \/ AllocateFails
          \/ FlinkIoctl \/ FlinkLog \/ FlinkDone \/ Release

Dumper == \/ \E n \in Name : DumpRaw(n)
          \/ DumpDecode \/ DumpLookup \/ DumpSkips \/ DumpExits

Next == Driver \/ Dumper

Spec == Init /\ [][Next]_vars

-----------------------------------------------------------------------------
(***************************************************************************)
(* The address dump.py labels the register commands with is the one of the *)
(* buffer they come from, whenever the file has a line for the name, or,   *)
(* when ops began, ended and emptied the file between its open and its     *)
(* look, the line the driver printed for the buffer was captured and no    *)
(* other program's line for the name counts before it. Of older buffers    *)
(* that had the name the file has no line and the logs no newer one.       *)
(***************************************************************************)
BaseIsOwn ==
  [][DumpLookup /\ (FileLines(want) # {} \/ want \in told \ DOMAIN foreign)
       => base' = decoded]_vars

(***************************************************************************)
(* The raw dump and the decoded dump of one call are of the same buffer,   *)
(* although the name is resolved twice.                                    *)
(***************************************************************************)
SameBuffer == raw # None /\ decoded # None => raw = decoded

(***************************************************************************)
(* While an op runs, every buffer that has been named is in the file, with *)
(* its name and its own address: a handle given out again in this op, or   *)
(* after a failed attempt, is never logged with an older address.          *)
(***************************************************************************)
NamedAreLogged ==
  \A i \in 1..flinked : \E line \in DOMAIN file :
    /\ file[line].dma = objects[held[i]]
    /\ file[line].flink \in DOMAIN names
    /\ names[file[line].flink] = file[line].dma
=============================================================================
