------------------------- MODULE ObservationImport --------------------------
(***************************************************************************)
(* Import of internal/observation: the collector's directory is listed     *)
(* entry by entry, read through two manifests, and listed again, while     *)
(* another process of the same user may change it. An entry is its content *)
(* and a stamp: the identity the code compares, which includes the change  *)
(* time, so that a change gives a new one.                                 *)
(***************************************************************************)
EXTENDS Writer, FiniteSets, Sequences, TLC

CONSTANT MaxEntries  \* the bound on directory entries

VARIABLES disk,     \* what each entry holds, "none" if it is not there
          stamp,    \* the identity of each entry and of the root
          listing,  \* the entries of each directory still to be looked at
          looking,  \* the entry looked at or read, with its identity
          noted,    \* the inventory being made: the identity of each entry
          first,    \* the first inventory
          cache,    \* the bytes read so far
          queue,    \* the files of the root manifest that are still to be read
          shifted     \* ghost: entries changed between the two looks at them

importVars == <<disk, stamp, listing, looking, noted, first, cache, queue, shifted>>

Top == "root"
RootFiles == {"manifest", "index", "stray"}
ContextFiles == {"contextManifest", "server", "extra"}
ObservedFiles == RootFiles \cup ContextFiles
ObservedEntries == ObservedFiles \cup {"context"}
ParentOf(e) == IF e \in ContextFiles THEN "context" ELSE Top

NotSeen == [e \in ObservedEntries \cup {Top} |-> 0]
Blank == [f \in ObservedFiles |-> "none"]

\* A collected directory whose contents are c; only "b" has the extra file,
\* and no manifest lists the stray one.
Collected(c) == [e \in ObservedEntries |-> IF e = "extra" /\ c = "b" THEN "a" ELSE IF e \in {"extra", "stray"} THEN "none"
                                   ELSE IF e = "index" THEN "a" ELSE c]
ImportTrees == {Collected("a"), Collected("b"), [Collected("a") EXCEPT !["extra"] = "a"],
                [Collected("a") EXCEPT !["index"] = "b"],
                [Collected("b") EXCEPT !["contextManifest"] = "a"]}

\* The files a manifest lists, in the manifest's order, and the content
\* whose digest it gives. Neither manifest is listed in either of them.
Listed(m, c) == (IF c = "b" THEN <<"extra">> ELSE << >>) \o <<"server">>
                  \o (IF m = "manifest" THEN <<"index">> ELSE << >>)
DigestOf(c, f) == IF f = "server" THEN c ELSE "a"

ImportInit ==
  /\ disk \in ImportTrees /\ stamp = [e \in ObservedEntries \cup {Top} |-> 1]
  /\ listing = [root |-> {}, context |-> {}] /\ looking = <<Top, 0>>
  /\ noted = NotSeen /\ first = NotSeen /\ cache = Blank /\ queue = << >> /\ shifted = {}

-----------------------------------------------------------------------------
(* The other process. A rewrite changes the file, a replacement, an         *)
(* addition, a removal or a rename its directory too.                       *)
Between(e) ==
  \/ first = NotSeen /\ noted[e] # 0
  \/ first # NotSeen /\ first[e] # 0 /\ (noted[e] = 0 \/ pc \in {"read", "data", "verify", "context", "project", "again"})

Changes(es) ==
  /\ Edit /\ UNCHANGED <<listing, looking, noted, first, cache, queue>>
  /\ stamp' = [e \in DOMAIN stamp |-> IF e \in es THEN edits + 2 ELSE stamp[e]]
  /\ shifted' = shifted \cup {e \in es : Between(e)}

Rewritten == {<<"contextManifest", "a">>, <<"contextManifest", "b">>, <<"server", "a">>, <<"server", "b">>,
              <<"server", "big">>}
Meddling ==
  \/ \E w \in Rewritten : \E replaced \in SUBSET {ParentOf(w[1])} :
       /\ disk[w[1]] # "none" /\ disk' = [disk EXCEPT ![w[1]] = w[2]]
       /\ Changes({w[1]} \cup replaced)
  \/ \E e \in {"extra", "stray", "context"} :
       /\ disk' = [disk EXCEPT ![e] = IF @ = "none" THEN "a" ELSE "none"]
       /\ Changes({e, ParentOf(e)})

-----------------------------------------------------------------------------
(* inventoryFiles: the root is opened through the retained descriptor, its  *)
(* entries are listed at once and looked at in any order; a directory is    *)
(* walked where it is met and looked at again when its walk is over.        *)
Unread == <<disk, stamp, first, cache, queue, shifted>>
Refuse == Works /\ Return("err") /\ UNCHANGED importVars
Failing(at) == pc = at /\ Fails /\ Return("err") /\ UNCHANGED importVars

OwnedSnapshot ==
  \/ /\ pc \in {"import", "again"} /\ Works /\ UNCHANGED <<Unread, listing, looking>>
     /\ noted' = [NotSeen EXCEPT ![Top] = stamp[Top]] /\ Go("list")
  \/ Failing("import") \/ Failing("again")

ListDirectory ==
  \/ /\ pc = "list" /\ Works /\ UNCHANGED <<Unread, looking, noted>> /\ Go("walk")
     /\ listing' = [listing EXCEPT !.root = {e \in RootFiles \cup {"context"} : disk[e] # "none"}]
  \/ /\ pc = "listContext" /\ Works /\ UNCHANGED <<Unread, looking, noted>> /\ Go("walkContext")
     /\ listing' = [listing EXCEPT !.context = {e \in ContextFiles : disk[e] # "none"}]
  \/ Failing("list") \/ Failing("listContext")

ToVisit == IF pc = "walk" THEN listing.root ELSE listing.context

StatEntry ==
  /\ pc \in {"walk", "walkContext"}
  /\ \E e \in ToVisit :
       IF disk[e] = "none" \/ Cardinality({x \in ObservedEntries : noted[x] # 0}) >= MaxEntries
         THEN Refuse
         ELSE /\ Works /\ looking' = <<e, stamp[e]>> /\ Go("open")
              /\ UNCHANGED <<Unread, listing, noted>>

\* observationOpenBoundFile and observationOpenBoundDirectory: the opened
\* entry and the name, looked at again, are the entry that was looked at.
OpenBound(e) == disk[e] # "none" /\ stamp[e] = looking[2]

\* A file that is too large is refused here.
OpenEntry ==
  /\ pc = "open"
  /\ LET e == looking[1] IN
     IF ~OpenBound(e) \/ disk[e] = "big"
       THEN Refuse
       ELSE /\ Works /\ noted' = [noted EXCEPT ![e] = stamp[e]]
            /\ listing' = [root |-> listing.root \ {e}, context |-> listing.context \ {e}]
            /\ Go(IF e = "context" THEN "listContext" ELSE IF e \in RootFiles THEN "walk" ELSE "walkContext")
            /\ UNCHANGED <<Unread, looking>>

LeaveDirectory ==
  /\ pc = "walkContext" /\ listing.context = {}
  /\ IF disk["context"] = "none" \/ stamp["context"] # noted["context"]
       THEN Refuse
       ELSE Works /\ Go("walk") /\ UNCHANGED importVars

EndInventory ==
  /\ pc = "walk" /\ listing.root = {} /\ first = NotSeen
  /\ IF stamp[Top] # noted[Top]
       THEN Refuse
       ELSE /\ Works /\ first' = noted /\ looking' = <<"manifest", 0>> /\ Go("read")
            /\ UNCHANGED <<disk, stamp, listing, noted, cache, queue, shifted>>

\* A second inventory whose outcome is not compared with the first.
InventoryAgain(second) == TRUE

\* sameInventory, the total and the root's identity
SameInventory(second) == second = first

EndSecondInventory ==
  /\ pc = "walk" /\ listing.root = {} /\ first # NotSeen
  /\ IF stamp[Top] = noted[Top] /\ SameInventory(noted)
       THEN Works /\ Return("ok") /\ UNCHANGED importVars
       ELSE Refuse

-----------------------------------------------------------------------------
(* readRelativeFile: the root, the directory and the file are those of the  *)
(* first inventory before the bytes are read, and still are afterwards.     *)
AsInventoried(f) ==
  /\ disk[f] # "none" /\ (f \in ContextFiles => disk["context"] # "none")
  /\ \A e \in {f, ParentOf(f), Top} : stamp[e] = first[e]

Read == /\ pc = "read"
        /\ IF AsInventoried(looking[1])
             THEN Works /\ Go("data") /\ UNCHANGED importVars
             ELSE Refuse

ReadBytes ==
  \/ /\ pc = "data" /\ Works /\ Go("verify")
     /\ cache' = [cache EXCEPT ![looking[1]] = disk[looking[1]]]
     /\ UNCHANGED <<disk, stamp, listing, looking, noted, first, queue, shifted>>
  \/ Failing("data")

\* exactFileSet: the files are the listed ones and the allowed ones.
ExactFileSet(files, listed, allowed) == /\ files \subseteq listed \cup allowed
                                        /\ Cardinality(listed \cup allowed) = Cardinality(files)

Inventoried == {f \in ObservedFiles : first[f] # 0}
ElementsOf(s) == {s[i] : i \in 1..Len(s)}
RootListed == ElementsOf(Listed("manifest", cache["manifest"]))

\* After the bytes of a file: the root manifest gives the files to read, each
\* of which has the digest listed there.
VerifyRead ==
  /\ pc = "verify"
  /\ LET f == looking[1]
         left == IF f = "manifest" THEN Listed(f, cache[f]) ELSE queue
     IN IF \/ ~AsInventoried(f)
           \/ f \in {"extra", "server", "index"} /\ cache[f] # DigestOf(cache["manifest"], f)
          THEN Refuse
          ELSE /\ Works /\ UNCHANGED <<disk, stamp, listing, noted, first, cache, shifted>>
               /\ IF f # "contextManifest" /\ left # << >>
                    THEN looking' = <<Head(left), 0>> /\ queue' = Tail(left) /\ Go("read")
                    ELSE UNCHANGED <<looking, queue>>
                         /\ Go(IF f = "contextManifest" THEN "project" ELSE "context")

\* index.json names exactly one context, and the root manifest covers the
\* tree but for the manifest of that context, which is read next.
OpenIndex ==
  /\ pc = "context"
  /\ IF cache["index"] = "a" /\ ExactFileSet(Inventoried, RootListed, {"manifest", "contextManifest"})
       THEN /\ Works /\ looking' = <<"contextManifest", 0>> /\ Go("read")
            /\ UNCHANGED <<disk, stamp, listing, noted, first, cache, queue, shifted>>
       ELSE Refuse

\* The manifest of the context lists its files again; their bytes are in the
\* cache. projectContext then reads only the cache.
ReadContext ==
  /\ pc = "project"
  /\ LET c == cache["contextManifest"]
         listed == ElementsOf(Listed("contextManifest", c))
     IN IF /\ \A f \in listed : cache[f] = DigestOf(c, f)
           /\ ExactFileSet(Inventoried \cap ContextFiles, listed, {"contextManifest"})
          THEN Works /\ Go("again") /\ UNCHANGED importVars
          ELSE Refuse

ImportSteps ==
  \/ OwnedSnapshot \/ ListDirectory \/ StatEntry \/ OpenEntry \/ LeaveDirectory
  \/ EndInventory \/ EndSecondInventory \/ Read \/ ReadBytes \/ VerifyRead
  \/ OpenIndex \/ ReadContext \/ Meddling
=============================================================================
