----------------------------- MODULE TarStream -----------------------------
(***************************************************************************)
(* distbuild/pkg/tarstream/stream.go: Send walks a directory into a stream *)
(* of headers and data, Receive puts it up again somewhere else, while     *)
(* other processes write to the files that are sent and the connection may *)
(* break.  A file is a sequence of blocks.                                 *)
(***************************************************************************)
EXTENDS Integers, Sequences

CONSTANTS
  TAWalk,      \* the paths of the directory in the order of filepath.Walk
  TAParent,    \* the directory each of them is in, "." for the top
  TAContents,  \* what the files may hold
  TAFiles,     \* the paths that are files
  TALeftovers  \* [dirs, files] that may be in the directory of the receiver

\* Walk comes to no path twice.
ASSUME TAAssumption ==
  /\ TAWalk \in Seq({TAWalk[i] : i \in DOMAIN TAWalk})
  /\ \A i, j \in DOMAIN TAWalk : TAWalk[i] = TAWalk[j] => i = j
  /\ TAContents \subseteq Seq(UNION {{data[i] : i \in DOMAIN data} : data \in TAContents})
  /\ \A found \in TALeftovers : DOMAIN found = {"dirs", "files"}

VARIABLES
  taSource,  \* the files that are there, with their contents
  taTouched, \* files that have been changed since Send began
  taPos,     \* the next path of the walk
  taStream,  \* what has been sent: [name, dir, size, data]
  taSend,    \* "walk", "copy", "ok", "error"
  taBroken,  \* the connection is down
  taFound,   \* what the receiver's directory held before
  taDest,    \* what it holds
  taRead,    \* the next item of the stream
  taReceive  \* "run", "ok", "error"

tavars == <<taSource, taTouched, taPos, taStream, taSend, taBroken, taFound, taDest, taRead,
            taReceive>>
sender == <<taPos, taStream, taSend>>
receiver == <<taFound, taDest, taRead, taReceive>>

TAInit ==
  /\ taSource \in [TAFiles -> TAContents]
  /\ taTouched = {} /\ taPos = 1 /\ taStream = <<>> /\ taSend = "walk" /\ taBroken = FALSE
  /\ taFound \in TALeftovers /\ taDest = taFound
  /\ taRead = 1 /\ taReceive = "run"

TAShort == \* the file last sent has fewer blocks than its header says
  taStream # <<>> /\ Len(taStream[Len(taStream)].data) < taStream[Len(taStream)].size

\* The function given to Walk, up to the header.  The writer of tar refuses a new
\* header, and to close, when it is short of data.
TAHeader ==
  /\ taSend = "walk" /\ taPos <= Len(TAWalk)
  /\ LET path == TAWalk[taPos] IN
     IF taBroken \/ TAShort \/ path \in TAFiles \ DOMAIN taSource
     THEN taSend' = "error" /\ UNCHANGED <<taPos, taStream>>
     ELSE /\ taStream' = Append(taStream,
               [name |-> path, dir |-> path \notin TAFiles, data |-> <<>>,
                size |-> IF path \in TAFiles THEN Len(taSource[path]) ELSE 0])
          /\ taSend' = IF path \in TAFiles THEN "copy" ELSE "walk"
          /\ taPos' = taPos + 1
  /\ UNCHANGED <<taSource, taTouched, taBroken, receiver>>

\* The file is opened and copied as it is by then; what is more than the size in the
\* header is refused.
TACopy ==
  /\ taSend = "copy"
  /\ LET last == Len(taStream)
         item == taStream[last]
     IN
     IF item.name \notin DOMAIN taSource
     THEN taSend' = "error" /\ UNCHANGED taStream
     ELSE LET data == taSource[item.name] IN
          \E n \in 0..item.size :
            /\ n <= Len(data)
            /\ ~taBroken => n = item.size \/ n = Len(data)
            /\ taStream' = [taStream EXCEPT ![last].data = SubSeq(data, 1, n)]
            /\ taSend' = IF taBroken \/ Len(data) > item.size THEN "error" ELSE "walk"
  /\ UNCHANGED <<taSource, taTouched, taPos, taBroken, receiver>>

TAClose ==
  /\ taSend = "walk" /\ taPos > Len(TAWalk)
  /\ taSend' = IF taBroken \/ TAShort THEN "error" ELSE "ok"
  /\ UNCHANGED <<taSource, taTouched, taPos, taStream, taBroken, receiver>>

\* Another process writes a file anew or removes it, or the connection breaks.
TADisturb ==
  /\ taSend \in {"walk", "copy"}
  /\ \/ \E path \in DOMAIN taSource, data \in TAContents :
          /\ taSource' = [taSource EXCEPT ![path] = data]
          /\ taTouched' = taTouched \union {path}
          /\ UNCHANGED taBroken
     \/ \E path \in DOMAIN taSource :
          /\ taSource' = [p \in DOMAIN taSource \ {path} |-> taSource[p]]
          /\ taTouched' = taTouched \union {path}
          /\ UNCHANGED taBroken
     \/ taBroken' = TRUE /\ UNCHANGED <<taSource, taTouched>>
  /\ UNCHANGED <<sender, receiver>>

\* One round of the loop of Receive.  os.OpenFile does not truncate: a longer file
\* that was there keeps its end.
TAReceive ==
  /\ taReceive = "run" /\ taRead <= Len(taStream)
  /\ taRead < Len(taStream) \/ taSend # "copy"
  /\ LET item == taStream[taRead]
         path == item.name
         old == IF path \in DOMAIN taDest.files THEN taDest.files[path] ELSE <<>>
         written == item.data \o SubSeq(old, Len(item.data) + 1, Len(old))
         taken == taDest.dirs \union (IF item.dir THEN DOMAIN taDest.files ELSE {})
     IN IF path \in taken \/ TAParent[path] \notin taDest.dirs \union {"."}
        THEN taReceive' = "error" /\ UNCHANGED <<taDest, taRead>>
        ELSE /\ taDest' =
                  IF item.dir THEN [taDest EXCEPT !.dirs = @ \union {path}]
                  ELSE [taDest EXCEPT !.files =
                          [p \in DOMAIN @ \union {path} |-> IF p = path THEN written ELSE @[p]]]
             /\ taRead' = taRead + 1
             /\ taReceive' = IF Len(item.data) < item.size THEN "error" ELSE "run"
  /\ UNCHANGED <<taSource, taTouched, taBroken, taFound, sender>>

\* A stream that ends after an item reads as one that is complete; only one cut in
\* the middle of a header does not.
TAReceiveEOF ==
  /\ taReceive = "run" /\ taRead > Len(taStream) /\ taSend \in {"ok", "error"}
  /\ taReceive' \in {"ok"} \union (IF taBroken THEN {"error"} ELSE {})
  /\ UNCHANGED <<taSource, taTouched, taBroken, taFound, taDest, taRead, sender>>

TANext == TAHeader \/ TACopy \/ TAClose \/ TADisturb \/ TAReceive \/ TAReceiveEOF
-----------------------------------------------------------------------------
\* Into an empty directory, a Receive without an error has put up the directory up to
\* where Send got, each file at the size of its header and, when nobody touched it, as it
\* was; and the whole of it when Send had no error either.
TAArrivesWhole ==
  (taReceive = "ok" /\ taFound.dirs = {} /\ taFound.files = <<>>) =>
    /\ taDest.dirs \union DOMAIN taDest.files = {TAWalk[i] : i \in 1..Len(taStream)}
    /\ DOMAIN taDest.files = {TAWalk[i] : i \in 1..Len(taStream)} \intersect TAFiles
    /\ taSend = "ok" => Len(taStream) = Len(TAWalk)
    /\ \A i \in 1..Len(taStream) : TAWalk[i] \in TAFiles =>
         /\ Len(taDest.files[TAWalk[i]]) = taStream[i].size
         /\ TAWalk[i] \notin taTouched => taDest.files[TAWalk[i]] = taSource[TAWalk[i]]
=============================================================================
