------------------------------ MODULE Listing --------------------------------
(* Answers that take several messages (common/CommonServer.cpp, OnReceived): *)
(* GETCATALOG lists a directory, GETALLFILEINFO the files of several.  What  *)
(* is read is gathered in a buffer of NR_MAXPACKLEN bytes, which is sent     *)
(* when the next entry does not fit; a "?" ends the answer.  A text is a     *)
(* sequence of marks and of entries, which only have a length; strcat puts a *)
(* terminator of one byte behind it.                                         *)
EXTENDS Naturals, Sequences, SequencesExt, FiniteSets

CONSTANTS Capacity,    \* NR_MAXPACKLEN
          Lengths,     \* lengths of an entry's name or of a file's record
          MaxEntries   \* bound: entries of a directory

ASSUME ListingAssumption == /\ Capacity \in Nat /\ MaxEntries \in Nat
                            /\ \A n \in Lengths : n \in Nat /\ n + 2 < Capacity

Mark(m) == [mark |-> m, size |-> 1]
Size(text) == FoldLeft(LAMBDA n, item : n + item.size, 0, text)

(* A handler: its text, what it gave to SendData, and whether it returned.  *)
(* Lost is the set of the calls of SendData that answer false: their texts  *)
(* may have been delivered all the same.                                    *)
Began == [text |-> <<>>, sent |-> <<>>, gone |-> FALSE]

Sends(h, lost) ==
    LET sent == Append(h.sent, h.text)
    IN  IF Len(sent) \in lost
        THEN [text |-> <<>>, sent |-> Append(sent, <<Mark("?")>>), gone |-> TRUE]
        ELSE [text |-> <<>>, sent |-> sent, gone |-> FALSE]

Ends(h, lost) ==
    IF h.gone THEN h ELSE Sends([h EXCEPT !.text = Append(@, Mark("?"))], lost)

-----------------------------------------------------------------------------
(* MSG_GETCATALOG.  An entry is "." or "..", or its flag and its name.      *)
Entry(e) == [entry |-> e.name, size |-> 1 + e.length]

(* Bug seeded for the runs: the flag before the name is not counted. *)
FullLate(text, e) == Size(text) + 1 + e.length > Capacity
Full(text, e) == Size(text) + 1 + 1 + e.length >= Capacity

Separated(text) == IF text = <<>> THEN text ELSE Append(text, Mark(":"))

CatalogEntry(h, e, lost) ==
    LET sent == IF ~h.gone /\ Full(h.text, e) THEN Sends(h, lost) ELSE h
    IN  IF h.gone \/ e.dot THEN h
        ELSE IF sent.gone THEN sent
        ELSE [sent EXCEPT !.text = Append(Separated(@), Entry(e))]

(* The first entry is put down without a test.  A directory that does not   *)
(* open, or has no entry, is answered with a "?" that is not sent again.    *)
GetCatalog(entries, lost) ==
    IF entries = <<>> THEN <<<<Mark("?")>>>>
    ELSE LET first == IF Head(entries).dot THEN Began
                      ELSE [Began EXCEPT !.text = <<Entry(Head(entries))>>]
         IN  Ends(FoldLeft(LAMBDA h, e : CatalogEntry(h, e, lost), first, Tail(entries)),
                  lost).sent

-----------------------------------------------------------------------------
(* MSG_GETALLFILEINFO.  The record of a file ends with '\r'; folders have   *)
(* none.  The directories that do not open are passed over.                 *)
Record(e) == [entry |-> e.name, size |-> e.length]

InfoEntry(h, e, lost) ==
    LET sent == IF ~h.gone /\ Size(h.text) + e.length > Capacity THEN Sends(h, lost) ELSE h
    IN  IF h.gone \/ e.dot \/ e.folder THEN h
        ELSE IF sent.gone THEN sent
        ELSE [sent EXCEPT !.text = Append(@, Record(e))]

GetAllFileInfo(dirs, lost) ==
    LET all  == FoldLeft(LAMBDA h, e : InfoEntry(h, e, lost), Began,
                         FoldLeft(LAMBDA s, d : s \o d, <<>>, dirs))
        room == IF ~all.gone /\ Size(all.text) + 1 > Capacity THEN Sends(all, lost) ELSE all
    IN  Ends(room, lost).sent

-----------------------------------------------------------------------------
(* An answer as the client puts it together.                                *)
IsMark(item, m) == "mark" \in DOMAIN item /\ item.mark = m
Body(text) == SelectSeq(text, LAMBDA item : ~IsMark(item, "?"))
Told(text) == LET items == SelectSeq(text, LAMBDA item : "entry" \in DOMAIN item)
              IN  [i \in DOMAIN items |-> items[i].entry]
NamesOf(entries) == [i \in DOMAIN entries |-> entries[i].name]
Received(answer, missing) ==
    FlattenSeq([i \in DOMAIN answer |-> IF i \in missing THEN <<>> ELSE answer[i]])

(* In a message a ":" stands between each two entries, or there is none. *)
WellSeparated(text, colon) ==
    LET body == Body(text)
    IN  /\ \A i \in DOMAIN body : IsMark(body[i], ":") <=> (colon /\ i % 2 = 0)
        /\ colon /\ body # <<>> => ~IsMark(Last(body), ":")

(* A text and its terminator fit the buffer.  The terminator of the text    *)
(* with the "?" may lie one byte behind it (CommonServer.cpp:903), and so   *)
(* may, as GETALLFILEINFO tests with > instead of >= (2101), that of any of *)
(* its texts (2124); nothing else does.                                     *)
Fits(text)      == Size(text) + 1 <= Capacity
Spills(text)    == Size(text) + 1 = Capacity + 1
FitsButEnd(answer) == \A i \in DOMAIN answer :
                         \/ Fits(answer[i])
                         \/ IsMark(Last(answer[i]), "?") /\ Spills(answer[i])
FitsOrSpills(answer) == \A i \in DOMAIN answer : Fits(answer[i]) \/ Spills(answer[i])

(* What is received is in order, without a gap or a double, and all there   *)
(* is unless a send failed; nothing comes behind a "?", except one more "?" *)
(* where the send of the first one failed.                                  *)
Complete(answer, entries, lost, missing, colon) ==
    LET got == Received(answer, missing)
        end == Len(Received(answer, missing \cup {Len(answer)}))
    IN  /\ \A i \in DOMAIN answer : WellSeparated(answer[i], colon)
        /\ \A i \in 1..(Len(got) - 1) :
              IsMark(got[i], "?") => i = end /\ got[end + 1] = Mark("?")
                                     /\ Len(answer) - 1 \in lost
        /\ Len(answer) \notin missing => got # <<>> /\ IsMark(Last(got), "?")
        /\ IsPrefix(Told(got), NamesOf(entries))
        /\ lost \cap (DOMAIN answer) = {} => Told(got) = NamesOf(entries)

(* Directories as readdir gives them: the dot entries come in any place. *)
Kinds     == [dot : {FALSE}, folder : BOOLEAN, length : Lengths]
               \cup {[dot |-> TRUE, folder |-> TRUE, length |-> 1]}
Numbered(kinds) == [i \in DOMAIN kinds |-> kinds[i] @@ [name |-> i]]
Directory == {Numbered(k) : k \in UNION {[1..n -> Kinds] : n \in 0..MaxEntries}}

(* A directory, which GETALLFILEINFO gets in two halves, and the sends that *)
(* fail.                                                                    *)
VARIABLE listing

NoListing == [dir |-> <<>>, lost |-> {}]
Listings  == [dir : Directory, lost : SUBSET (1..3)]

Halves(dir) == LET n == Len(dir) \div 2
               IN  <<SubSeq(dir, 1, n), SubSeq(dir, n + 1, Len(dir))>>
Named(dir, folders) == SelectSeq(dir, LAMBDA e : ~e.dot /\ (folders \/ ~e.folder))

ListingInit == listing \in Listings
Answered    == listing # NoListing /\ listing' = NoListing

(* GETCATALOG and GETALLFILEINFO answer with every entry of the directory,  *)
(* or every file of the directories, exactly once and in order, whatever    *)
(* the lengths and wherever a message ends; if a send fails, whether or not *)
(* its message arrived, the client gets the beginning of the answer, and a  *)
(* "?" that looks like its end.  No text runs further behind its buffer     *)
(* than said above.                                                         *)
ListingIsComplete ==
    LET lost    == listing.lost
        catalog == GetCatalog(listing.dir, lost)
        info    == GetAllFileInfo(Halves(listing.dir), lost)
    IN  /\ FitsButEnd(catalog) /\ FitsOrSpills(info)
        /\ \A missing \in SUBSET lost :
              /\ Complete(catalog, Named(listing.dir, TRUE), lost, missing, TRUE)
              /\ Complete(info, Named(listing.dir, FALSE), lost, missing, FALSE)
=============================================================================
