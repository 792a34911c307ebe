------------------------------ MODULE MCUpload -------------------------------
(* Two clients that upload to one path, three times in all.  Before them a  *)
(* listing is answered: over directories of up to four entries, that end in *)
(* every way within messages of seven characters.                           *)
EXTENDS Upload, Listing

Clients == Permutations(Client)

MCInit == Init /\ ListingInit
MCNext == \/ listing = NoListing /\ Next /\ UNCHANGED listing
          \/ Answered /\ UNCHANGED vars
MCSpec == MCInit /\ [][MCNext]_<<vars, listing>>
=============================================================================
