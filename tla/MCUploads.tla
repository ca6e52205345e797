----------------------------- MODULE MCUploads -----------------------------
(***************************************************************************)
(* An instance of Uploads for TLC.  The archives unpack to exactly the     *)
(* limit or to more, hold a file twice, hold links, put a file where a     *)
(* directory must be, lead outside, or are damaged in the middle.          *)
(***************************************************************************)
EXTENDS Uploads, TLC

CONSTANTS upload, r1, r2, r3, other, here, there

MCSourceOf ==
  upload :> here @@ r1 :> here @@ r2 :> here @@ r3 :> here @@ other :> there

Alike == Permutations({r1, r2})

Entry(kind, name, size) == [kind |-> kind, name |-> name, size |-> size]

MCArchive == {
  [format |-> "zip", entries |-> <<Entry("file", <<"a">>, 2), Entry("file", <<"b">>, 1)>>],
  [format |-> "tar", entries |-> <<Entry("file", <<"a">>, 2), Entry("file", <<"b">>, 3)>>],
  [format |-> "zip", entries |-> <<Entry("file", <<"a">>, 2), Entry("link", <<"a">>, 1)>>],
  [format |-> "tar", entries |-> <<Entry("dir", <<"d">>, 0), Entry("link", <<"d">>, 9),
                                   Entry("file", <<"d", "f">>, 3)>>],
  [format |-> "zip", entries |-> <<Entry("file", <<"a">>, 1), Entry("file", <<"a", "b">>, 1)>>],
  [format |-> "tar", entries |-> <<Entry("file", <<"a">>, 1), Entry("outside", <<"b">>, 1)>>],
  [format |-> "zip", entries |-> <<Entry("damaged", <<"a">>, 1), Entry("file", <<"b">>, 1)>>]}
=============================================================================
