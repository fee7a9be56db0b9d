\* A user with two requests at a time, two playlists, three items.
CONSTANTS
  u1 = u1  u2 = u2
  r1 = r1  r2 = r2
  a = a  b = b
  Users = {u1, u2}
  Admins = {u2}
  Requests = {r1, r2}
  By <- RequestOf
  Asks <- AsksOf
  Tracks = {a, b}
  Files <- OneFile
  Shelves <- OneShelf
  Catalogues <- NothingKnown
  MaxPlaylists = 2
  MaxItems = 3
SPECIFICATION FairSpec
INVARIANT TypeOK
INVARIANT PositionsContiguous
INVARIANT NoItemConflict
PROPERTY ImplementsOrder
PROPERTY RequestsEnd
