\* One publication of a release with one artifact, next to its upload.
SPECIFICATION ReleasesSpec
CONSTANTS
  Platforms = {"mac"}
  Publishers = {"p1"}
  MaxContents = 2
  MaxRows = 1
  MaxKeys = 1
  MaxPublications = 1
INVARIANT SignatureIsFresh
CHECK_DEADLOCK FALSE
