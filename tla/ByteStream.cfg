\* Three frames of five bytes; buffers too small for a header, of about the
\* size of a frame with its header, and large enough for several.
CONSTANTS
  NumFiles = 3
  NameSize <- MCNameSize
  BmpSize = 5
  BufferSizes = {3, 9, 15, 16, 19, 33}
SPECIFICATION FairSpec
INVARIANT TypeOK
PROPERTIES
  ImplementsArchive
  ReadingEnds
