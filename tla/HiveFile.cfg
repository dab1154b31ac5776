SPECIFICATION Spec
CONSTANTS
  MaxSize = 2
  MaxFileSize = 1
  MaxVersion = 3
INVARIANT TypeOK
INVARIANT DownloadExact
INVARIANT ReturnsWhatItWrote
INVARIANT FileFitsUnlessReplaced
INVARIANT UploadsNotPadded
PROPERTY ForeignFileKept
