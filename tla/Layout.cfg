CONSTANT Options <- MCOptions
SPECIFICATION LayoutSpec
INVARIANTS GroupsFitImage HeadersApart ReaderAgrees ResizeListsReserved
