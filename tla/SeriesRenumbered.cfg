SPECIFICATION Spec
CONSTANTS
  Patch = {p1, p2, v, w}
  EditsOverlay = {v}
  Overlay = Overlay
  MaxCommits = 3
  Vendored = {Overlay, w}
SYMMETRY PatchSymmetry
PROPERTIES ExportReproducible
