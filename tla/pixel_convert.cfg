CONSTANT Frame <- AnyFrame
SPECIFICATION Spec
INVARIANTS TypeOK PictureKept ComputedIsLimited
