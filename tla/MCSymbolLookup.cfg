\* Three images, any set of realized classes, threads of up to three frames.
CONSTANTS
    app = app
    lib = lib
    old = old
    NULL = NULL
    Image <- ThreeImages
    Methods <- MethodsOfRo
    RoOf <- RoOfClass
    CacheSize = 3
    Frames <- Stacks
    MaxFrames = 2
SPECIFICATION Spec
INVARIANTS
    CacheIsSound
    SizesAgree
    NameIsNearest
